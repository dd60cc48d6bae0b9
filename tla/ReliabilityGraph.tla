-------------------------- MODULE ReliabilityGraph --------------------------
(***************************************************************************)
(* The minimal graph that asks for one approval and writes one work order  *)
(* (reliability_graph), the coordinator that brings it back after a        *)
(* restart (recovery_coordinator), and the tables as both use them: the    *)
(* five transitions of OperationStateRepository, submit_once and           *)
(* create_or_get.  One operation: rows of two operations never meet.       *)
(*                                                                         *)
(* There is no error node.  An exception leaves ainvoke and the process    *)
(* forgets the run; only another recover continues it, from the newest     *)
(* saved checkpoint.  Several processes may recover the same operation.    *)
(***************************************************************************)
EXTENDS Naturals, Sequences, SequencesExt

CONSTANTS
    Processes,      \* the processes that call recover
    Payload,        \* work_order_payload of the frozen snapshot
    NoValue,
    MaxLag,         \* bound on the checkpoints of a process not saved yet
    MaxFaults,      \* bound on failing database calls
    MaxCrashes      \* bound on crashes

ASSUME ReliabilityAssumption ==
    /\ NoValue \notin Processes \cup {Payload}
    /\ MaxLag \in Nat \ {0}
    /\ MaxFaults \in Nat
    /\ MaxCrashes \in Nat

VARIABLES
    status, approval_cycle,     \* the operation row
    approvals,                  \* the decision of each approval cycle
    work_order,                 \* the payload of the work order
    audit,                      \* its audit events
    ckpt,                       \* the newest saved checkpoint
    unsaved,                    \* newer ones, as created, with their process
    view,                       \* what load_recovery_view returned to a process
    chosen,                     \* the action for which it is about to call ainvoke
    run,                        \* the node and state a process runs the graph at
    faults, crashes

rowVars == <<status, approval_cycle, approvals, work_order, audit>>
reliabilityVars == <<rowVars, ckpt, unsaved, view, chosen, run, faults, crashes>>

Terminal == {"completed", "rejected"}
Statuses == Terminal \cup {"received", "awaiting_approval", "resuming", "executing", "verifying"}
Decisions == {"approved", "rejected"}
Nodes == {"prepare_approval", "request_approval", "mark_executing", "execute_work_order",
          "mark_verifying", "verify_work_order", "mark_completed", "mark_rejected", "END"}
GraphStates == [approval : Decisions \cup {NoValue}, work_order : {Payload, NoValue}]
Runs == [node : Nodes, state : GraphStates]
Checkpoints == [node : Nodes \cup {"interrupted"}, state : GraphStates]
Views == [status : Statuses, decision : Decisions \cup {NoValue}, work_order : {Payload, NoValue}]

\* RecoveryAction: the two that leave the graph alone are never kept, the three
\* that continue the thread are one.
Actions == {"rebuild_from_business_facts", "resume_decision", "continue_checkpoint"}

\* An absent decision, checkpoint, run, view or action is told from every
\* present one.
ASSUME AbsenceAssumption ==
    NoValue \notin Decisions \cup Runs \cup Checkpoints \cup Views \cup Actions

Events == [type : {"approval_requested", "approval_recorded", "execution_started",
                   "work_order_created", "verification_started", "operation_completed",
                   "operation_rejected"},
           ref  : Decisions \cup {Payload, NoValue}]

\* The approval of the current cycle; cycle 0 cannot have one.
current_decision == IF approval_cycle = 0 THEN NoValue ELSE approvals[approval_cycle]

build_initial_state == [approval |-> NoValue, work_order |-> NoValue]

-----------------------------------------------------------------------------
(* Transactions *)

matching_event(type, ref) ==
    LET rows == SelectSeq(audit, LAMBDA e : e.type = type)
    IN  Len(rows) = 1 /\ rows[1].ref = ref

\* _transition: the commit, and the answer to a caller that already made it.
commit(target, type, ref) ==
    /\ status' = target
    /\ approval_cycle' = IF target = "awaiting_approval" THEN 1 ELSE approval_cycle
    /\ audit' = Append(audit, [type |-> type, ref |-> ref])
    /\ UNCHANGED <<approvals, work_order>>

\* Mutant: no answer for a target that is already reached.
mutant_replayed(target, type, ref) == FALSE

replayed(target, type, ref) == status = target /\ matching_event(type, ref)

\* Mutant: create_or_get does not look for an existing work order.
mutant_write_authorized ==
    /\ current_decision = "approved"
    /\ status \in {"resuming", "executing", "verifying"}

write_authorized ==
    /\ work_order = NoValue
    /\ current_decision = "approved"
    /\ status \in {"resuming", "executing", "verifying"}

create ==
    /\ work_order' = Payload
    /\ audit' = Append(audit, [type |-> "work_order_created", ref |-> Payload])
    /\ UNCHANGED <<status, approval_cycle, approvals>>

\* Mutant: a second decision replaces the first until the graph resumes.
mutant_submit_once(d) ==
    /\ status \in {"awaiting_approval", "resuming"}
    /\ approvals' = [approvals EXCEPT ![approval_cycle] = d]
    /\ status' = "resuming"
    /\ audit' = IF status = "resuming" THEN audit
                ELSE Append(audit, [type |-> "approval_recorded", ref |-> d])
    /\ UNCHANGED <<approval_cycle, work_order, ckpt, unsaved, view, chosen, run, faults, crashes>>

\* ApprovalRepository.submit_once
submit_once(d) ==
    /\ status = "awaiting_approval"
    /\ current_decision = NoValue
    /\ approvals' = [approvals EXCEPT ![approval_cycle] = d]
    /\ status' = "resuming"
    /\ audit' = Append(audit, [type |-> "approval_recorded", ref |-> d])
    /\ UNCHANGED <<approval_cycle, work_order, ckpt, unsaved, view, chosen, run, faults, crashes>>

-----------------------------------------------------------------------------
(* The graph *)

unsaved_of(p) == SelectSeq(unsaved, LAMBDA u : u.by = p)
at(p, node) == run[p] # NoValue /\ run[p].node = node

\* A process goes to a node, with the checkpoint that says so still to be saved.
go(p, node, state) ==
    /\ Len(unsaved_of(p)) < MaxLag
    /\ run' = [run EXCEPT ![p] = [node |-> node, state |-> state]]
    /\ unsaved' = Append(unsaved, [by |-> p, node |-> node, state |-> state])

\* An exception leaves ainvoke once the checkpoints are saved.
raise(p) ==
    /\ unsaved_of(p) = <<>>
    /\ run' = [run EXCEPT ![p] = NoValue]
    /\ UNCHANGED unsaved

\* Mutant: a node swallows a failing database call.
mutant_Call(p, allowed, transaction, replay, node, state) ==
    /\ \/ allowed /\ transaction /\ go(p, node, state) /\ UNCHANGED faults
       \/ ~ allowed /\ UNCHANGED rowVars /\ UNCHANGED faults
          /\ IF replay THEN go(p, node, state) ELSE raise(p)
       \/ /\ faults < MaxFaults
          /\ faults' = faults + 1
          /\ UNCHANGED rowVars \/ (allowed /\ transaction)
          /\ go(p, node, state)
    /\ UNCHANGED <<ckpt, view, chosen, crashes>>

\* The only call of a node: it commits, it finds its commit, or it raises; a
\* database failure raises before or after the commit.
Call(p, allowed, transaction, replay, node, state) ==
    /\ \/ allowed /\ transaction /\ go(p, node, state) /\ UNCHANGED faults
       \/ ~ allowed /\ UNCHANGED rowVars /\ UNCHANGED faults
          /\ IF replay THEN go(p, node, state) ELSE raise(p)
       \/ /\ faults < MaxFaults
          /\ faults' = faults + 1
          /\ UNCHANGED rowVars \/ (allowed /\ transaction)
          /\ raise(p)
    /\ UNCHANGED <<ckpt, view, chosen, crashes>>

prepare_approval(p) ==
    /\ at(p, "prepare_approval")
    /\ Call(p, status = "received", commit("awaiting_approval", "approval_requested", NoValue),
            replayed("awaiting_approval", "approval_requested", NoValue),
            "request_approval", run[p].state)

\* interrupt(): ainvoke returns, and the newest checkpoint waits, unless another
\* process has gone on from it.
request_approval(p) ==
    /\ at(p, "request_approval")
    /\ unsaved_of(p) = <<>>
    /\ run' = [run EXCEPT ![p] = NoValue]
    /\ ckpt' = IF ckpt # NoValue /\ ckpt.node = "request_approval"
               THEN [ckpt EXCEPT !.node = "interrupted"] ELSE ckpt
    /\ UNCHANGED <<rowVars, unsaved, view, chosen, faults, crashes>>

route_decision(d) == IF d = "approved" THEN "mark_executing" ELSE "mark_rejected"

mark_executing(p) ==
    LET d == run[p].state.approval IN
    /\ at(p, "mark_executing")
    /\ Call(p, status = "resuming", commit("executing", "execution_started", d),
            replayed("executing", "execution_started", d), "execute_work_order", run[p].state)

execute_work_order(p) ==
    /\ at(p, "execute_work_order")
    /\ Call(p, write_authorized, create, work_order = Payload,
            "mark_verifying", [run[p].state EXCEPT !.work_order = Payload])

mark_verifying(p) ==
    LET w == run[p].state.work_order IN
    /\ at(p, "mark_verifying")
    /\ Call(p, status = "executing", commit("verifying", "verification_started", w),
            replayed("verifying", "verification_started", w), "verify_work_order", run[p].state)

verify_work_order(p) ==
    /\ at(p, "verify_work_order")
    /\ Call(p, FALSE, UNCHANGED rowVars, work_order = run[p].state.work_order,
            "mark_completed", run[p].state)

mark_completed(p) ==
    LET w == run[p].state.work_order IN
    /\ at(p, "mark_completed")
    /\ Call(p, status = "verifying", commit("completed", "operation_completed", w),
            replayed("completed", "operation_completed", w), "END", run[p].state)

mark_rejected(p) ==
    LET d == run[p].state.approval IN
    /\ at(p, "mark_rejected")
    /\ Call(p, status = "resuming", commit("rejected", "operation_rejected", d),
            replayed("rejected", "operation_rejected", d), "END", run[p].state)

graph_end(p) ==
    /\ at(p, "END")
    /\ raise(p)
    /\ UNCHANGED <<rowVars, ckpt, view, chosen, faults, crashes>>

\* The oldest unsaved checkpoint of a process; older ones of other processes
\* can no longer be the newest.
save(p) ==
    \E i \in DOMAIN unsaved :
        /\ unsaved[i].by = p
        /\ \A j \in 1..(i - 1) : unsaved[j].by # p
        /\ ckpt' = [node |-> unsaved[i].node, state |-> unsaved[i].state]
        /\ unsaved' = SubSeq(unsaved, i + 1, Len(unsaved))
        /\ UNCHANGED <<rowVars, view, chosen, run, faults, crashes>>

-----------------------------------------------------------------------------
(* RecoveryCoordinator.recover *)

load_recovery_view(p) ==
    /\ run[p] = NoValue
    /\ view[p] = NoValue
    /\ view' = [view EXCEPT ![p] = [status |-> status, decision |-> current_decision,
                                    work_order |-> work_order]]
    /\ UNCHANGED <<rowVars, ckpt, unsaved, chosen, run, faults, crashes>>

\* _validate_checkpoint and RecoveryFacts refuse these.
refused(v) ==
    \/ v.status \in Terminal /\ ckpt # NoValue /\ ckpt.node # "END"
    \/ v.work_order # NoValue /\ v.decision = NoValue
    \/ v.status = "received" /\ v.decision # NoValue

phase == IF ckpt = NoValue THEN "missing"
         ELSE IF ckpt.node = "interrupted" THEN "interrupted" ELSE "runnable"

choose_recovery_action(v) ==
    IF v.status \in Terminal THEN "no_op"
    ELSE CASE phase = "missing" -> "rebuild_from_business_facts"
           [] phase = "interrupted" -> IF v.decision # NoValue THEN "resume_decision"
                                                               ELSE "keep_waiting"
           [] phase = "runnable" -> "continue_checkpoint"

\* The checkpoint is read after the row, and may be newer.  Two of the actions
\* end recover here.
aget_state(p) ==
    LET action == choose_recovery_action(view[p])
        ends == refused(view[p]) \/ action \notin Actions
    IN  /\ view[p] # NoValue
        /\ chosen[p] = NoValue
        /\ IF ends THEN view' = [view EXCEPT ![p] = NoValue] /\ UNCHANGED chosen
                   ELSE chosen' = [chosen EXCEPT ![p] = action] /\ UNCHANGED view
        /\ UNCHANGED <<rowVars, ckpt, unsaved, run, faults, crashes>>

\* ainvoke on a thread that stops in request_approval, or is about to, takes the
\* decision there; without one the node runs again.  From any other node the
\* graph goes on, and a thread at its end runs nothing.
resume(p, d) ==
    IF ckpt.node \in {"interrupted", "request_approval"}
    THEN go(p, route_decision(d), [ckpt.state EXCEPT !.approval = d])
    ELSE /\ run' = [run EXCEPT ![p] = IF ckpt.node = "END" THEN NoValue ELSE ckpt]
         /\ UNCHANGED unsaved

continue(p) ==
    /\ run' = [run EXCEPT ![p] =
            CASE ckpt.node = "END" -> NoValue
              [] ckpt.node = "interrupted" -> [ckpt EXCEPT !.node = "request_approval"]
              [] OTHER -> ckpt]
    /\ UNCHANGED unsaved

\* ainvoke reads the thread for itself: another process may have created it or
\* moved it since aget_state.  An initial state starts it over even so.
ainvoke(p) ==
    /\ chosen[p] # NoValue
    /\ CASE chosen[p] = "rebuild_from_business_facts" ->
                go(p, "prepare_approval", build_initial_state)
         [] chosen[p] = "resume_decision" -> resume(p, view[p].decision)
         [] chosen[p] = "continue_checkpoint" -> continue(p)
    /\ view' = [view EXCEPT ![p] = NoValue]
    /\ chosen' = [chosen EXCEPT ![p] = NoValue]
    /\ UNCHANGED <<rowVars, ckpt, faults, crashes>>

\* One of the reads fails, and recover with it.
recover_raises(p) ==
    /\ view[p] # NoValue
    /\ faults < MaxFaults
    /\ faults' = faults + 1
    /\ view' = [view EXCEPT ![p] = NoValue]
    /\ chosen' = [chosen EXCEPT ![p] = NoValue]
    /\ UNCHANGED <<rowVars, ckpt, unsaved, run, crashes>>

\* The checkpoints that the process has not saved are nobody's any more.
crash(p) ==
    /\ crashes < MaxCrashes
    /\ run[p] # NoValue \/ view[p] # NoValue
    /\ crashes' = crashes + 1
    /\ run' = [run EXCEPT ![p] = NoValue]
    /\ view' = [view EXCEPT ![p] = NoValue]
    /\ chosen' = [chosen EXCEPT ![p] = NoValue]
    /\ unsaved' = [i \in DOMAIN unsaved |-> IF unsaved[i].by = p THEN [unsaved[i] EXCEPT !.by = NoValue]
                                         ELSE unsaved[i]]
    /\ UNCHANGED <<rowVars, ckpt, faults>>

-----------------------------------------------------------------------------
Init ==
    /\ status = "received" /\ approval_cycle = 0
    /\ approvals = [c \in {1} |-> NoValue]
    /\ work_order = NoValue /\ audit = <<>>
    /\ ckpt = NoValue /\ unsaved = <<>>
    /\ view = [p \in Processes |-> NoValue]
    /\ chosen = [p \in Processes |-> NoValue]
    /\ run = [p \in Processes |-> NoValue]
    /\ faults = 0 /\ crashes = 0

GraphStep(p) ==
    \/ prepare_approval(p) \/ request_approval(p) \/ mark_executing(p) \/ execute_work_order(p)
    \/ mark_verifying(p) \/ verify_work_order(p) \/ mark_completed(p) \/ mark_rejected(p)
    \/ graph_end(p)

Next ==
    \/ \E d \in Decisions : submit_once(d)
    \/ \E p \in Processes :
        \/ GraphStep(p) \/ save(p)
        \/ load_recovery_view(p) \/ aget_state(p) \/ ainvoke(p) \/ recover_raises(p)
        \/ crash(p)

\* A process that is not killed goes on with what it has begun.  Nobody has to
\* decide, and nothing in the code calls recover.
Fairness == \A p \in Processes :
    /\ WF_reliabilityVars(GraphStep(p))
    /\ WF_reliabilityVars(save(p))
    /\ WF_reliabilityVars(aget_state(p))
    /\ WF_reliabilityVars(ainvoke(p))

ReliabilitySpec == Init /\ [][Next]_reliabilityVars /\ Fairness

-----------------------------------------------------------------------------
(* Properties *)

\* The types of the row, the checkpoints and the processes.
ReliabilityTypeOK ==
    /\ status \in Statuses /\ approval_cycle \in 0..1
    /\ approvals \in [{1} -> Decisions \cup {NoValue}]
    /\ work_order \in {Payload, NoValue}
    /\ audit \in Seq(Events)
    /\ ckpt \in Checkpoints \cup {NoValue}
    /\ unsaved \in Seq([by : Processes \cup {NoValue}, node : Nodes, state : GraphStates])
    /\ view \in [Processes -> Views \cup {NoValue}]
    /\ chosen \in [Processes -> Actions \cup {NoValue}]
    /\ run \in [Processes -> Runs \cup {NoValue}]
    /\ faults \in 0..MaxFaults /\ crashes \in 0..MaxCrashes

Path(d) ==
    <<"approval_requested", "approval_recorded">>
    \o IF d = "approved"
       THEN <<"execution_started", "work_order_created", "verification_started", "operation_completed">>
       ELSE <<"operation_rejected">>

\* However often nodes are replayed, after crashes, lost answers or by several
\* processes at once, the audit trail is one walk through the graph: no event is
\* there twice, none of the other branch, and the row stands where it ends.
HistoryIsOnePath ==
    LET types == [i \in DOMAIN audit |-> audit[i].type]
        standing == CASE status = "received" -> {0}
                      [] status = "awaiting_approval" -> {1}
                      [] status = "resuming" -> {2}
                      [] status = "rejected" -> {3}
                      [] status = "executing" -> {3, 4}
                      [] status = "verifying" -> {5}
                      [] status = "completed" -> {6}
    IN  /\ \E d \in Decisions : IsPrefix(types, Path(d)) /\ (Len(types) > 1 => d = current_decision)
        /\ Len(types) \in standing

\* The walk of the graph ahead of each node, as statuses of the row.
Reached == [n \in Nodes \cup {"interrupted"} |->
    CASE n = "prepare_approval" -> Statuses
      [] n \in {"request_approval", "interrupted"} -> Statuses \ {"received"}
      [] n \in {"mark_executing", "mark_rejected"} -> Statuses \ {"received", "awaiting_approval"}
      [] n \in {"execute_work_order", "mark_verifying"} -> {"executing", "verifying", "completed"}
      [] n \in {"verify_work_order", "mark_completed"} -> {"verifying", "completed"}
      [] n = "END" -> Terminal]

\* What a run or a checkpoint has behind it is committed: recovery may repeat
\* transactions, it never finds itself ahead of the row.
CheckpointIsBehindRow ==
    LET points == {run[p] : p \in Processes} \cup {ckpt} \cup Range(unsaved) IN
    \A c \in points \ {NoValue} :
        /\ status \in Reached[c.node]
        /\ c.state.approval \in {NoValue, current_decision}
        /\ c.state.work_order \in {NoValue, work_order}

Promise == INSTANCE ApprovedWrite WITH
    Operations <- {"operation"},
    Plans <- {Payload},
    proposed <- [o \in {"operation"} |-> IF status = "received" THEN NoValue ELSE Payload],
    decision <- [o \in {"operation"} |-> IF current_decision = NoValue THEN "none" ELSE current_decision],
    written <- [o \in {"operation"} |-> work_order],
    closed <- IF status \in Terminal THEN {"operation"} ELSE {}

\* One decision, one write of the frozen payload after its approval, nothing
\* after the end.
ReliabilityKeepsApprovedWrite == Promise!Spec

RecoverIsCalledAgain == []<><<\E p \in Processes : load_recovery_view(p)>>_reliabilityVars

busy(p) == view[p] # NoValue \/ run[p] # NoValue

\* One worker begins the thread.
FirstRunIsAlone ==
    \A p, q \in Processes : ckpt = NoValue /\ busy(p) /\ busy(q) => p = q

\* The row at which each node's transition is allowed or replayed.
Standing == [n \in Nodes \cup {"interrupted"} |->
    CASE n = "prepare_approval" -> {"received", "awaiting_approval"}
      [] n \in {"request_approval", "interrupted"} -> Statuses
      [] n = "mark_executing" -> {"resuming", "executing"}
      [] n = "mark_rejected" -> {"resuming", "rejected"}
      [] n \in {"execute_work_order", "mark_verifying"} -> {"executing", "verifying"}
      [] n \in {"verify_work_order", "mark_completed"} -> {"verifying", "completed"}
      [] n = "END" -> Statuses]

\* The thread waits at a node that the row has left behind.
stranded == ckpt # NoValue /\ status \notin Standing[ckpt.node]

decided == current_decision # NoValue

\* A decision takes effect: the approved work order is written and verified, or
\* the rejection closes the operation.  It does so through crashes and failing
\* calls, if recover is called again and again, or the thread is stranded for
\* good: every attempt replays a node that the row refuses.  A decision that finds
\* the graph interrupted is stranded only by a crash with several checkpoints
\* unsaved or by two processes that begin the thread at once, of which the second
\* starts it over.
DecisionTakesEffect ==
    RecoverIsCalledAgain =>
        /\ \/ decided ~> (status \in Terminal)
           \/ <>[]stranded
        /\ [](FirstRunIsAlone /\ \A p \in Processes : Len(unsaved_of(p)) <= 1) =>
               ((decided /\ phase = "interrupted") ~> (status \in Terminal))

=============================================================================
