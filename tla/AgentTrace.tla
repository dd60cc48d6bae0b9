----------------------------- MODULE AgentTrace -----------------------------
(***************************************************************************)
(* The agent trace of one operation: the run row and its events, written   *)
(* by TraceRecorder after the root graph has returned, one transaction     *)
(* after the other, by whoever ran the graph: the request that started the *)
(* operation, the request of an approver, or the recovery after a crash.   *)
(*                                                                         *)
(* The operation itself is reduced to what the recorder reads of it; its   *)
(* graph runs in one step.  Saved checkpoints are never behind here.       *)
(***************************************************************************)
EXTENDS Naturals, Sequences, FiniteSets

CONSTANTS
    MaxCycles,      \* bound on approval cycles
    MaxCrashes,     \* bound on crashes of the process
    MaxFaults       \* bound on failing calls

ASSUME TraceAssumption ==
    /\ MaxCycles \in Nat \ {0}
    /\ {MaxCrashes, MaxFaults} \subseteq Nat

VARIABLES
    op,             \* the operation: its action, status, cycle and approvals
    graph,          \* the state of its graph, as far as the recorder reads it
    verdict,        \* the route of the verification made in each cycle
    invoking,       \* who is running the graph
    run,            \* the row of agent_runs: its status and owner
    events,         \* the rows of agent_trace_events, by sequence
    captures,       \* the recordings under way
    boot,           \* the phase of the process
    faults,         \* failing calls so far
    crashes,        \* crashes so far
    overlapped      \* history: has a decision come while a trace was being recorded

traceVars == <<op, graph, verdict, invoking, run, events, captures, boot, faults, crashes,
               overlapped>>

Cycles == 1 .. MaxCycles
Waiting == {"awaiting_approval", "needs_reapproval"}
Ended == {"completed", "rejected", "aborted", "expired", "failed"}
\* "received" and "resuming" stand for all statuses on the way.
OpStatuses == {"absent", "received", "resuming"} \cup Waiting \cup Ended
RunStatuses == {"running", "awaiting_human", "completed", "failed"}
Routes == {"proceed", "reapproval", "abort"}
none == "none"

\* How far the investigation came: intent, goal, observations, analysis, policy.
Investigation == <<"perception:intent", "model:goal", "observation", "model:analysis",
                   "rule:policy_guard">>
GraphStates == [status       : {"running"} \cup Waiting \cup (Ended \ {"expired"}),
                progress     : 0 .. 4,
                verification : Routes \cup {none}]

Keys == {<<k, 0>> : k \in {Investigation[i] : i \in DOMAIN Investigation}
                         \cup {"guardrail:terminal", "feedback:investigation_terminal",
                               "execution:operation_terminal", "feedback:operation_terminal"}}
        \cup {"human:approval", "human:approval_requested", "model:verification",
              "guardrail:binding_verification"} \X (0 .. MaxCycles)
event(name, cycle, said) == [key |-> <<name, cycle>>, said |-> said]

Callers == {"start", "submit", "recover"}

Init ==
    /\ op = [action |-> none, status |-> "absent", cycle |-> 0,
             approvals |-> [c \in Cycles |-> none]]
    /\ graph = [status |-> "running", progress |-> 0, verification |-> none]
    /\ verdict = [c \in Cycles |-> none]
    /\ invoking = none
    /\ run = [status |-> none, owner |-> none]
    /\ events = <<>>
    /\ captures = {}
    /\ boot = "serving"
    /\ faults = 0
    /\ crashes = 0
    /\ overlapped = FALSE

-----------------------------------------------------------------------------
(* What is recorded *)

capture_investigation_events(s) ==
    [i \in 1 .. s.progress + 1 |-> event(Investigation[i], 0, none)]
    \o (IF s.status = "failed" THEN <<event("guardrail:terminal", 0, none)>> ELSE <<>>)
    \o <<event("feedback:investigation_terminal", 0, none)>>

capture_investigation_status(o, s) ==
    IF s.status = "failed" THEN "failed"
    ELSE IF o.action = "create_work_order" THEN "running"
    ELSE "completed"

capture_outcome_status(status) ==
    IF status \in Waiting THEN "awaiting_human"
    ELSE IF status \in Ended \ {"failed"} THEN "completed"
    ELSE IF status = "failed" THEN "failed"
    ELSE "running"

approval_event(o) ==
    IF o.cycle > 0 /\ o.approvals[o.cycle] # none
    THEN <<event("human:approval", o.cycle, o.approvals[o.cycle])>> ELSE <<>>

\* A re-approval has moved on to the next cycle when its verification is recorded.
verification_events(o, s) ==
    LET cycle == IF o.status = "needs_reapproval" /\ o.cycle > 1 THEN o.cycle - 1 ELSE o.cycle
    IN IF s.verification = none THEN <<>>
       ELSE <<event("model:verification", cycle, s.verification),
              event("guardrail:binding_verification", cycle, s.verification)>>

\* Mutant: the outcome is taken from the graph's state, which may be older.
mutant_outcome_events(o, s) ==
    approval_event(o) \o verification_events(o, s)
    \o (IF o.status \in Waiting
        THEN <<event("human:approval_requested", o.cycle, none)>> ELSE <<>>)
    \o (IF o.status = "completed"
        THEN <<event("execution:operation_terminal", 0, none)>> ELSE <<>>)
    \o (IF o.status \in Ended
        THEN <<event("feedback:operation_terminal", 0, s.status)>> ELSE <<>>)

\* Mutant: the execution is recorded before what authorized it.
mutant_execution_first(o, s) ==
    (IF o.status = "completed"
     THEN <<event("execution:operation_terminal", 0, none)>> ELSE <<>>)
    \o approval_event(o) \o verification_events(o, s)
    \o (IF o.status \in Waiting
        THEN <<event("human:approval_requested", o.cycle, none)>> ELSE <<>>)
    \o (IF o.status \in Ended
        THEN <<event("feedback:operation_terminal", 0, o.status)>> ELSE <<>>)

capture_outcome_events(o, s) ==
    approval_event(o) \o verification_events(o, s)
    \o (IF o.status \in Waiting
        THEN <<event("human:approval_requested", o.cycle, none)>> ELSE <<>>)
    \o (IF o.status = "completed"
        THEN <<event("execution:operation_terminal", 0, none)>> ELSE <<>>)
    \o (IF o.status \in Ended
        THEN <<event("feedback:operation_terminal", 0, o.status)>> ELSE <<>>)

-----------------------------------------------------------------------------
(* Recording: TraceRecorder and AgentTraceRepository *)

\* cycle tells the requests of two approvers apart.
capture(by, cycle, state) == [by |-> by, cycle |-> cycle, phase |-> "start_run", state |-> state,
                              todo |-> <<>>, close |-> "running"]
becomes(c, d) == captures' = (captures \ {c}) \cup {d}

start_run(c) ==
    /\ c.phase = "start_run"
    /\ run' = IF run.status = none THEN [run EXCEPT !.status = "running"] ELSE run
    /\ becomes(c, [c EXCEPT !.phase = "investigation",
                            !.todo = capture_investigation_events(c.state),
                            !.close = capture_investigation_status(op, c.state)])
    /\ UNCHANGED <<op, graph, verdict, invoking, events, boot, faults, crashes, overlapped>>

recorded(key) == \E i \in DOMAIN events : events[i].key = key

\* Mutant: the unique key of an event is not looked at.
mutant_append_event(c) ==
    /\ c.todo # <<>>
    /\ events' = Append(events, Head(c.todo))
    /\ becomes(c, [c EXCEPT !.todo = Tail(@)])
    /\ UNCHANGED <<op, graph, verdict, invoking, run, boot, faults, crashes, overlapped>>

\* An event whose key is there already is not inserted again.
append_event(c) ==
    /\ c.todo # <<>>
    /\ events' = IF recorded(Head(c.todo).key) THEN events ELSE Append(events, Head(c.todo))
    /\ becomes(c, [c EXCEPT !.todo = Tail(@)])
    /\ UNCHANGED <<op, graph, verdict, invoking, run, boot, faults, crashes, overlapped>>

\* The recordings of an approver and of the recovery end here; the request
\* that started the operation still claims the run for its operator.
finish_run(c) ==
    /\ c.phase \in {"investigation", "outcome"} /\ c.todo = <<>>
    /\ run' = [run EXCEPT !.status = c.close]
    /\ IF c.phase = "outcome" /\ c.by # "start" THEN captures' = captures \ {c}
       ELSE becomes(c, [c EXCEPT !.phase = IF c.phase = "investigation" THEN "load_detail"
                                           ELSE "claim_owner"])
    /\ UNCHANGED <<op, graph, verdict, invoking, events, boot, faults, crashes, overlapped>>

load_detail(c) ==
    /\ c.phase = "load_detail"
    /\ becomes(c, [c EXCEPT !.phase = "outcome",
                            !.todo = capture_outcome_events(op, c.state),
                            !.close = capture_outcome_status(op.status)])
    /\ UNCHANGED <<op, graph, verdict, invoking, run, events, boot, faults, crashes, overlapped>>

claim_owner(c) ==
    /\ c.phase = "claim_owner"
    /\ run' = IF run.owner = none THEN [run EXCEPT !.owner = "operator"] ELSE run
    /\ captures' = captures \ {c}
    /\ UNCHANGED <<op, graph, verdict, invoking, events, boot, faults, crashes, overlapped>>

\* A transaction of the recording fails: start marks the operation failed,
\* the others only report it.
capture_fails(c) ==
    /\ faults < MaxFaults /\ faults' = faults + 1
    /\ captures' = captures \ {c}
    /\ op' = IF c.by = "start" /\ c.phase # "claim_owner" /\ op.status \notin Ended
             THEN [op EXCEPT !.status = "failed"] ELSE op
    /\ UNCHANGED <<graph, verdict, invoking, run, events, boot, crashes, overlapped>>

-----------------------------------------------------------------------------
(* The operation: ControlledAgentRootRunner *)

\* The graph returns to whoever invoked it, who starts to record.
returns(o, s) ==
    /\ op' = o
    /\ graph' = s
    /\ captures' = captures \cup {capture(invoking, op.cycle, s)}
    /\ invoking' = none
    /\ UNCHANGED <<run, events, boot, crashes, overlapped>>

start(action) ==
    /\ boot = "serving" /\ op.status = "absent"
    /\ op' = [op EXCEPT !.action = action, !.status = "received"]
    /\ invoking' = "start"
    /\ UNCHANGED <<graph, verdict, run, events, captures, boot, faults, crashes, overlapped>>

\* The investigation of a new operation.
investigate ==
    /\ invoking # none /\ op.status = "received"
    /\ \/ returns([op EXCEPT !.status = "completed"],
                  [graph EXCEPT !.status = "completed", !.progress = 4])
       \/ /\ op.action = "create_work_order"
          /\ returns([op EXCEPT !.status = "awaiting_approval", !.cycle = 1],
                     [graph EXCEPT !.status = "awaiting_approval", !.progress = 4])
       \/ \E p \in 0 .. 4 :
            returns([op EXCEPT !.status = "failed"],
                    [graph EXCEPT !.status = "failed", !.progress = p])
    /\ UNCHANGED <<verdict, faults>>

\* ainvoke raises in start: the operation is marked failed, nothing is recorded.
start_fails ==
    /\ invoking = "start"
    /\ faults < MaxFaults /\ faults' = faults + 1
    /\ op' = [op EXCEPT !.status = IF @ \in Ended THEN @ ELSE "failed"]
    /\ invoking' = none
    /\ UNCHANGED <<graph, verdict, run, events, captures, boot, crashes, overlapped>>

\* The API serves once the recovery and its recording are over.
approver_may_act ==
    /\ boot = "serving" /\ invoking = none
    /\ op.status \in Waiting
    /\ \A c \in captures : c.by # "recover"

submit_approval(decision) ==
    /\ approver_may_act
    /\ op' = [op EXCEPT !.status = "resuming", !.approvals[op.cycle] = decision]
    /\ invoking' = "submit"
    /\ overlapped' = (overlapped \/ captures # {})
    /\ UNCHANGED <<graph, verdict, run, events, captures, boot, faults, crashes>>

\* After the deadline the submission expires the operation and raises.
submit_approval_expired ==
    /\ approver_may_act
    /\ op' = [op EXCEPT !.status = "expired"]
    /\ overlapped' = (overlapped \/ captures # {})
    /\ UNCHANGED <<graph, verdict, invoking, run, events, captures, boot, faults, crashes>>

\* The graph goes on with a decision: it is rejected, fails before the
\* verification or is verified, and then takes the verified route or fails.
\* An operation that was marked failed meanwhile refuses every transition.
resume ==
    /\ invoking # none /\ op.status \in {"resuming", "failed"}
    /\ \/ \* rejected
          /\ op.status = "resuming" /\ op.approvals[op.cycle] = "rejected"
          /\ returns([op EXCEPT !.status = "rejected"], [graph EXCEPT !.status = "rejected"])
          /\ UNCHANGED verdict
       \/ \* the refreshed reads, the verifier or a transition fails
          /\ \/ UNCHANGED verdict /\ returns([op EXCEPT !.status = "failed"],
                                             [graph EXCEPT !.status = "failed"])
             \/ /\ op.approvals[op.cycle] = "approved"
                /\ \E route \in Routes :
                     /\ verdict' = [verdict EXCEPT ![op.cycle] = route]
                     /\ returns([op EXCEPT !.status = "failed"],
                                [graph EXCEPT !.status = "failed", !.verification = route])
       \/ \* verified
          /\ op.status = "resuming" /\ op.approvals[op.cycle] = "approved"
          /\ \E route \in Routes :
               /\ verdict' = [verdict EXCEPT ![op.cycle] = route]
               /\ \/ route = "proceed" /\ returns([op EXCEPT !.status = "completed"],
                         [graph EXCEPT !.status = "completed", !.verification = route])
                  \/ route = "abort" /\ returns([op EXCEPT !.status = "aborted"],
                         [graph EXCEPT !.status = "aborted", !.verification = route])
                  \/ /\ route = "reapproval" /\ op.cycle < MaxCycles
                     /\ returns([op EXCEPT !.status = "needs_reapproval", !.cycle = @ + 1],
                                [graph EXCEPT !.status = "needs_reapproval", !.verification = route])
    /\ UNCHANGED faults

-----------------------------------------------------------------------------
(* Crash, expiry and recovery *)

crash ==
    /\ boot # "down" /\ crashes < MaxCrashes
    /\ crashes' = crashes + 1
    /\ boot' = "down"
    /\ invoking' = none /\ captures' = {}
    /\ UNCHANGED <<op, graph, verdict, run, events, faults, overlapped>>

\* The startup expires an operation whose deadline has passed; it records nothing.
expire_due ==
    /\ boot = "down"
    /\ boot' = "recovering"
    /\ \/ UNCHANGED op
       \/ op.status \in Waiting /\ op' = [op EXCEPT !.status = "expired"]
    /\ UNCHANGED <<graph, verdict, invoking, run, events, captures, faults, crashes, overlapped>>

\* Mutant: an operation that keeps waiting is not recorded again.
mutant_recover ==
    /\ boot = "recovering"
    /\ boot' = "serving"
    /\ \/ op.status \in Ended \cup {"absent"} \cup Waiting /\ UNCHANGED <<op, invoking, captures, faults>>
       \/ /\ op.status \in {"received", "resuming"}
          /\ invoking' = "recover" /\ UNCHANGED <<op, captures, faults>>
    /\ UNCHANGED <<graph, verdict, run, events, crashes, overlapped>>

\* recover_all: a waiting operation is kept, one on its way runs on, and both
\* are recorded; a conflict marks it failed; any other exception is deferred.
recover ==
    /\ boot = "recovering"
    /\ boot' = "serving"
    /\ \/ op.status \in Ended \cup {"absent"} /\ UNCHANGED <<op, invoking, captures, faults>>
       \/ /\ op.status \in Waiting
          /\ captures' = {capture("recover", op.cycle, graph)} /\ UNCHANGED <<op, invoking, faults>>
       \/ /\ op.status \in {"received", "resuming"}
          /\ invoking' = "recover" /\ UNCHANGED <<op, captures, faults>>
       \/ /\ op.status \notin Ended \cup {"absent"}
          /\ faults < MaxFaults /\ faults' = faults + 1
          /\ \/ UNCHANGED op
             \/ op.status # "received" /\ op' = [op EXCEPT !.status = "failed"]
          /\ UNCHANGED <<invoking, captures>>
    /\ UNCHANGED <<graph, verdict, run, events, crashes, overlapped>>

record(c) ==
    \/ start_run(c) \/ append_event(c) \/ finish_run(c)
    \/ load_detail(c) \/ claim_owner(c) \/ capture_fails(c)

Next ==
    \/ \E action \in {"query", "create_work_order"} : start(action)
    \/ investigate \/ start_fails
    \/ \E decision \in {"approved", "rejected"} : submit_approval(decision)
    \/ submit_approval_expired \/ resume
    \/ crash \/ expire_due \/ recover
    \/ \E c \in captures : record(c)

TraceSpec == Init /\ [][Next]_traceVars

-----------------------------------------------------------------------------
(* Properties *)

quiet == boot = "serving" /\ invoking = none /\ captures = {}
position(key) == CHOOSE i \in DOMAIN events : events[i].key = key

Operations == [action : {none, "query", "create_work_order"}, status : OpStatuses,
               cycle : 0 .. MaxCycles, approvals : [Cycles -> {none, "approved", "rejected"}]]
Sayings == Routes \cup Ended \cup {none, "approved", "rejected"}
Rows == [key : Keys, said : Sayings]
Captures == [by : Callers, cycle : 0 .. MaxCycles,
             phase : {"start_run", "investigation", "load_detail", "outcome", "claim_owner"},
             state : GraphStates, todo : Seq(Rows), close : RunStatuses]

\* The rows of the run and of its events hold what their columns allow, and so
\* does what is still to be recorded.
TraceTypeOK ==
    /\ op \in Operations
    /\ graph \in GraphStates
    /\ verdict \in [Cycles -> Routes \cup {none}]
    /\ invoking \in Callers \cup {none}
    /\ run \in [status : RunStatuses \cup {none}, owner : {none, "operator"}]
    /\ events \in Seq(Rows)
    /\ captures \subseteq Captures
    /\ boot \in {"serving", "down", "recovering"}
    /\ faults \in 0 .. MaxFaults /\ crashes \in 0 .. MaxCrashes
    /\ overlapped \in BOOLEAN

\* However often a recording is cut off, repeated after a restart or raced by
\* another one, an event is recorded once, under the number it had first.
EventsAreRecordedOnce ==
    \A i, j \in DOMAIN events : events[i].key = events[j].key => i = j

\* What the trace says of the outcome and of a decision is what the operation
\* and its approvals say now, although both may have moved on while it was
\* being recorded.
TraceTellsOutcome ==
    \A i \in DOMAIN events :
        /\ events[i].key[1] = "feedback:operation_terminal" => events[i].said = op.status
        /\ events[i].key[1] = "execution:operation_terminal" => op.status = "completed"
        /\ events[i].key[1] = "human:approval" => events[i].said = op.approvals[events[i].key[2]]

\* Once nothing is being recorded any more, and if no call failed and nobody
\* decided during a recording, an operation that waits is shown waiting, with
\* the request of its cycle, across crashes; one that ended with no crash on
\* the way, and did not expire, is shown ended, to its operator.
TraceReflectsOperation ==
    quiet /\ faults = 0 /\ ~ overlapped =>
        /\ op.status \in Waiting =>
              /\ run.status = "awaiting_human"
              /\ recorded(<<"human:approval_requested", op.cycle>>)
        /\ op.status \in Ended \ {"expired"} /\ crashes = 0 =>
              /\ run.status = capture_outcome_status(op.status)
              /\ run.owner = "operator"
              /\ recorded(<<"feedback:operation_terminal", 0>>)

\* The write of a work order appears in the trace after the verification that
\* let it through and after the guard on the approved binding, unless the
\* decision came while a trace was being recorded.
VerificationPrecedesExecution ==
    ~ overlapped /\ op.cycle > 0 /\ recorded(<<"execution:operation_terminal", 0>>) =>
        \A name \in {"model:verification", "guardrail:binding_verification"} :
            recorded(<<name, op.cycle>>) =>
                position(<<name, op.cycle>>) < position(<<"execution:operation_terminal", 0>>)

\* Once nothing is being recorded any more, the run of an operation that ended
\* other than by its deadline is ended: whatever recordings overlapped, and
\* whenever a crash came.
EndedRunIsClosed ==
    quiet /\ faults = 0 /\ op.status \in Ended \ {"expired"} =>
        run.status \in {none, capture_outcome_status(op.status)}

\* A verification is recorded for a cycle only if the verifier answered in it.
VerificationIsReal ==
    \A c \in Cycles : recorded(<<"model:verification", c>>) => verdict[c] # none
=============================================================================
