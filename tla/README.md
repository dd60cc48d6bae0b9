# OperCerta in TLA+

OperCerta is an agent that investigates an operational problem (a stock
shortage, a failing machine, a late task), proposes one controlled action, asks
a human for approval, checks the facts again and writes one work order. The
promise of the system is in the last three steps: **no work order without a
current human approval of exactly that plan, at most one work order per
operation, and nothing lost or repeated when a process dies in between.** This
directory models the code that has to keep the promise.

Paths below are relative to `src/src/opercerta/`.

## 1. The system

| Component | State | Operations | Talks to |
|---|---|---|---|
| Operation store `infrastructure/db/replenishment_operation_repository.py` | rows of `operations`, `audit_events`: status, snapshot (request, evidence, plan, binding), approval cycle and deadline, result, audit sequence | `create`, 14 `mark_*`/`record_*` transactions through `_transition`, `load_detail`, `list_recoverable_ids`, `list_due_approval_ids` | PostgreSQL row locks; updates the linked signal |
| Approval store `.../approval_repository.py` | `approvals`, one row per operation and cycle | `submit_bound_once` (record, expire or refuse), `submit_once` | reads and writes the operation row |
| Work-order store `.../work_order_repository.py` | `work_orders`, one row per idempotency key | `create_or_get`, `get` | called by the MCP tool server only |
| Signal store `.../signal_repository.py` | `operational_signals`: status, operation, predecessor | `upsert_detected`, `create_successor`, `reconcile_terminal_links` | claimed by `create`, settled by terminal transitions |
| Root graph `workflow/inventory_agent_root_graph.py` | LangGraph state and checkpoints, one thread per operation | one node per step, from `encode_goal` to `mark_completed` | every store, the model, the MCP gateway |
| Runner and recovery `application/controlled_agent_root_runner.py`, `workflow/controlled_agent_root_recovery.py`, `domain/recovery.py` | coroutines in the API process | `start`, `submit_approval`, `recover_all`, `expire_due` | graph, stores, checkpointer |
| MCP gateway and tool server `infrastructure/mcp_gateway.py`, `tools/` | none of their own | `work_order_create`, `work_order_get`, read tools; a timeout and one retry | work-order store |
| Agent loop `agent/`, `domain/agent.py` | turns, tool calls, budgets | `model_decide`, `authorize_tools`, `execute_read_tools` | model, tools |
| Policies `domain/replenishment.py`, `maintenance.py`, `task_recovery.py`, `application/scenario_*` | none | assessment, plan, binding | pure |
| Evidence cache `infrastructure/observation_gateway.py`, `cache.py` | cached observations | read-through, refresh | tools |
| Agent trace `agent/trace_recorder.py`, `.../agent_trace_repository.py` | trace rows | capture after the graph returns | runner |
| Scenario graphs `workflow/*_graph.py`, `application/operation_runner.py` | their own checkpoints | the graphs that the root graph replaced | same stores |
| Reliability graph `workflow/reliability_graph.py`, its coordinator and repository | checkpoints, one approval, one work order | `prepare_approval` to the write, `recover` | its own store |
| HTTP API `api/` | event streams | operations, approvals, signals, server-sent events | runner, stores |

### What is hard here

* Two processes and a human act on one row: the graph, a late MCP write, an
  approver (or two), the expiry service, `start`'s exception handler.
* The business tables and the checkpoints are saved by different transactions
  at different times; after a crash they disagree, and recovery decides from both.
* A decision is about facts that were read earlier. Facts that change open a
  new approval cycle, and what belongs to the old cycle must lose its force.
* A deadline is compared by several callers with clocks read before the lock.
* Signals are claimed, settled and retried from several transactions.

`PROJECT.json` lists each hazard with its line and the properties that would
catch it.

## 2. Modules

| Module | Models | Extends |
|---|---|---|
| `ApprovedWrite` | what the system promises of an operation that may write (abstract) | |
| `OperationStore` | the five tables and every transaction on them | |
| `RootGraph` | root graph, runner, recovery, startup, MCP write, crashes | `OperationStore` |
| `ScenarioGraph` | the three scenario graphs, their runner and recovery, the evidence table | `OperationStore` |
| `ReliabilityGraph` | the minimal approval and write graph, its repository and coordinator | |
| `ToolPolicy`, `AgentLoop` | the tool policy and budgets; the investigation loop of the root graph | |
| `ScenarioPolicy` | the rules of the three scenarios as operators | |
| `EvidenceFlow` | catalog, cache, reads, approval, refreshed reads and the write | `ScenarioPolicy` |
| `SignalScan` | detection of signals by concurrent scans | `ScenarioPolicy` |
| `SignalCases` | the signal inbox: cases, investigate and retry | `OperationStore` |
| `AgentTrace` | the recording of a run and its events beside a running operation | |
| `MC*` | values of the constants for TLC | the module they check |
| `*Proofs` | the theorems about a module: the store, the root, scenario and reliability graphs, the loop, the evidence flow, the scans, the trace (section 4) | the module they are about, `TLAPS`; `RootGraphProofs` and `ScenarioGraphProofs` also `OperationStoreProofs` |

Every state machine has a type invariant. The ones of the modules with a
`*Proofs` module are proved; the runs spend their properties on what takes
several steps to break.

### ApprovedWrite and its refinements

`ApprovedWrite` knows a proposed plan, a decision about it, a written plan and
the set of closed operations. A plan may be proposed anew only in place of an
approved one and takes its decision away; a proposal is decided once; one write
of exactly the proposed plan needs the approval in force; a closed operation
does not change. Three detailed specifications are shown to implement it, by
three different designs:

* `RootGraph` (`KeepsApprovedWrite`) and `ScenarioGraph`
  (`ScenarioKeepsApprovedWrite`): `proposed` is the plan of the stored binding,
  `decision` the approval of the current cycle as `load_detail` reads it,
  `written` the plan in the work order's payload, `closed` the operations in a
  terminal status. This reading of the tables is `Promise` in `OperationStore`.
  A re-approval is one step of the store: binding and cycle change together,
  which is what `Propose` demands.
* `ReliabilityGraph` (`ReliabilityKeepsApprovedWrite`): one frozen payload, one
  cycle, several processes.

### OperationStore

Each transaction first locks its operation (or signal) with `SELECT ... FOR
UPDATE` and commits at its end, so one transaction is one action. Names are
those of the repositories. A transaction that raises, or that finds that its
own effect is already there (`_transition` with a matching event,
`create_or_get` with the same payload hash, a second `create_successor`),
changes nothing: it is a stuttering step. The predicates that decide it
(`replayed`, `create_or_get_replayed`, `load_detail_succeeds`) are named,
because `RootGraph` has to know how a call ended.

`Next` is the most general client: any transaction, any order, any arguments
of the right type, including approvals of earlier cycles, bindings of replaced
facts and clock readings `t <= now` taken before the lock was granted. Its
properties therefore hold for every caller, the ones that are not modelled
included.

Data: a bundle of evidence, a plan, an approver or an error code is a model
value; `PlanOf` is what the policy derives from a bundle (`NoValue`: no action
needed); an approval binding is the pair of evidence and plan, and
`binding_facts`, what the verifier compares, leaves the evidence ids out. An
approval or work-order row is its own id. The audit payload keeps what
`_require_matching_event` compares.

### RootGraph

A run of the graph is a coroutine `run[o]` at a node with the graph's state.
Each node is one step, because it makes at most one call that writes;
`persist_policy_result` makes up to four and is split at each of them, but it
has one checkpoint, so after a crash it starts again at `record_evidence`. The
nodes from `model_decide` to `calculate_policy` only read and are the one step
`investigate`, with every bundle as a possible result; `AgentLoop` has them one
by one.

`Call` is a repository call inside a node: it commits, recognises its own
earlier commit, raises because the guards fail, or raises because the database
failed, before or after the commit. Exceptions lead to `mark_failed`, whose own
exception is swallowed, as in the code. A node that only reads or asks the
model (`ReadOnly`) may fail whenever it runs: a spent budget, missing evidence
or an invalid answer is no failing dependency and has no bound. `MaxFaults`
bounds the failing calls to the database, the checkpointer, the trace and the
MCP server.

Checkpoints: when a node ends its successor and state are appended to
`unsaved[o]`, and `save_checkpoint` saves them in order. `MaxLag` bounds how
many may be unsaved, counting the one of the node that has just ended: 1 is
saving before the next node starts, 2 is one step behind. The code sets no
durability mode, so LangGraph saves while the graph runs on and nothing holds
the graph back: no theorem assumes a bound on `MaxLag`, and the runs go to 3, the
first value at which a crash can take a thread from one approval cycle back into
the interrupt of an earlier one. `setBack` is a history variable, the operations
whose thread has lost three or more checkpoints at once; the properties say
exactly what such a thread may do that others may not.

The process: `crash` loses every coroutine, unsaved checkpoint, pending
`submit_approval` and trace capture. `restart`, `expire_due`,
`list_recoverable`, `recover` and `serve` are the order of the API's lifespan;
`recovery_action` is `choose_recovery_action` with the checks of
`load_detail`, `RecoveryFacts` and `recover` that run before it acts.

The MCP write may time out after the client's retry; the request is then in
flight and may still be executed at any later time (`late_write`) or never.

### AgentLoop and ToolPolicy

One action per node, `encode_goal` to `calculate_policy`. The model may return
any turn: any batch of calls with any tools, arguments and identifiers, a final
analysis that does or does not admit missing evidence, or nothing usable. The
budgets are counted in the graph's state (`model_call_count`, the authorized
calls); `spent` and `reads` count what was really done, which a crash does not
take back. A node's checkpoint is saved or lost when the process dies.

### ScenarioPolicy, EvidenceFlow, SignalScan

`ScenarioPolicy` translates the assessments, plans and decision facts of the
three domains. An observation that claims a heartbeat or progress after its own
capture is refused (`snapshot_valid`), and the digest of a machine covers the
version of its source. `EvidenceFlow` puts them behind the cache: a read of the model
takes a cached reading or loads one and writes it to the cache later
(`loading`), entries expire, the catalog and the deployed policy change, a plan
is approved, the reads after the approval go past the cache, and the order is
written if the plan still stands. `SignalScan` has several scans that visit the
watchlist target by target; a source that fails becomes an issue of the scan, a
store that fails ends it.

### ScenarioGraph

The three graphs have the same roles under partly different node names; the
module has a table of edges for each and one action for each role. Most nodes
let an exception end the run. The recovery rebuilds a graph whose checkpoint is
missing from the row (`state_from_detail`, `completed_node_for`), saves the
rebuilt state and goes on, for a decided operation in a second call. `lag` is
the number of checkpoints that are not saved, counted as in `RootGraph`; a crash
takes them. `setBack` is the one of `RootGraph`. The interrupt reads the deadline
with `load_detail` first and fails the graph when there is none.

### ReliabilityGraph

There is no error node: an exception leaves `ainvoke`, and only another
`recover` goes on, from the newest checkpoint. Several processes may call it, and
the coordinator takes no lock. `recover` is three steps: it reads the row
(`load_recovery_view`), then the checkpoint (`aget_state`, with the choice of the
action), and then calls `ainvoke`, which looks at the thread again; a decision and
the steps of another process may fall between any two of them. An approver may
decide as soon as `mark_awaiting_approval` has committed.

### AgentTrace

`captures` are the recordings under way, each one transaction after the other:
`start_run`, the events of the investigation, `finish_run`, a fresh
`load_detail`, the events of the outcome, `finish_run`, `claim_owner`. Requests
of `start`, of approvers and the recovery after a crash all record. `verdict`
is a history variable, the verifications that were really made; `overlapped`
another, whether someone decided while a recording was under way.

### SignalCases

`list_cases` groups the signals of an object into chains and makes the leaf of
the last chain the current one; a page keeps what it showed. `retry_signal` and
`investigate_signal` run two transactions, and the request may die between them.

## 3. Runs

| Run | Shows | States |
|---|---|---|
| `decision_cycles` | The approval protocol of one operation through two cycles with two approvers, three bundles (two plans and none), three clock values and the signal it was started for: `OneDecisionPerCycle`, `DecisionBindsSnapshot`, `DeadlineDecides`, `ExecutionIsBacked`, `WriteFollowsApproval`, `AuditExplainsRow`, `SignalFollowsOperation`, `TerminalIsFinal` | 640 k, up to symmetry of ids |
| `root_graph` | The root graph through three approval cycles and the signal it was started for, with two crashes, one failing call anywhere, a delayed write and up to three unsaved checkpoints: `WorkOrderIsApproved`, `WaitingIsResumable`, `DetailLoads`, `KeepsApprovedWrite`, `ComesToRest`, `StartupSettlesSignals` | 2.2 M |
| `scenario_graph` | The scenario graphs through three approval cycles, with one crash, one failing call and up to three unsaved checkpoints: `InterruptHoldsRowFacts`, `RecordedEvidenceIsSaved`, `RestartUsesDecision`, `ScenarioKeepsApprovedWrite`, `ScenarioComesToRest`, `StrandedOnlyFarBehind` | 1.1 M |
| `reliability_graph` | Two processes, two crashes, two failing calls, up to two unsaved checkpoints: `HistoryIsOnePath`, `CheckpointIsBehindRow`, `ReliabilityKeepsApprovedWrite`, `DecisionTakesEffect` | 357 k |
| `agent_loop` | Any turns of the model, a required and an optional tool, two crashes: `EvidenceIsComplete`, `SpendIsBounded`, `BudgetNeverStarves`, `LoopTerminates` | 359 k |
| `evidence_flow` | A changing catalog and policy, cached readings, late cache writes: `OrderFollowsFreshFacts`, `OrderIsJustified` | 2.3 M |
| `signal_scan` | Two scans side by side, failing sources and store: `UnchangedConditionIsOneSignal`, `ReturnedScanMissedNothing` | 380 k |
| `signal_cases` | Two users, two conditions of one object, retries, dying requests: `SignalClaim`, `SignalLineage`, `CaseIsWhole`, `OfferedActionStarts` | 39 k, up to symmetry |
| `agent_trace` | Two cycles, one crash, one failing call, overlapping recordings: `EventsAreRecordedOnce`, `TraceTellsOutcome`, `TraceReflectsOperation`, `VerificationPrecedesExecution` | 4.8 M |
| `write_matches_decision`, `ended_run_is_closed`, `verification_is_real` | statements of the documents that the code does not meet (section 5) | violated |

Bounds. Operations of the store share no row but a signal's, so one operation
is enough for the decision protocol, and two for the signals (a claim is a
race of two). Two cycles are enough for an approval of an earlier cycle to
exist while a later one is open, and the graphs go to three, for the second
re-approval leaves two events of the type that a replay compares; two approvers
for a race. The store has the times 0, 1, 2 for a decision before, at and after
a deadline; in the graphs, whose deadlines are one unit away, 0 and 1 are enough
for a deadline to pass in any cycle, and `MaxDeadline` is large enough for every
deadline a graph can compute (`MaxTime + ApprovalTtl <= MaxDeadline`). Four
signals are enough for two chains with a retry each. In `RootGraph` and
`ScenarioGraph` the four bundles are two readings of the same facts, one of
other facts and one that needs no action: every route of the verifier. Two
crashes are enough for a crash during a recovery; `scenario_graph` has one, and
section 5 says what a second one does. Three unsaved checkpoints are those of the
resume, of `refresh_and_verify` and of `mark_needs_reapproval`, after which the
graph stops in the next interrupt; the theorems have no bound. `AgentLoop` gets the smallest budgets
that are enough for its two tools, so that each budget is reached, and three
call identifiers, so that a duplicate and a third call are possible.
`EvidenceFlow` and `SignalScan` have values on both sides of every threshold and
on it, and one change of the catalog.

`CHECK_DEADLOCK FALSE`: an operation that has come to rest does nothing, and
the clock and the cycles are bounded. Where it is not set the system never
stops by itself.

Symmetry is used in `decision_cycles` and `signal_cases`, which check safety
only, for ids that are only compared.

### Fairness

* `RootGraph`: what the program does unasked (`Progress`) goes on as long as
  there is any: the nodes of a started coroutine (every model, MCP and database
  call has a timeout, and the event loop runs it), the saves of the checkpointer,
  `submit_approval` after its commit, and the restart of a crashed process with
  its startup. `ScenarioGraph`: the same. Weak fairness of the whole is less than
  of each part, and it is enough.
* `AgentLoop`: the coroutine goes on.
* `ReliabilityGraph`: a process that is not killed goes on with what it has
  begun (a node, the save of a checkpoint, the steps of a `recover`). That
  `recover` is called again is not assumed, for nothing in the code schedules it;
  it is a premise of the property (`RecoverIsCalledAgain`).

Nothing is assumed of approvers, scans, requests, the clock, the network or
the model, so waiting for a decision is a legitimate end.

The liveness properties carry their conditions as premises, so that one run
has the faults and the properties that do not survive them: `ComesToRest` and
`ScenarioComesToRest` are about behaviours without a failing dependency. A
thread whose checkpoint the row has left behind never goes on; the properties
do not leave that case out but name it (`stranded`), and say how far it can come:

* `ScenarioComesToRest`: an operation comes to rest or is stranded for good;
  `StrandedOnlyFarBehind`: it is stranded only while two checkpoints are unsaved,
  never by a rebuild, by a replay or by a crash that takes one.
* `DecisionTakesEffect`: every decision takes effect or its thread is stranded
  for good; a decision that finds the graph interrupted is not, as long as no
  process has more than one checkpoint unsaved and no two processes begin the
  thread at once (`FirstRunIsAlone`; the restart design claims recovery for a
  single worker only).

## 4. Proofs

The theorems hold for every value of the constants that the named assumptions
admit: any number of operations, signals, bundles, plans, approvers, processes,
scans, tools, cycles, crashes and failing calls, any bound on clocks and
budgets. Each has the shape `Spec => []P`, an action property or a refinement;
for each module one inductive invariant is shown to hold initially, to be
preserved by every action, and to imply the properties.

| Module | Theorems | Inductive invariant |
|---|---|---|
| `OperationStoreProofs` | `StoreTypes`; `StoreOneDecisionPerCycle`, `StoreDecisionBindsSnapshot`, `StoreDeadlineDecides`, `StoreCycleFollowsStatus`, `StoreExecutionIsBacked`; `StoreTerminalIsFinal`; `StoreSignalClaim`, `StoreSignalFollowsOperation`, `StoreSignalLineage`; `StoreAuditExplainsRow`, `StoreWriteFollowsApproval` | `TypeOK`, `DecisionInv`, `SignalInv`, `TrailInv` |
| `RootGraphProofs` | `RootImplementsStore`, `RootTypes`, `RootDetailLoads`; `RootWorkOrderIsApproved`, `RootWaitingIsResumable`, `RootKeepsApprovedWrite`, `RootStartupSettlesSignals` | `GraphInv`; `GraphInv /\ BoundInv` |
| `ScenarioGraphProofs` | `ScenarioImplementsStore`, `ScenarioTypes`, `ScenarioDetailLoads`, `ScenarioEvidenceSaved`; `ScenarioRestartUsesDecision`; `ScenarioInterruptHoldsRowFacts`, `ScenarioKeepsPromise` | `GraphInv`; `GraphInv /\ ResumeInv`; `GraphInv /\ BoundInv` |
| `ReliabilityGraphProofs` | `ReliabilityTypes`, `ReliabilityCheckpointIsBehindRow`, `ReliabilityHistoryIsOnePath`, `ReliabilityImplementsApprovedWrite` | `RInv` |
| `AgentLoopProofs` | `LoopTypes`, `LoopEvidenceIsComplete`, `LoopSpendIsBounded`, `LoopBudgetNeverStarves` | `LoopInv` |
| `EvidenceFlowProofs` | `FlowTypes`, `FlowOrderFollowsFreshFacts`, `FlowOrderIsJustified` | `FlowInv` |
| `SignalScanProofs` | `ScanTypes`, `ScanUnchangedConditionIsOneSignal`, `ScanReturnedScanMissedNothing` | `ScanInv` |
| `AgentTraceProofs` | `TraceTypes`, `TraceRecordsOnce`, `TraceTellsTruth`, `TraceCatchesUp`, `TraceVerifiesFirst` | `TraceInv` |

### Assumptions

They are stated in the modules that declare the constants, and TLC evaluates
them in every run. Most are types of constants (`StoreAssumption`,
`RootAssumption`, `ScenarioAssumption`, `ReliabilityAssumption`, `LoopAssumption`,
`ToolPolicyAssumption`, `FlowAssumption`, `ScanAssumption`, `TraceAssumption`).
The others say

* that NULL is no value: `NullAssumption`, `NoThreadAssumption`,
  `AbsenceAssumption` and `NoneAssumption` tell `NoValue` from the records and
  strings it stands beside;
* that NULL is no deadline: `DeadlineAssumption`;
* that deadlines fit: `MaxTime + ApprovalTtl <= MaxDeadline`, so that what a
  graph asks for is a deadline of the store;
* what the validated configuration guarantees: seeds of the catalog are
  well-formed (`ValidSeed`), a watchlist is not empty and has no target twice,
  at least one tool is required and every required tool is offered.

### The arguments

*Store.* The decision properties are not inductive one by one. That a second
decision cannot enter a cycle rests on the status (`decision_open`), that the
decision binds the snapshot rests on the cycle having no decision while the
operation waits, and that a new cycle starts undecided rests on no decision
being ahead of its operation. `DecisionInv` is the conjunction that is
preserved. `WriteFollowsApproval` is about the past; what makes it inductive is
`DecisionStands`: between a decision and the write, the decision of the current
cycle is the last one in the trail. `SignalInv` joins the three properties of
signals, since the status of a claimed signal rests on who claimed it.
`SignalFollowsOperation` is about steps: each transaction that ends an operation
settles its signal, but the one of a late decision.

*Root graph.* What a graph may still do is written in its **places**: the node
and state of the coroutine, of the saved checkpoint, and of every unsaved one.
A crash only removes places, a resume goes back to one, and a node adds one, so
an invariant over all places survives a crash by itself. `GraphInv` says for
any lag that a place past the investigation holds a binding of its own evidence
and plan, that a place in the execution belongs to an operation that has
started to execute, and that a decision about to be handed over finds its graph
interrupted. This gives `RootImplementsStore`: each call a node makes is a
transaction of the store with arguments of the store's types, hence every
theorem about the store is one about the root graph. It also gives
`RootDetailLoads`, because a rejected, aborted or expired operation has no
place left from which a write could come, and none in flight.

That the plan in the graph's state *is* the plan of the row needs more, for
nothing in the database ties the two together. `BoundInv` says it in two
strengths. What a place promises for any lag (`KeptOK`) is consent: an interrupted,
decided or executing place holds a binding that is the row's or was approved in
an earlier cycle. What it promises as long as it counts (`FreshOK`, `Counts`) is
the row itself: an interrupted place holds the row's binding, a place past the
decision carries an approval of its own binding, an executing place holds the
row's plan. The dangerous step is `mark_needs_reapproval`, which replaces the
row's binding: a place left in the old interrupt then holds the old one. With up
to two unsaved checkpoints there is no such place (`LeftOK`): two nodes have ended
since the interrupt was left, and the checkpoint of the first is saved. With three
the saved interrupt does not count any more, and a crash at that moment puts the
operation into `setBack`. From then on only consent is left, and consent is what
the properties still claim of such an operation: it waits with, and writes, only
what some approval covered, and the write still waits for the approval in force.
`mark_executing` recognises its own replay by the event's binding, which is
`EventOK`. `RootKeepsApprovedWrite` then shows for each transaction that it is
a proposal, a decision, a write, an end or no step of the promise; only the
write needs `BoundInv`, all others need the store's invariant and that no work
order exists before the execution.

*Scenario graphs.* The three graphs are one graph under three sets of names. Three
lemmas read this off the tables (`ReplenishmentTable`, `MaintenanceTable`,
`RecoveryTable`: each edge of a node leads to the role it leads to in the
replenishment graph, and the nodes that a rebuild looks up by name exist);
everything after them speaks of roles. `GraphInv` says what a place of each role
promises (`PlaceOK`), of the coroutine and of the saved checkpoint, and what the
row holds by its status (`RowOK`). The second is what a rebuild needs, for it has
nothing else to start from: `RebuiltPlace` shows that the node and state made
from the row keep the promise of their role, in the graphs where the recovery
does not give up (`rebuild_conflict`). Evidence is saved before it is recorded
and never deleted (`FactsSaved`), which is `ScenarioEvidenceSaved`.

`ScenarioRestartUsesDecision` needs to know where a decided operation can be:
`ResumeInv` says that without a failing dependency and after at most one crash an
operation in `resuming` has a coroutine at a place its decision leads to, or its
decision is still to be delivered, or the recovery has still to visit it; and that
what such a recovery finds is no checkpoint, the interrupt, or again such a place.
The steps of the nodes keep the first two; a crash leaves the third.

`BoundInv` is the one of the root graph, with a counter in place of the unsaved
checkpoints. What a crash brings back is the saved checkpoint, so the danger is
the saved interrupt of an old cycle under a coroutine that asks for a new
decision. `LeftOK` counts: a graph that has left a saved interrupt has at least
one unsaved checkpoint at `revalidate_evidence` and two at
`mark_needs_reapproval`; the checkpoint of that node is therefore saved when the
graph asks again, or three are not and the interrupt does not count (`AsksOnce`).

*Startup and signals.* `RootStartupSettlesSignals` rests on the order of the
lifespan: while the API does not serve only `expire_due` expires an operation
(`ExpiresInStartup`), which settles the signal with it, and `serve` repairs the
signals that late decisions left behind.

*Reliability graph.* The same idea with several processes: `Behind` says of
every process, checkpoint and unsaved checkpoint that its status is one the row
has reached, its decision the row's, and past the write that the write was
made. The row itself then moves along one path (`Advance`), which gives the
history and the refinement. A process between its read of the checkpoint and
`ainvoke` can no longer rely on where the thread is; `ChosenInv` says what it still
may: that there is a thread unless it starts one, and that it has seen the decision
it resumes with.

*Agent loop.* `StateInv` holds of the live and of the saved state; budgets are
counted in the state, spending on top of what the crashed runs have spent.
What bounds the turns is that a tool is authorized at most once (`Sound`): a
turn is paid for by the goal, by the final analysis or by a tool that can never
be asked for again.

*Evidence flow, scans, trace.* From the decision on only readings made after it
are looked at (`DecidedInv`). A scan has dealt with each target it has passed,
and the inbox has a key once (`ScanGood`, `InboxGood`). Events and the rows
still to be written agree with the operation (`TrueRows`), and what they say of
it can never change.

### Model-checked only

* Liveness: `ComesToRest`, `ScenarioComesToRest`, `DecisionTakesEffect`,
  `LoopTerminates`. Fairness is out of the prover's reach.
* `CaseIsWhole`, `OfferedActionStarts`: cases are chains followed by recursion,
  and what a recursive definition computes cannot be proved by induction here.
* `StrandedOnlyFarBehind`: an action property within the prover's reach, not
  proved yet.

## 5. Where code and documents differ

Three runs state what a document says, and TLC finds it violated by what the code
does:

1. **A decision can resume an earlier cycle** (`write_matches_decision`). The
   checkpoints of the resume, of `refresh_and_verify` and of
   `mark_needs_reapproval` are all unsaved at the crash, so the thread is still
   interrupted in cycle 1 while the operation waits in cycle 2. The decision of
   cycle 2 resumes the thread with the plan of cycle 1, and when the refreshed
   facts equal those of cycle 1 again the old plan is executed: the tool server
   stores the plan's hash with the payload and does not compare it with the
   approved binding. It takes a checkpointer three steps behind, which nothing in
   the code rules out (no durability mode is set); with two it cannot happen.
   `WorkOrderIsApproved`, `WaitingIsResumable`, `KeepsApprovedWrite` and their
   counterparts for the scenario graphs hold for any lag because they name the
   case (`setBack`) and say what holds even then.
2. **An ended run is opened again** (`ended_run_is_closed`). `finish_run`
   overwrites the status; of two overlapping recordings the slower one wins, with
   what it read before the decision. No crash is needed. With one the run stays
   open in another way: `recover_all` visits operations that are not terminal, so
   nobody completes a recording that was cut off behind the end. And neither a
   late decision nor `expire_due` records an expiry, which the property leaves out
   to show the others: the run of an expired operation stays `awaiting_human`
   always. The conformance audit (plans, 2026-07-23, line 23) says that every
   terminal status ends the run, the manual experiment guide (line 99) says it of
   an expired approval.
3. **A verification is recorded that was not made** (`verification_is_real`).
   After a re-approval the graph's state still holds the verification of the
   first cycle; `_capture` takes the cycle from the row. A rejection in cycle 2
   is recorded with a verification of cycle 2.

Others are the exact exceptions that properties of the passing runs name, or
actions of the modules; take the exception out of the property and TLC shows
the trace:

* *A late decision leaves its signal behind* (`SignalFollowsOperation`). A
  decision after the deadline expires the operation in `submit_bound_once`
  without the signal update that every other terminal transition makes. The
  signal reads `investigating` until the next startup (`StartupSettlesSignals`);
  the inbox design (line 103) says `attention_required`.
* *A crash can fail a waiting operation* (`recovery_action`). Between the commit of `mark_awaiting_approval` and the
  checkpoint of `persist_policy_result` the business tables are ahead of the
  graph. Recovery runs the node again, its first call, `record_evidence`, finds a
  status it does not know as its own, and the operation is marked failed. The
  approval request is withdrawn; no write is lost. The single-root design (lines
  288 and 290) says that idempotence and read-back close this gap.
* *A written order may never end* (`stranded` in `ScenarioGraph`). A crash that
  takes three checkpoints after `mark_verifying` makes recovery replay
  `mark_executing`, which refuses an operation in `verifying`. `recover_all`
  defers the exception, at every restart. The replenishment design (line 534)
  says the replay returns the work order.
* *A query can claim a signal* (`create`). Nothing forbids a `query` request with
  a `trigger_signal_id`, and its completion resolves the signal; the inbox design
  (line 104) says that a query binds no signal.
* *A second crash inside a rebuild* (`RestartUsesDecision`, `crashes <= 1`).
  `_rebuild_from_business_facts` saves a checkpoint, runs to the interrupt and
  then resumes the decision. A crash after the first call leaves a checkpoint
  from which the next restart only reaches the interrupt; the operation stays
  `resuming` until yet another restart.
* *A decision that is never applied* (`DecisionTakesEffect`, `stranded` in
  `ReliabilityGraph`). A decision may follow `mark_awaiting_approval` at once. If
  the process dies before the checkpoint after `prepare_approval`, every later
  `recover` replays that node, which refuses an operation in `resuming`; later in
  the graph it takes a crash with several checkpoints. The repository recognises
  a repeated call only while the row is still at the call's target; the restart
  design (line 201) says nodes may be replayed safely.
* *Two processes that begin one thread* (`FirstRunIsAlone`). Both find no
  checkpoint; the slower `ainvoke` passes an initial state and starts the thread
  over, even if it is interrupted and decided by then. `prepare_approval` is
  refused and the decision is stranded. Nothing is written twice or unapproved,
  which `HistoryIsOnePath` and `ReliabilityKeepsApprovedWrite` show. The restart
  design (line 7) claims a single worker only.
* *The execution before its verification* (`VerificationPrecedesExecution`,
  `~ overlapped`). `_capture` reads the row after its caller's graph has
  returned; an approver who is faster than the recording of `start` lets that
  recording find the completed operation. The technical guide (line 101) says
  the verification must come first.
* *Decisions that are not traced.* An approval that leads to a re-approval is
  not recorded, for the cycle has moved on when `_capture` reads it.
* *A hidden condition.* The card of an object shows the leaf of the newest
  condition's chain; an older condition of the object that is still open has no
  button while the newer one is resolved.

## 6. Limits

* In `RootGraph` and `ScenarioGraph` the approver acts when the graph has
  stopped in its interrupt. A decision that overtakes the interrupt's own
  checkpoint depends on LangGraph; `ReliabilityGraph` has it.
* A delayed MCP write is in `RootGraph` only; in `ScenarioGraph` a write that
  fails was made or not when the call returns.
* `WaitingIsResumable` is stated without failing dependencies: a checkpointer
  that fails while recovery runs leaves a waiting operation without an
  interrupted graph until the next startup.
* The clock stands still while `expire_due` works; its page size of 100 is not
  modelled.
* `MaxCycle` bounds re-approvals (the code has no bound); the verifier then
  takes another route.
* `AgentTrace` runs a graph in one step and its saved state is never behind.
* `SignalCases`: signals are listed in the order of insertion, which is that of
  `detected_at`; operations end without a work order or fail.
* The catalog may change between the refreshed reading and the write; the facts
  live in another system and no code could exclude it.
* Liveness, `ENABLED` and facts about recursive definitions are out of TLAPS's
  reach and stay with TLC.

### Not modelled

* Knowledge base: ingestion and vector search, a read-only tool to the agent
  whose ranking is floating-point arithmetic in the database.
* Model gateways: transport and parsing; any turn and any verdict is possible.
* The classification of transport errors in `mcp_gateway`, spans of
  `traced_tool_gateway`, citations: one failure of the call, or nothing, here.
* Event streams, authentication, rate limits and request validation of the API.
* Web console, evaluation, observability, scripts, process wiring.

## 7. Plan

The modules above are the modelling plan of the project, done, and the theorems
of section 4 are its plan of proofs. Every invariant and action property of the
runs is a theorem, those of `SignalCases` and `StrandedOnlyFarBehind` excepted;
the latter is the next to prove. What stays
with TLC is listed under "Model-checked only", with the reason. When the code
changes, the module named in `PROJECT.json`'s map for the changed lines is the
one to revisit, then its run, then its proofs.
