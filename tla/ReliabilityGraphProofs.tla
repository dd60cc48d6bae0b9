----------------------- MODULE ReliabilityGraphProofs -----------------------
(***************************************************************************)
(* Theorems about ReliabilityGraph, for any number of processes, crashes   *)
(* and failing calls and any lag of the checkpoints.  The argument has two *)
(* halves: a step moves the row along its one path (Advance), and what a   *)
(* run or a checkpoint remembers stays behind a row that only advances.    *)
(***************************************************************************)
EXTENDS ReliabilityGraph, SequenceTheorems, TLAPS

-----------------------------------------------------------------------------
(* The inductive invariant *)

Unsaved == [by : Processes \cup {NoValue}, node : Nodes, state : GraphStates]

\* What the status says about the other columns of the row.
RowInv ==
    /\ status = "received" => approval_cycle = 0
    /\ status # "received" => approval_cycle = 1
    /\ approvals[1] = NoValue <=> status \in {"received", "awaiting_approval"}
    /\ status \in {"executing", "verifying", "completed"} => approvals[1] = "approved"
    /\ status = "rejected" => approvals[1] = "rejected"
    /\ work_order # NoValue => status \in {"executing", "verifying", "completed"}
    /\ status \in {"verifying", "completed"} => work_order = Payload

\* How far the row has come, and the event at each place of its path.
Position ==
    CASE status = "received" -> 0
      [] status = "awaiting_approval" -> 1
      [] status = "resuming" -> 2
      [] status = "rejected" -> 3
      [] status = "executing" /\ work_order = NoValue -> 3
      [] status = "executing" /\ work_order # NoValue -> 4
      [] status = "verifying" -> 5
      [] status = "completed" -> 6

EventAt(d, i) ==
    CASE i = 1 -> "approval_requested"
      [] i = 2 -> "approval_recorded"
      [] i = 3 -> IF d = "rejected" THEN "operation_rejected" ELSE "execution_started"
      [] i = 4 -> "work_order_created"
      [] i = 5 -> "verification_started"
      [] i = 6 -> "operation_completed"

TrailInv ==
    /\ Len(audit) = Position
    /\ \A i \in 1..Len(audit) : audit[i].type = EventAt(approvals[1], i)

\* A point of the graph is behind a row with status st, decision d and work
\* order w.  Beyond CheckpointIsBehindRow: the branch that the point is on was
\* decided, and past the write the point knows the work order.
Behind(c, st, d, w) ==
    /\ st \in Reached[c.node]
    /\ c.state.approval \in {NoValue, d}
    /\ c.state.work_order \in {NoValue, w}
    /\ c.node \in {"mark_executing", "execute_work_order", "mark_verifying",
                   "verify_work_order", "mark_completed"} => c.state.approval = "approved"
    /\ c.node = "mark_rejected" => c.state.approval = "rejected"
    /\ c.node \in {"mark_verifying", "verify_work_order", "mark_completed"} =>
           c.state.work_order = Payload

PointsInv ==
    /\ \A p \in Processes : run[p] # NoValue => Behind(run[p], status, approvals[1], work_order)
    /\ ckpt # NoValue => Behind(ckpt, status, approvals[1], work_order)
    /\ \A i \in DOMAIN unsaved : Behind(unsaved[i], status, approvals[1], work_order)
    /\ \A p \in Processes : view[p] # NoValue => view[p].decision \in {NoValue, approvals[1]}

\* What aget_state chose rests on a view and, unless it starts the graph over,
\* on a checkpoint: neither is taken back before ainvoke.
ChosenInv == \A p \in Processes : chosen[p] # NoValue =>
    /\ view[p] # NoValue
    /\ chosen[p] # "rebuild_from_business_facts" => ckpt # NoValue
    /\ chosen[p] = "resume_decision" => view[p].decision # NoValue

RInv == ReliabilityTypeOK /\ RowInv /\ TrailInv /\ PointsInv /\ ChosenInv

-----------------------------------------------------------------------------
(* The row only advances *)

\* The moves of the row.  Each is one transaction of the graph or a decision.
Advance ==
    \/ UNCHANGED rowVars
    \/ status = "received" /\ commit("awaiting_approval", "approval_requested", NoValue)
    \/ /\ status = "awaiting_approval"
       /\ \E d \in Decisions :
            /\ approvals' = [approvals EXCEPT ![1] = d]
            /\ audit' = Append(audit, [type |-> "approval_recorded", ref |-> d])
       /\ status' = "resuming"
       /\ UNCHANGED <<approval_cycle, work_order>>
    \/ /\ status = "resuming" /\ approvals[1] = "approved"
       /\ commit("executing", "execution_started", "approved")
    \/ /\ status = "resuming" /\ approvals[1] = "rejected"
       /\ commit("rejected", "operation_rejected", "rejected")
    \/ status = "executing" /\ work_order = NoValue /\ create
    \/ /\ status = "executing" /\ work_order = Payload
       /\ commit("verifying", "verification_started", Payload)
    \/ status = "verifying" /\ commit("completed", "operation_completed", Payload)

\* What appending an event does to the trail.
LEMMA AppendedEvent ==
    ASSUME audit \in Seq(Events), NEW e \in Events, audit' = Append(audit, e)
    PROVE  /\ audit' \in Seq(Events)
           /\ Len(audit) \in Nat
           /\ Len(audit') = Len(audit) + 1
           /\ audit'[Len(audit) + 1] = e
           /\ \A i \in 1..Len(audit) : audit'[i] = audit[i]
OBVIOUS

\* The columns and the decision of a typed row.
LEMMA RowColumns ==
    ASSUME ReliabilityTypeOK
    PROVE  /\ approvals[1] \in Decisions \cup {NoValue}
           /\ DOMAIN approvals = {1}
           /\ NoValue \notin Decisions /\ Payload # NoValue
           /\ RowInv => current_decision = approvals[1]
BY ReliabilityAssumption, AbsenceAssumption DEF ReliabilityTypeOK, RowInv, current_decision

\* An advance leaves a typed row.
LEMMA AdvanceType ==
    ASSUME ReliabilityTypeOK, Advance
    PROVE  /\ status' \in Statuses /\ approval_cycle' \in 0..1
           /\ approvals' \in [{1} -> Decisions \cup {NoValue}]
           /\ work_order' \in {Payload, NoValue}
           /\ audit' \in Seq(Events)
<1> USE DEF Statuses, Terminal
<1>1. /\ [type |-> "approval_requested", ref |-> NoValue] \in Events
      /\ \A d \in Decisions : [type |-> "approval_recorded", ref |-> d] \in Events
      /\ [type |-> "execution_started", ref |-> "approved"] \in Events
      /\ [type |-> "operation_rejected", ref |-> "rejected"] \in Events
      /\ [type |-> "work_order_created", ref |-> Payload] \in Events
      /\ [type |-> "verification_started", ref |-> Payload] \in Events
      /\ [type |-> "operation_completed", ref |-> Payload] \in Events
  BY DEF Events, Decisions
<1>2. audit' \in Seq(Events)
  BY <1>1, AppendedEvent DEF Advance, ReliabilityTypeOK, rowVars, commit, create
<1>3. status' \in Statuses /\ approval_cycle' \in 0..1 /\ work_order' \in {Payload, NoValue}
  BY DEF Advance, ReliabilityTypeOK, rowVars, commit, create
<1>4. approvals' \in [{1} -> Decisions \cup {NoValue}]
  BY DEF Advance, ReliabilityTypeOK, rowVars, commit, create
<1> QED
  BY <1>2, <1>3, <1>4

\* An advance keeps the columns in step with the status.
LEMMA AdvanceRow ==
    ASSUME ReliabilityTypeOK, RowInv, Advance
    PROVE  RowInv'
<1> USE RowColumns DEF Decisions
<1>1. CASE UNCHANGED rowVars
  BY <1>1 DEF RowInv, rowVars
<1>2. CASE status = "received" /\ commit("awaiting_approval", "approval_requested", NoValue)
  BY <1>2 DEF RowInv, commit
<1>3. CASE /\ status = "awaiting_approval"
           /\ \E d \in Decisions :
                /\ approvals' = [approvals EXCEPT ![1] = d]
                /\ audit' = Append(audit, [type |-> "approval_recorded", ref |-> d])
           /\ status' = "resuming"
           /\ UNCHANGED <<approval_cycle, work_order>>
  <2>1. approvals'[1] \in Decisions
    BY <1>3
  <2> QED
    BY <1>3, <2>1 DEF RowInv
<1>4. CASE \/ /\ status = "resuming" /\ approvals[1] = "approved"
              /\ commit("executing", "execution_started", "approved")
           \/ /\ status = "resuming" /\ approvals[1] = "rejected"
              /\ commit("rejected", "operation_rejected", "rejected")
  BY <1>4 DEF RowInv, commit
<1>5. CASE status = "executing" /\ work_order = NoValue /\ create
  BY <1>5 DEF RowInv, create
<1>6. CASE \/ /\ status = "executing" /\ work_order = Payload
              /\ commit("verifying", "verification_started", Payload)
           \/ status = "verifying" /\ commit("completed", "operation_completed", Payload)
  BY <1>6 DEF RowInv, commit
<1> QED
  BY <1>1, <1>2, <1>3, <1>4, <1>5, <1>6 DEF Advance

\* An advance adds the event of the place it reaches.
LEMMA EventAdded ==
    ASSUME ReliabilityTypeOK, TrailInv, NEW e \in Events, audit' = Append(audit, e),
           Position' = Position + 1,
           \A i \in 1..Position : EventAt(approvals'[1], i) = EventAt(approvals[1], i),
           e.type = EventAt(approvals'[1], Position + 1)
    PROVE  TrailInv'
<1>1. /\ Len(audit) \in Nat
      /\ Len(audit') = Len(audit) + 1
      /\ audit'[Len(audit) + 1] = e
      /\ \A i \in 1..Len(audit) : audit'[i] = audit[i]
  BY AppendedEvent DEF ReliabilityTypeOK
<1>2. Position = Len(audit) /\ \A i \in 1..Len(audit) : audit[i].type = EventAt(approvals[1], i)
  BY DEF TrailInv
<1>3. PICK n : n = Len(audit)
  OBVIOUS
<1>4. \A i \in 1..(n + 1) : audit'[i].type = EventAt(approvals'[1], i)
  <2> SUFFICES ASSUME NEW i \in 1..(n + 1)
               PROVE  audit'[i].type = EventAt(approvals'[1], i)
    OBVIOUS
  <2>1. CASE i = n + 1
    BY <1>1, <1>2, <1>3, <2>1
  <2>2. CASE i \in 1..n
    BY <1>1, <1>2, <1>3, <2>2
  <2> QED
    BY <1>1, <1>3, <2>1, <2>2
<1> QED
  BY <1>1, <1>2, <1>3, <1>4 DEF TrailInv

\* An advance keeps the trail on the path.
LEMMA AdvanceTrail ==
    ASSUME ReliabilityTypeOK, RowInv, TrailInv, Advance
    PROVE  TrailInv'
<1> USE RowColumns
<1>1. CASE UNCHANGED rowVars
  BY <1>1 DEF TrailInv, Position, rowVars
<1>2. CASE status = "received" /\ commit("awaiting_approval", "approval_requested", NoValue)
  <2>1. [type |-> "approval_requested", ref |-> NoValue] \in Events
    BY DEF Events
  <2>2. Position = 0 /\ Position' = 1 /\ approvals' = approvals
    BY <1>2 DEF Position, commit
  <2> QED
    BY <1>2, <2>1, <2>2, EventAdded DEF commit, EventAt
<1>3. CASE /\ status = "awaiting_approval"
           /\ \E d \in Decisions :
                /\ approvals' = [approvals EXCEPT ![1] = d]
                /\ audit' = Append(audit, [type |-> "approval_recorded", ref |-> d])
           /\ status' = "resuming"
           /\ UNCHANGED <<approval_cycle, work_order>>
  <2>1. PICK d \in Decisions : audit' = Append(audit, [type |-> "approval_recorded", ref |-> d])
    BY <1>3
  <2>2. [type |-> "approval_recorded", ref |-> d] \in Events
    BY DEF Events
  <2>3. Position = 1 /\ Position' = 2
    BY <1>3 DEF Position
  <2>4. \A i \in 1..1 : EventAt(approvals'[1], i) = EventAt(approvals[1], i)
    BY DEF EventAt
  <2> QED
    BY <2>1, <2>2, <2>3, <2>4, EventAdded DEF EventAt
<1>4. CASE /\ status = "resuming" /\ approvals[1] = "approved"
           /\ commit("executing", "execution_started", "approved")
  <2>1. [type |-> "execution_started", ref |-> "approved"] \in Events
    BY DEF Events, Decisions
  <2>2. Position = 2 /\ Position' = 3 /\ approvals' = approvals
    BY <1>4 DEF Position, commit, RowInv
  <2> QED
    BY <1>4, <2>1, <2>2, EventAdded DEF commit, EventAt
<1>5. CASE /\ status = "resuming" /\ approvals[1] = "rejected"
           /\ commit("rejected", "operation_rejected", "rejected")
  <2>1. [type |-> "operation_rejected", ref |-> "rejected"] \in Events
    BY DEF Events, Decisions
  <2>2. Position = 2 /\ Position' = 3 /\ approvals' = approvals
    BY <1>5 DEF Position, commit
  <2> QED
    BY <1>5, <2>1, <2>2, EventAdded DEF commit, EventAt
<1>6. CASE status = "executing" /\ work_order = NoValue /\ create
  <2>1. [type |-> "work_order_created", ref |-> Payload] \in Events
    BY DEF Events
  <2>2. Position = 3 /\ Position' = 4 /\ approvals' = approvals
    BY <1>6 DEF Position, create
  <2> QED
    BY <1>6, <2>1, <2>2, EventAdded DEF create, EventAt
<1>7. CASE /\ status = "executing" /\ work_order = Payload
           /\ commit("verifying", "verification_started", Payload)
  <2>1. [type |-> "verification_started", ref |-> Payload] \in Events
    BY DEF Events
  <2>2. Position = 4 /\ Position' = 5 /\ approvals' = approvals
    BY <1>7 DEF Position, commit
  <2> QED
    BY <1>7, <2>1, <2>2, EventAdded DEF commit, EventAt
<1>8. CASE status = "verifying" /\ commit("completed", "operation_completed", Payload)
  <2>1. [type |-> "operation_completed", ref |-> Payload] \in Events
    BY DEF Events
  <2>2. Position = 5 /\ Position' = 6 /\ approvals' = approvals
    BY <1>8 DEF Position, commit
  <2> QED
    BY <1>8, <2>1, <2>2, EventAdded DEF commit, EventAt
<1> QED
  BY <1>1, <1>2, <1>3, <1>4, <1>5, <1>6, <1>7, <1>8 DEF Advance

-----------------------------------------------------------------------------
(* Points stay behind the row *)

\* The row before each node, as a table.
LEMMA ReachedTable ==
    /\ Reached["prepare_approval"] = Statuses
    /\ Reached["request_approval"] = Statuses \ {"received"}
    /\ Reached["interrupted"] = Statuses \ {"received"}
    /\ Reached["mark_executing"] = Statuses \ {"received", "awaiting_approval"}
    /\ Reached["mark_rejected"] = Statuses \ {"received", "awaiting_approval"}
    /\ Reached["execute_work_order"] = {"executing", "verifying", "completed"}
    /\ Reached["mark_verifying"] = {"executing", "verifying", "completed"}
    /\ Reached["verify_work_order"] = {"verifying", "completed"}
    /\ Reached["mark_completed"] = {"verifying", "completed"}
    /\ Reached["END"] = Terminal
BY DEF Reached, Nodes

\* A row that advances leaves no point ahead of it.
LEMMA PointsKept ==
    ASSUME ReliabilityTypeOK, RowInv, Advance,
           NEW c, c.node \in Nodes \cup {"interrupted"},
           Behind(c, status, approvals[1], work_order)
    PROVE  Behind(c, status', approvals'[1], work_order')
<1>1. status' \in Reached[c.node]
  <2>1. status \in Reached[c.node] /\ status \in Statuses
    BY DEF Behind, ReliabilityTypeOK
  <2>2. \/ status' = status
        \/ status = "received" /\ status' = "awaiting_approval"
        \/ status = "awaiting_approval" /\ status' = "resuming"
        \/ status = "resuming" /\ status' \in {"executing", "rejected"}
        \/ status = "executing" /\ status' = "verifying"
        \/ status = "verifying" /\ status' = "completed"
    BY DEF Advance, rowVars, commit, create
  <2> QED
    BY <2>1, <2>2, ReachedTable DEF Nodes, Statuses, Terminal
<1>2. approvals'[1] = approvals[1] \/ approvals[1] = NoValue
  BY RowColumns DEF Advance, rowVars, commit, create, RowInv
<1>3. work_order' = work_order \/ work_order = NoValue
  BY DEF Advance, rowVars, commit, create
<1> QED
  BY <1>1, <1>2, <1>3 DEF Behind

\* Behind reads the node and the state of a point only.
LEMMA BehindFields ==
    ASSUME NEW c, NEW e, c.node = e.node, c.state = e.state, NEW st, NEW d, NEW w,
           Behind(c, st, d, w)
    PROVE  Behind(e, st, d, w)
BY DEF Behind

\* The points of a typed state have nodes.
LEMMA PointNodes ==
    ASSUME ReliabilityTypeOK
    PROVE  /\ \A p \in Processes : run[p] # NoValue =>
                 run[p] \in Runs /\ run[p].node \in Nodes /\ run[p].state \in GraphStates
           /\ ckpt # NoValue =>
                 ckpt \in Checkpoints /\ ckpt.node \in Nodes \cup {"interrupted"}
                 /\ ckpt.state \in GraphStates
           /\ \A i \in DOMAIN unsaved :
                 unsaved[i] \in Unsaved /\ unsaved[i].node \in Nodes
                 /\ unsaved[i].state \in GraphStates
           /\ DOMAIN unsaved = 1..Len(unsaved) /\ Len(unsaved) \in Nat
<1>1. \A p \in Processes : run[p] # NoValue =>
           run[p] \in Runs /\ run[p].node \in Nodes /\ run[p].state \in GraphStates
  BY DEF ReliabilityTypeOK, Runs
<1>2. ckpt # NoValue => ckpt \in Checkpoints /\ ckpt.node \in Nodes \cup {"interrupted"}
                        /\ ckpt.state \in GraphStates
  BY DEF ReliabilityTypeOK, Checkpoints
<1>3. unsaved \in Seq(Unsaved)
  BY DEF ReliabilityTypeOK, Unsaved
<1>4. \A i \in DOMAIN unsaved : unsaved[i] \in Unsaved
  BY <1>3
<1>5. \A u \in Unsaved : u.node \in Nodes /\ u.state \in GraphStates
  BY DEF Unsaved
<1> QED
  BY <1>1, <1>2, <1>3, <1>4, <1>5

\* The points after a step are old ones, or new ones that are behind the new row.
LEMMA PointsStep ==
    ASSUME ReliabilityTypeOK, RowInv, PointsInv, Advance,
           \A q \in Processes : \/ run'[q] \in {NoValue, run[q]}
                                \/ Behind(run'[q], status', approvals'[1], work_order'),
           ckpt' = ckpt \/ Behind(ckpt', status', approvals'[1], work_order'),
           \A i \in DOMAIN unsaved' :
               \/ \E j \in DOMAIN unsaved : /\ unsaved'[i].node = unsaved[j].node
                                            /\ unsaved'[i].state = unsaved[j].state
               \/ Behind(unsaved'[i], status', approvals'[1], work_order'),
           \A q \in Processes : \/ view'[q] \in {NoValue, view[q]}
                                \/ view'[q].decision \in {NoValue, approvals'[1]}
    PROVE  PointsInv'
<1>1. \A q \in Processes : run'[q] # NoValue =>
          Behind(run'[q], status', approvals'[1], work_order')
  BY PointsKept, PointNodes DEF PointsInv
<1>2. ckpt' # NoValue => Behind(ckpt', status', approvals'[1], work_order')
  BY PointsKept, PointNodes DEF PointsInv
<1>3. \A i \in DOMAIN unsaved' : Behind(unsaved'[i], status', approvals'[1], work_order')
  <2>1. \A j \in DOMAIN unsaved : Behind(unsaved[j], status', approvals'[1], work_order')
    BY PointsKept, PointNodes DEF PointsInv
  <2> QED
    BY <2>1, BehindFields
<1>4. \A q \in Processes : view'[q] # NoValue => view'[q].decision \in {NoValue, approvals'[1]}
  <2>1. approvals'[1] = approvals[1] \/ approvals[1] = NoValue
    BY RowColumns DEF Advance, rowVars, commit, create, RowInv
  <2> QED
    BY <2>1 DEF PointsInv
<1> QED
  BY <1>1, <1>2, <1>3, <1>4 DEF PointsInv

\* A process that goes on creates one point, at its new node.
LEMMA GoStep ==
    ASSUME ReliabilityTypeOK, RowInv, PointsInv, Advance,
           NEW p \in Processes, NEW node \in Nodes, NEW state \in GraphStates,
           go(p, node, state), ckpt' = ckpt,
           view' = view \/ view' = [view EXCEPT ![p] = NoValue],
           Behind([node |-> node, state |-> state], status', approvals'[1], work_order')
    PROVE  /\ PointsInv'
           /\ run' \in [Processes -> Runs \cup {NoValue}]
           /\ unsaved' \in Seq(Unsaved)
<1>1. unsaved \in Seq(Unsaved) /\ DOMAIN unsaved = 1..Len(unsaved) /\ Len(unsaved) \in Nat
  BY DEF ReliabilityTypeOK, Unsaved
<1>2. PICK u : u = [by |-> p, node |-> node, state |-> state]
  OBVIOUS
<1>3. u \in Unsaved /\ u.node = node /\ u.state = state
  BY <1>2 DEF Unsaved
<1>4. unsaved' = Append(unsaved, u)
  BY <1>2 DEF go
<1>5. /\ unsaved' \in Seq(Unsaved)
      /\ DOMAIN unsaved' = 1..(Len(unsaved) + 1)
      /\ unsaved'[Len(unsaved) + 1] = u
      /\ \A i \in 1..Len(unsaved) : unsaved'[i] = unsaved[i]
  BY <1>1, <1>3, <1>4
<1>6. PICK c : c = [node |-> node, state |-> state]
  OBVIOUS
<1>7. c \in Runs /\ c.node = node /\ c.state = state
  BY <1>6 DEF Runs
<1>8. /\ Behind(c, status', approvals'[1], work_order')
      /\ Behind(u, status', approvals'[1], work_order')
  BY <1>3, <1>6, <1>7, BehindFields
<1>9. run' = [run EXCEPT ![p] = c]
  BY <1>6 DEF go
<1>10. run' \in [Processes -> Runs \cup {NoValue}]
  BY <1>7, <1>9 DEF ReliabilityTypeOK
<1>11. \A q \in Processes : \/ run'[q] \in {NoValue, run[q]}
                            \/ Behind(run'[q], status', approvals'[1], work_order')
  BY <1>8, <1>9 DEF ReliabilityTypeOK
<1>12. \A i \in DOMAIN unsaved' :
          \/ \E j \in DOMAIN unsaved : /\ unsaved'[i].node = unsaved[j].node
                                       /\ unsaved'[i].state = unsaved[j].state
          \/ Behind(unsaved'[i], status', approvals'[1], work_order')
  <2> SUFFICES ASSUME NEW i \in 1..(Len(unsaved) + 1)
               PROVE  \/ i \in DOMAIN unsaved /\ unsaved'[i] = unsaved[i]
                      \/ Behind(unsaved'[i], status', approvals'[1], work_order')
    BY <1>5
  <2>1. i = Len(unsaved) + 1 \/ i \in 1..Len(unsaved)
    BY <1>1
  <2> QED
    BY <2>1, <1>1, <1>5, <1>8
<1>13. \A q \in Processes : view'[q] \in {NoValue, view[q]}
  BY DEF ReliabilityTypeOK
<1> QED
  BY <1>5, <1>10, <1>11, <1>12, <1>13, PointsStep

\* A process that stops, or that keeps its place, creates none.
LEMMA StopStep ==
    ASSUME ReliabilityTypeOK, RowInv, PointsInv, Advance,
           NEW p \in Processes, run' = run \/ run' = [run EXCEPT ![p] = NoValue],
           UNCHANGED <<ckpt, unsaved>>,
           view' = view \/ view' = [view EXCEPT ![p] = NoValue]
    PROVE  /\ PointsInv'
           /\ run' \in [Processes -> Runs \cup {NoValue}]
           /\ unsaved' \in Seq(Unsaved)
<1>1. /\ run' \in [Processes -> Runs \cup {NoValue}]
      /\ \A q \in Processes : run'[q] \in {NoValue, run[q]} /\ view'[q] \in {NoValue, view[q]}
  BY DEF ReliabilityTypeOK
<1>2. unsaved' \in Seq(Unsaved)
  BY DEF ReliabilityTypeOK, Unsaved
<1>3. \A i \in DOMAIN unsaved' :
          \E j \in DOMAIN unsaved : /\ unsaved'[i].node = unsaved[j].node
                                    /\ unsaved'[i].state = unsaved[j].state
  OBVIOUS
<1> QED
  BY <1>1, <1>2, <1>3, PointsStep

-----------------------------------------------------------------------------
(* Every step keeps the invariant *)

\* What a step has to show: the row advances and the points stay behind it.
StepKeeps ==
    /\ Advance
    /\ PointsInv'
    /\ run' \in [Processes -> Runs \cup {NoValue}]
    /\ unsaved' \in Seq(Unsaved)

\* A process at a node, and what its point says of the row.
LEMMA AtNode ==
    ASSUME ReliabilityTypeOK, RowInv, PointsInv, NEW p \in Processes, NEW node, at(p, node)
    PROVE  /\ run[p].node = node /\ node \in Nodes
           /\ run[p].state \in GraphStates
           /\ run[p].state.approval \in Decisions \cup {NoValue}
           /\ run[p].state.work_order \in {Payload, NoValue}
           /\ Behind(run[p], status, approvals[1], work_order)
           /\ Advance => Behind(run[p], status', approvals'[1], work_order')
<1>1. /\ run[p].node = node /\ node \in Nodes
      /\ run[p].state \in GraphStates
      /\ Behind(run[p], status, approvals[1], work_order)
  BY PointNodes DEF at, PointsInv
<1>2. Advance => Behind(run[p], status', approvals'[1], work_order')
  BY <1>1, PointsKept
<1> QED
  BY <1>1, <1>2 DEF GraphStates

\* A node whose call has answered hands its state on to the next node.
LEMMA HandOn ==
    ASSUME ReliabilityTypeOK, RowInv, PointsInv, Advance, NEW p \in Processes,
           NEW node, at(p, node), NEW next \in Nodes, NEW state \in GraphStates,
           \/ raise(p)
           \/ /\ go(p, next, state)
              /\ Behind([node |-> next, state |-> state], status', approvals'[1], work_order'),
           UNCHANGED <<ckpt, view>>
    PROVE  StepKeeps
<1>1. CASE raise(p)
  <2>1. run' = [run EXCEPT ![p] = NoValue] /\ UNCHANGED unsaved
    BY <1>1 DEF raise
  <2> QED
    BY <2>1, StopStep DEF StepKeeps
<1>2. CASE /\ go(p, next, state)
           /\ Behind([node |-> next, state |-> state], status', approvals'[1], work_order')
  BY <1>2, GoStep DEF StepKeeps
<1> QED
  BY <1>1, <1>2

\* The first transition, made or found made.
LEMMA Step_prepare_approval ==
    ASSUME ReliabilityTypeOK, RowInv, PointsInv, NEW p \in Processes, prepare_approval(p)
    PROVE  StepKeeps
<1>1. at(p, "prepare_approval")
  BY DEF prepare_approval
<1>2. PICK state : state = run[p].state
  OBVIOUS
<1>3. state \in GraphStates
  BY <1>1, <1>2, AtNode DEF GraphStates
<1>4. Behind(run[p], status, approvals[1], work_order) /\ run[p].node = "prepare_approval"
  BY <1>1, AtNode
<1>5. Advance
  BY <1>4, RowColumns, ReachedTable DEF prepare_approval, Call, Advance, rowVars, Behind, RowInv
<1>6. raise(p) \/ (go(p, "request_approval", state) /\ status' = "awaiting_approval")
  BY <1>2, <1>4 DEF prepare_approval, Call, commit, create, replayed, rowVars, Behind
<1>7. status' = "awaiting_approval" => Behind([node |-> "request_approval", state |-> state], status', approvals'[1], work_order')
  <2>1. Behind(run[p], status', approvals'[1], work_order')
    BY <1>1, <1>5, AtNode
  <2>2. PICK c : c = [node |-> "request_approval", state |-> state]
    OBVIOUS
  <2>3. c.node = "request_approval" /\ c.state = state
    BY <2>2
  <2>4. status' = "awaiting_approval" => Behind(c, status', approvals'[1], work_order')
    BY <1>1, <1>2, <1>3, <1>4, <2>1, <2>3, ReachedTable, RowColumns, AdvanceType, AdvanceRow, <1>5
       DEF Behind, Statuses, Terminal, GraphStates, RowInv
  <2> QED
    BY <2>2, <2>4
<1>8. UNCHANGED <<ckpt, view>>
  BY DEF prepare_approval, Call
<1> QED
  BY <1>1, <1>3, <1>5, <1>6, <1>7, <1>8, HandOn DEF Nodes

\* The transition of the approved branch.
LEMMA Step_mark_executing ==
    ASSUME ReliabilityTypeOK, RowInv, PointsInv, NEW p \in Processes, mark_executing(p)
    PROVE  StepKeeps
<1>1. at(p, "mark_executing")
  BY DEF mark_executing
<1>2. PICK state : state = run[p].state
  OBVIOUS
<1>3. state \in GraphStates
  BY <1>1, <1>2, AtNode DEF GraphStates
<1>4. Behind(run[p], status, approvals[1], work_order) /\ run[p].node = "mark_executing"
  BY <1>1, AtNode
<1>5. Advance
  <2>1. run[p].state.approval = "approved" /\ approvals[1] = "approved"
    BY <1>4, RowColumns, AbsenceAssumption DEF Behind, Decisions
  <2>2. \/ UNCHANGED rowVars
        \/ status = "resuming" /\ commit("executing", "execution_started", "approved")
    BY <2>1 DEF mark_executing, Call, commit
  <2> QED
    BY <2>1, <2>2 DEF Advance
<1>6. raise(p) \/ (go(p, "execute_work_order", state) /\ status' = "executing")
  BY <1>2, <1>4 DEF mark_executing, Call, commit, create, replayed, rowVars, Behind
<1>7. status' = "executing" => Behind([node |-> "execute_work_order", state |-> state], status', approvals'[1], work_order')
  <2>1. Behind(run[p], status', approvals'[1], work_order')
    BY <1>1, <1>5, AtNode
  <2>2. PICK c : c = [node |-> "execute_work_order", state |-> state]
    OBVIOUS
  <2>3. c.node = "execute_work_order" /\ c.state = state
    BY <2>2
  <2>4. status' = "executing" => Behind(c, status', approvals'[1], work_order')
    BY <1>1, <1>2, <1>3, <1>4, <2>1, <2>3, ReachedTable, RowColumns, AdvanceType, AdvanceRow, <1>5
       DEF Behind, Statuses, Terminal, GraphStates, RowInv
  <2> QED
    BY <2>2, <2>4
<1>8. UNCHANGED <<ckpt, view>>
  BY DEF mark_executing, Call
<1> QED
  BY <1>1, <1>3, <1>5, <1>6, <1>7, <1>8, HandOn DEF Nodes

\* The write: it happens at most once, while the operation executes.
LEMMA Step_execute_work_order ==
    ASSUME ReliabilityTypeOK, RowInv, PointsInv, NEW p \in Processes, execute_work_order(p)
    PROVE  StepKeeps
<1>1. at(p, "execute_work_order")
  BY DEF execute_work_order
<1>2. PICK state : state = [run[p].state EXCEPT !.work_order = Payload]
  OBVIOUS
<1>3. state \in GraphStates
  BY <1>1, <1>2, AtNode DEF GraphStates
<1>4. Behind(run[p], status, approvals[1], work_order) /\ run[p].node = "execute_work_order"
  BY <1>1, AtNode
<1>5. Advance
  BY <1>4, RowColumns, ReachedTable DEF execute_work_order, Call, Advance, rowVars, Behind, RowInv, write_authorized
<1>6. raise(p) \/ (go(p, "mark_verifying", state) /\ work_order' = Payload)
  BY <1>2, <1>4 DEF execute_work_order, Call, commit, create, replayed, rowVars, Behind
<1>7. work_order' = Payload => Behind([node |-> "mark_verifying", state |-> state], status', approvals'[1], work_order')
  <2>1. Behind(run[p], status', approvals'[1], work_order')
    BY <1>1, <1>5, AtNode
  <2>2. PICK c : c = [node |-> "mark_verifying", state |-> state]
    OBVIOUS
  <2>3. c.node = "mark_verifying" /\ c.state = state
    BY <2>2
  <2>4. work_order' = Payload => Behind(c, status', approvals'[1], work_order')
    BY <1>1, <1>2, <1>3, <1>4, <2>1, <2>3, ReachedTable, RowColumns, AdvanceType, AdvanceRow, <1>5
       DEF Behind, Statuses, Terminal, GraphStates, RowInv
  <2> QED
    BY <2>2, <2>4
<1>8. UNCHANGED <<ckpt, view>>
  BY DEF execute_work_order, Call
<1> QED
  BY <1>1, <1>3, <1>5, <1>6, <1>7, <1>8, HandOn DEF Nodes

\* The transition after the write.
LEMMA Step_mark_verifying ==
    ASSUME ReliabilityTypeOK, RowInv, PointsInv, NEW p \in Processes, mark_verifying(p)
    PROVE  StepKeeps
<1>1. at(p, "mark_verifying")
  BY DEF mark_verifying
<1>2. PICK state : state = run[p].state
  OBVIOUS
<1>3. state \in GraphStates
  BY <1>1, <1>2, AtNode DEF GraphStates
<1>4. Behind(run[p], status, approvals[1], work_order) /\ run[p].node = "mark_verifying"
  BY <1>1, AtNode
<1>5. Advance
  BY <1>4, RowColumns, ReachedTable DEF mark_verifying, Call, Advance, rowVars, Behind, RowInv
<1>6. raise(p) \/ (go(p, "verify_work_order", state) /\ status' = "verifying")
  BY <1>2, <1>4 DEF mark_verifying, Call, commit, create, replayed, rowVars, Behind
<1>7. status' = "verifying" => Behind([node |-> "verify_work_order", state |-> state], status', approvals'[1], work_order')
  <2>1. Behind(run[p], status', approvals'[1], work_order')
    BY <1>1, <1>5, AtNode
  <2>2. PICK c : c = [node |-> "verify_work_order", state |-> state]
    OBVIOUS
  <2>3. c.node = "verify_work_order" /\ c.state = state
    BY <2>2
  <2>4. status' = "verifying" => Behind(c, status', approvals'[1], work_order')
    BY <1>1, <1>2, <1>3, <1>4, <2>1, <2>3, ReachedTable, RowColumns, AdvanceType, AdvanceRow, <1>5
       DEF Behind, Statuses, Terminal, GraphStates, RowInv
  <2> QED
    BY <2>2, <2>4
<1>8. UNCHANGED <<ckpt, view>>
  BY DEF mark_verifying, Call
<1> QED
  BY <1>1, <1>3, <1>5, <1>6, <1>7, <1>8, HandOn DEF Nodes

\* The read of the write.
LEMMA Step_verify_work_order ==
    ASSUME ReliabilityTypeOK, RowInv, PointsInv, NEW p \in Processes, verify_work_order(p)
    PROVE  StepKeeps
<1>1. at(p, "verify_work_order")
  BY DEF verify_work_order
<1>2. PICK state : state = run[p].state
  OBVIOUS
<1>3. state \in GraphStates
  BY <1>1, <1>2, AtNode DEF GraphStates
<1>4. Behind(run[p], status, approvals[1], work_order) /\ run[p].node = "verify_work_order"
  BY <1>1, AtNode
<1>5. Advance
  BY <1>4, RowColumns, ReachedTable DEF verify_work_order, Call, Advance, rowVars, Behind, RowInv
<1>6. raise(p) \/ (go(p, "mark_completed", state) /\ UNCHANGED rowVars)
  BY <1>2, <1>4 DEF verify_work_order, Call, commit, create, replayed, rowVars, Behind
<1>7. UNCHANGED rowVars => Behind([node |-> "mark_completed", state |-> state], status', approvals'[1], work_order')
  <2>1. Behind(run[p], status', approvals'[1], work_order')
    BY <1>1, <1>5, AtNode
  <2>2. PICK c : c = [node |-> "mark_completed", state |-> state]
    OBVIOUS
  <2>3. c.node = "mark_completed" /\ c.state = state
    BY <2>2
  <2>4. UNCHANGED rowVars => Behind(c, status', approvals'[1], work_order')
    BY <1>1, <1>2, <1>3, <1>4, <2>1, <2>3, ReachedTable, RowColumns, AdvanceType, AdvanceRow, <1>5
       DEF Behind, Statuses, Terminal, GraphStates, RowInv
  <2> QED
    BY <2>2, <2>4
<1>8. UNCHANGED <<ckpt, view>>
  BY DEF verify_work_order, Call
<1> QED
  BY <1>1, <1>3, <1>5, <1>6, <1>7, <1>8, HandOn DEF Nodes

\* The last transition of the approved branch.
LEMMA Step_mark_completed ==
    ASSUME ReliabilityTypeOK, RowInv, PointsInv, NEW p \in Processes, mark_completed(p)
    PROVE  StepKeeps
<1>1. at(p, "mark_completed")
  BY DEF mark_completed
<1>2. PICK state : state = run[p].state
  OBVIOUS
<1>3. state \in GraphStates
  BY <1>1, <1>2, AtNode DEF GraphStates
<1>4. Behind(run[p], status, approvals[1], work_order) /\ run[p].node = "mark_completed"
  BY <1>1, AtNode
<1>5. Advance
  BY <1>4, RowColumns, ReachedTable DEF mark_completed, Call, Advance, rowVars, Behind, RowInv
<1>6. raise(p) \/ (go(p, "END", state) /\ status' = "completed")
  BY <1>2, <1>4 DEF mark_completed, Call, commit, create, replayed, rowVars, Behind
<1>7. status' = "completed" => Behind([node |-> "END", state |-> state], status', approvals'[1], work_order')
  <2>1. Behind(run[p], status', approvals'[1], work_order')
    BY <1>1, <1>5, AtNode
  <2>2. PICK c : c = [node |-> "END", state |-> state]
    OBVIOUS
  <2>3. c.node = "END" /\ c.state = state
    BY <2>2
  <2>4. status' = "completed" => Behind(c, status', approvals'[1], work_order')
    BY <1>1, <1>2, <1>3, <1>4, <2>1, <2>3, ReachedTable, RowColumns, AdvanceType, AdvanceRow, <1>5
       DEF Behind, Statuses, Terminal, GraphStates, RowInv
  <2> QED
    BY <2>2, <2>4
<1>8. UNCHANGED <<ckpt, view>>
  BY DEF mark_completed, Call
<1> QED
  BY <1>1, <1>3, <1>5, <1>6, <1>7, <1>8, HandOn DEF Nodes

\* The last transition of the rejected branch.
LEMMA Step_mark_rejected ==
    ASSUME ReliabilityTypeOK, RowInv, PointsInv, NEW p \in Processes, mark_rejected(p)
    PROVE  StepKeeps
<1>1. at(p, "mark_rejected")
  BY DEF mark_rejected
<1>2. PICK state : state = run[p].state
  OBVIOUS
<1>3. state \in GraphStates
  BY <1>1, <1>2, AtNode DEF GraphStates
<1>4. Behind(run[p], status, approvals[1], work_order) /\ run[p].node = "mark_rejected"
  BY <1>1, AtNode
<1>5. Advance
  <2>1. run[p].state.approval = "rejected" /\ approvals[1] = "rejected"
    BY <1>4, RowColumns, AbsenceAssumption DEF Behind, Decisions
  <2>2. \/ UNCHANGED rowVars
        \/ status = "resuming" /\ commit("rejected", "operation_rejected", "rejected")
    BY <2>1 DEF mark_rejected, Call, commit
  <2> QED
    BY <2>1, <2>2 DEF Advance
<1>6. raise(p) \/ (go(p, "END", state) /\ status' = "rejected")
  BY <1>2, <1>4 DEF mark_rejected, Call, commit, create, replayed, rowVars, Behind
<1>7. status' = "rejected" => Behind([node |-> "END", state |-> state], status', approvals'[1], work_order')
  <2>1. Behind(run[p], status', approvals'[1], work_order')
    BY <1>1, <1>5, AtNode
  <2>2. PICK c : c = [node |-> "END", state |-> state]
    OBVIOUS
  <2>3. c.node = "END" /\ c.state = state
    BY <2>2
  <2>4. status' = "rejected" => Behind(c, status', approvals'[1], work_order')
    BY <1>1, <1>2, <1>3, <1>4, <2>1, <2>3, ReachedTable, RowColumns, AdvanceType, AdvanceRow, <1>5
       DEF Behind, Statuses, Terminal, GraphStates, RowInv
  <2> QED
    BY <2>2, <2>4
<1>8. UNCHANGED <<ckpt, view>>
  BY DEF mark_rejected, Call
<1> QED
  BY <1>1, <1>3, <1>5, <1>6, <1>7, <1>8, HandOn DEF Nodes

\* The interrupt and the end of the graph leave the row alone.
LEMMA Step_request_approval ==
    ASSUME ReliabilityTypeOK, RowInv, PointsInv, NEW p \in Processes, request_approval(p)
    PROVE  StepKeeps /\ ckpt' \in Checkpoints \cup {NoValue}
<1>1. Advance
  BY DEF request_approval, Advance
<1>2. /\ run' = [run EXCEPT ![p] = NoValue] /\ unsaved' = unsaved /\ view' = view
      /\ status' = status /\ approvals' = approvals /\ work_order' = work_order
  BY DEF request_approval, rowVars
<1>3. run' \in [Processes -> Runs \cup {NoValue}] /\ unsaved' \in Seq(Unsaved)
  BY <1>2 DEF ReliabilityTypeOK, Unsaved
<1>4. \/ ckpt' = ckpt
      \/ /\ ckpt' \in Checkpoints
         /\ Behind(ckpt', status', approvals'[1], work_order')
  <2>1. CASE ckpt = NoValue \/ ckpt.node # "request_approval"
    BY <2>1 DEF request_approval
  <2>2. CASE ckpt # NoValue /\ ckpt.node = "request_approval"
    <3>1. ckpt \in Checkpoints /\ Behind(ckpt, status, approvals[1], work_order)
      BY <2>2, PointNodes DEF PointsInv
    <3>2. ckpt' = [ckpt EXCEPT !.node = "interrupted"]
      BY <2>2 DEF request_approval
    <3>3. ckpt' \in Checkpoints /\ ckpt'.node = "interrupted" /\ ckpt'.state = ckpt.state
      BY <3>1, <3>2 DEF Checkpoints
    <3>4. Behind(ckpt', status', approvals'[1], work_order')
      BY <1>2, <2>2, <3>1, <3>3, ReachedTable DEF Behind
    <3> QED
      BY <3>3, <3>4
  <2> QED
    BY <2>1, <2>2
<1>5. \A q \in Processes : run'[q] \in {NoValue, run[q]} /\ view'[q] \in {NoValue, view[q]}
  BY <1>2 DEF ReliabilityTypeOK
<1>6. \A i \in DOMAIN unsaved' :
          \E j \in DOMAIN unsaved : /\ unsaved'[i].node = unsaved[j].node
                                    /\ unsaved'[i].state = unsaved[j].state
  BY <1>2
<1>7. PointsInv'
  BY <1>1, <1>4, <1>5, <1>6, PointsStep
<1> QED
  BY <1>1, <1>3, <1>4, <1>7 DEF StepKeeps, ReliabilityTypeOK

\* The graph's end.
LEMMA Step_graph_end ==
    ASSUME ReliabilityTypeOK, RowInv, PointsInv, NEW p \in Processes, graph_end(p)
    PROVE  StepKeeps
<1>1. Advance /\ run' = [run EXCEPT ![p] = NoValue] /\ UNCHANGED <<ckpt, unsaved, view>>
  BY DEF graph_end, raise, Advance
<1> QED
  BY <1>1, StopStep DEF StepKeeps

\* A checkpoint that is saved was unsaved before.
LEMMA Step_save ==
    ASSUME ReliabilityTypeOK, RowInv, PointsInv, NEW p \in Processes, save(p)
    PROVE  StepKeeps /\ ckpt' \in Checkpoints
<1>1. PICK i \in DOMAIN unsaved :
        /\ ckpt' = [node |-> unsaved[i].node, state |-> unsaved[i].state]
        /\ unsaved' = SubSeq(unsaved, i + 1, Len(unsaved))
        /\ UNCHANGED <<rowVars, view, run>>
  BY DEF save
<1>2. /\ unsaved \in Seq(Unsaved) /\ Len(unsaved) \in Nat /\ DOMAIN unsaved = 1..Len(unsaved)
      /\ \A j \in DOMAIN unsaved : unsaved[j] \in Unsaved
      /\ unsaved[i].node \in Nodes /\ unsaved[i].state \in GraphStates
  BY PointNodes DEF ReliabilityTypeOK, Unsaved
<1>3. i + 1 \in Int /\ Len(unsaved) \in Int /\ \A j \in i + 1 .. Len(unsaved) : unsaved[j] \in Unsaved
  BY <1>2
<1>4. /\ unsaved' \in Seq(Unsaved)
      /\ Len(unsaved') = Len(unsaved) - i
      /\ \A j \in 1..(Len(unsaved) - i) : unsaved'[j] = unsaved[i + j]
  <2>1. /\ unsaved' \in Seq(Unsaved)
        /\ Len(unsaved') = IF i + 1 <= Len(unsaved) THEN Len(unsaved) - (i + 1) + 1 ELSE 0
        /\ \A j \in 1 .. Len(unsaved) - (i + 1) + 1 : unsaved'[j] = unsaved[i + 1 + j - 1]
    <3>1. PICK m \in Int : m = i + 1
      BY <1>3
    <3>2. PICK n \in Int : n = Len(unsaved)
      BY <1>3
    <3>3. \A j \in m..n : unsaved[j] \in Unsaved
      BY <1>3, <3>1, <3>2
    <3>4. /\ SubSeq(unsaved, m, n) \in Seq(Unsaved)
          /\ Len(SubSeq(unsaved, m, n)) = IF m <= n THEN n - m + 1 ELSE 0
          /\ \A j \in 1 .. n - m + 1 : SubSeq(unsaved, m, n)[j] = unsaved[m + j - 1]
      BY <3>3, SubSeqProperties
    <3> QED
      BY <1>1, <3>1, <3>2, <3>4
  <2>2. /\ Len(unsaved) - (i + 1) + 1 = Len(unsaved) - i
        /\ i + 1 <= Len(unsaved) \/ Len(unsaved) - i = 0
        /\ \A j \in 1..(Len(unsaved) - i) : i + 1 + j - 1 = i + j
    BY <1>2
  <2>3. Len(unsaved') = Len(unsaved) - i
    BY <2>1, <2>2
  <2>4. ASSUME NEW j \in 1..(Len(unsaved) - i) PROVE unsaved'[j] = unsaved[i + j]
    <3>1. unsaved'[j] = unsaved[i + 1 + j - 1]
      BY <2>1, <2>2
    <3>2. i + 1 + j - 1 = i + j
      BY <2>2
    <3> QED
      BY ONLY <3>1, <3>2, Zenon
  <2> QED
    BY <2>1, <2>3, <2>4
<1>5. \A j \in DOMAIN unsaved' :
          \E k \in DOMAIN unsaved : /\ unsaved'[j].node = unsaved[k].node
                                    /\ unsaved'[j].state = unsaved[k].state
  <2> SUFFICES ASSUME NEW j \in DOMAIN unsaved'
               PROVE  i + j \in DOMAIN unsaved /\ unsaved'[j] = unsaved[i + j]
    OBVIOUS
  <2>1. DOMAIN unsaved' = 1..Len(unsaved')
    BY <1>4
  <2>2. j \in 1..(Len(unsaved) - i)
    BY <1>4, <2>1
  <2>3. i + j \in 1..Len(unsaved)
    BY <1>2, <2>2
  <2> QED
    BY <1>2, <1>4, <2>2, <2>3
<1>6. Advance /\ status' = status /\ approvals' = approvals /\ work_order' = work_order
  BY <1>1 DEF Advance, rowVars
<1>7. ckpt' \in Checkpoints /\ ckpt'.node = unsaved[i].node /\ ckpt'.state = unsaved[i].state
  BY <1>1, <1>2 DEF Checkpoints
<1>8. Behind(ckpt', status', approvals'[1], work_order')
  BY <1>6, <1>7, BehindFields DEF PointsInv
<1>9. PointsInv'
  BY <1>1, <1>5, <1>6, <1>8, PointsStep
<1> QED
  BY <1>1, <1>4, <1>6, <1>7, <1>9 DEF StepKeeps, ReliabilityTypeOK

\* recover reads the row once, and what it read stays true of the decision.
LEMMA Step_load_recovery_view ==
    ASSUME ReliabilityTypeOK, RowInv, PointsInv, NEW p \in Processes, load_recovery_view(p)
    PROVE  StepKeeps /\ view' \in [Processes -> Views \cup {NoValue}]
<1>1. PICK v : v = [status |-> status, decision |-> current_decision, work_order |-> work_order]
  OBVIOUS
<1>2. v \in Views /\ v.decision = approvals[1]
  BY <1>1, RowColumns DEF Views, ReliabilityTypeOK
<1>3. view' = [view EXCEPT ![p] = v] /\ UNCHANGED <<rowVars, ckpt, unsaved, run>>
  BY <1>1 DEF load_recovery_view
<1>4. Advance /\ approvals' = approvals
  BY <1>3 DEF Advance, rowVars
<1>5. \A q \in Processes : view'[q] \in {NoValue, view[q]} \/ view'[q].decision \in {NoValue, approvals'[1]}
  BY <1>2, <1>3, <1>4 DEF ReliabilityTypeOK
<1>6. \A i \in DOMAIN unsaved' :
          \E j \in DOMAIN unsaved : /\ unsaved'[i].node = unsaved[j].node
                                    /\ unsaved'[i].state = unsaved[j].state
  BY <1>3
<1>7. PointsInv'
  BY <1>3, <1>4, <1>5, <1>6, PointsStep
<1> QED
  BY <1>2, <1>3, <1>4, <1>7 DEF StepKeeps, ReliabilityTypeOK, Unsaved

\* A crash forgets the run and disowns the checkpoints that are not saved.
LEMMA Step_crash ==
    ASSUME ReliabilityTypeOK, RowInv, PointsInv, NEW p \in Processes, crash(p)
    PROVE  StepKeeps /\ view' \in [Processes -> Views \cup {NoValue}]
<1>1. /\ run' = [run EXCEPT ![p] = NoValue] /\ view' = [view EXCEPT ![p] = NoValue]
      /\ UNCHANGED <<rowVars, ckpt>>
  BY DEF crash
<1>2. /\ unsaved \in Seq(Unsaved) /\ Len(unsaved) \in Nat /\ DOMAIN unsaved = 1..Len(unsaved)
      /\ \A i \in DOMAIN unsaved : unsaved[i] \in Unsaved
  BY PointNodes DEF ReliabilityTypeOK, Unsaved
<1>3. \A i \in DOMAIN unsaved :
        /\ unsaved'[i] \in Unsaved
        /\ unsaved'[i].node = unsaved[i].node /\ unsaved'[i].state = unsaved[i].state
  <2> SUFFICES ASSUME NEW i \in DOMAIN unsaved
               PROVE  /\ unsaved'[i] \in Unsaved
                      /\ unsaved'[i].node = unsaved[i].node /\ unsaved'[i].state = unsaved[i].state
    OBVIOUS
  <2>1. unsaved'[i] \in {unsaved[i], [unsaved[i] EXCEPT !.by = NoValue]}
    BY DEF crash
  <2> QED
    BY <1>2, <2>1 DEF Unsaved
<1>4. unsaved' \in [1..Len(unsaved) -> Unsaved]
  BY <1>2, <1>3 DEF crash
<1>5. unsaved' \in Seq(Unsaved) /\ DOMAIN unsaved' = DOMAIN unsaved
  BY <1>2, <1>4, IsASeq
<1>6. \A q \in Processes : run'[q] \in {NoValue, run[q]} /\ view'[q] \in {NoValue, view[q]}
  BY <1>1 DEF ReliabilityTypeOK
<1>7. PointsInv'
  BY <1>1, <1>3, <1>5, <1>6, PointsStep DEF Advance
<1> QED
  BY <1>1, <1>5, <1>7 DEF StepKeeps, Advance, ReliabilityTypeOK

\* submit_once moves the row only.
LEMMA Step_submit_once ==
    ASSUME ReliabilityTypeOK, RowInv, PointsInv, NEW d \in Decisions, submit_once(d)
    PROVE  StepKeeps
<1>1. approval_cycle = 1
  BY DEF submit_once, RowInv
<1>2. Advance /\ UNCHANGED <<ckpt, unsaved, view, run>>
  BY <1>1 DEF submit_once, Advance
<1>3. \A i \in DOMAIN unsaved' :
          \E j \in DOMAIN unsaved : /\ unsaved'[i].node = unsaved[j].node
                                    /\ unsaved'[i].state = unsaved[j].state
  BY <1>2
<1>4. PointsInv'
  BY <1>2, <1>3, PointsStep
<1> QED
  BY <1>2, <1>4 DEF StepKeeps, ReliabilityTypeOK, Unsaved

\* What aget_state chooses rests on the view and on the checkpoint it reads.
LEMMA Step_aget_state ==
    ASSUME ReliabilityTypeOK, RowInv, PointsInv, NEW p \in Processes, aget_state(p)
    PROVE  /\ StepKeeps
           /\ view' \in [Processes -> Views \cup {NoValue}]
           /\ chosen' \in [Processes -> Actions \cup {NoValue}]
           /\ \A q \in Processes :
                 \/ chosen'[q] \in {NoValue, chosen[q]} /\ chosen[q] # NoValue /\ view'[q] = view[q]
                 \/ chosen'[q] = NoValue
                 \/ /\ view'[q] = view[q] /\ view[q] # NoValue
                    /\ chosen'[q] # "rebuild_from_business_facts" => ckpt # NoValue
                    /\ chosen'[q] = "resume_decision" => view[q].decision # NoValue
<1>1. PICK action : action = choose_recovery_action(view[p])
  OBVIOUS
<1>2. /\ UNCHANGED <<rowVars, ckpt, unsaved, run>>
      /\ view[p] # NoValue /\ chosen[p] = NoValue
      /\ \/ view' = [view EXCEPT ![p] = NoValue] /\ chosen' = chosen
         \/ /\ action \in Actions
            /\ chosen' = [chosen EXCEPT ![p] = action] /\ view' = view
  BY <1>1 DEF aget_state
<1>3. Advance
  BY <1>2 DEF Advance
<1>4. StepKeeps
  BY <1>2, <1>3, StopStep DEF StepKeeps
<1>5. action \in Actions =>
          /\ action # "rebuild_from_business_facts" => ckpt # NoValue
          /\ action = "resume_decision" => view[p].decision # NoValue
  BY <1>1 DEF choose_recovery_action, phase, Actions
<1> QED
  BY <1>2, <1>4, <1>5 DEF ReliabilityTypeOK

\* A run that starts the graph over is behind every row.
LEMMA StartsOver ==
    ASSUME ReliabilityTypeOK, RowInv, PointsInv, NEW p \in Processes,
           go(p, "prepare_approval", build_initial_state),
           UNCHANGED <<rowVars, ckpt>>, view' = [view EXCEPT ![p] = NoValue]
    PROVE  StepKeeps
<1>1. Advance /\ status' = status /\ approvals' = approvals /\ work_order' = work_order
  BY DEF Advance, rowVars
<1>2. build_initial_state \in GraphStates
  BY DEF build_initial_state, GraphStates
<1>3. PICK c : c = [node |-> "prepare_approval", state |-> build_initial_state]
  OBVIOUS
<1>4. c.node = "prepare_approval" /\ c.state.approval = NoValue /\ c.state.work_order = NoValue
  BY <1>3 DEF build_initial_state
<1>5. Behind(c, status', approvals'[1], work_order')
  BY <1>1, <1>4, ReachedTable DEF Behind, ReliabilityTypeOK
<1>6. "prepare_approval" \in Nodes
  BY DEF Nodes
<1> QED
  BY <1>1, <1>2, <1>3, <1>5, <1>6, GoStep DEF StepKeeps

\* A run that takes the decision at the checkpoint is on the branch decided.
LEMMA TakesDecision ==
    ASSUME ReliabilityTypeOK, RowInv, PointsInv, NEW p \in Processes, ckpt # NoValue,
           ckpt.node \in {"interrupted", "request_approval"},
           view[p] # NoValue, NEW d, d = view[p].decision, d # NoValue,
           go(p, route_decision(d), [ckpt.state EXCEPT !.approval = d]),
           UNCHANGED <<rowVars, ckpt>>, view' = [view EXCEPT ![p] = NoValue]
    PROVE  StepKeeps
<1>1. Advance /\ status' = status /\ approvals' = approvals /\ work_order' = work_order
  BY DEF Advance, rowVars
<1>2. d = approvals[1] /\ d \in Decisions /\ status \notin {"received", "awaiting_approval"}
  BY RowColumns DEF PointsInv, RowInv
<1>3. ckpt.state \in GraphStates /\ Behind(ckpt, status, approvals[1], work_order)
  BY PointNodes DEF PointsInv
<1>4. PICK state : state = [ckpt.state EXCEPT !.approval = d]
  OBVIOUS
<1>5. state \in GraphStates /\ state.approval = d /\ state.work_order = ckpt.state.work_order
  BY <1>2, <1>3, <1>4 DEF GraphStates
<1>6. PICK node : node = route_decision(d)
  OBVIOUS
<1>7. /\ node \in Nodes
      /\ \/ node = "mark_executing" /\ d = "approved"
         \/ node = "mark_rejected" /\ d = "rejected"
  BY <1>2, <1>6 DEF route_decision, Nodes, Decisions
<1>8. PICK c : c = [node |-> node, state |-> state]
  OBVIOUS
<1>9. c.node = node /\ c.state = state
  BY <1>8
<1>10. Behind(c, status', approvals'[1], work_order')
  BY <1>1, <1>2, <1>3, <1>5, <1>7, <1>9, ReachedTable DEF Behind, ReliabilityTypeOK
<1>11. go(p, node, state)
  BY <1>4, <1>6
<1> QED
  BY <1>1, <1>5, <1>7, <1>8, <1>10, <1>11, GoStep DEF StepKeeps

\* A run that goes on from the checkpoint is as far behind the row as that is.
LEMMA GoesOn ==
    ASSUME ReliabilityTypeOK, RowInv, PointsInv, NEW p \in Processes, ckpt # NoValue,
           \/ run' = [run EXCEPT ![p] = NoValue]
           \/ ckpt.node # "interrupted" /\ run' = [run EXCEPT ![p] = ckpt]
           \/ /\ ckpt.node = "interrupted"
              /\ run' = [run EXCEPT ![p] = [ckpt EXCEPT !.node = "request_approval"]],
           UNCHANGED <<rowVars, ckpt, unsaved>>, view' = [view EXCEPT ![p] = NoValue]
    PROVE  StepKeeps
<1>1. Advance /\ status' = status /\ approvals' = approvals /\ work_order' = work_order
  BY DEF Advance, rowVars
<1>2. ckpt \in Checkpoints /\ Behind(ckpt, status, approvals[1], work_order)
  BY PointNodes DEF PointsInv
<1>3. PICK c : run' = [run EXCEPT ![p] = c]
               /\ \/ c = NoValue
                  \/ c \in Runs /\ Behind(c, status, approvals[1], work_order)
  <2>1. CASE run' = [run EXCEPT ![p] = NoValue]
    BY <2>1
  <2>2. CASE ckpt.node # "interrupted" /\ run' = [run EXCEPT ![p] = ckpt]
    <3>1. ckpt \in Runs
      BY <1>2, <2>2 DEF Runs, Checkpoints
    <3> QED
      BY <1>2, <2>2, <3>1
  <2>3. CASE /\ ckpt.node = "interrupted"
             /\ run' = [run EXCEPT ![p] = [ckpt EXCEPT !.node = "request_approval"]]
    <3>1. PICK c : c = [ckpt EXCEPT !.node = "request_approval"]
      OBVIOUS
    <3>2. c \in Runs /\ c.node = "request_approval" /\ c.state = ckpt.state
      BY <1>2, <3>1 DEF Runs, Checkpoints, Nodes
    <3>3. Behind(c, status, approvals[1], work_order)
      BY <1>2, <2>3, <3>2, ReachedTable DEF Behind
    <3> QED
      BY <2>3, <3>1, <3>2, <3>3
  <2> QED
    BY <2>1, <2>2, <2>3
<1>4. run' \in [Processes -> Runs \cup {NoValue}]
  BY <1>3 DEF ReliabilityTypeOK
<1>5. \A q \in Processes : \/ run'[q] \in {NoValue, run[q]}
                           \/ Behind(run'[q], status', approvals'[1], work_order')
  BY <1>1, <1>3 DEF ReliabilityTypeOK
<1>6. \A i \in DOMAIN unsaved' :
          \E j \in DOMAIN unsaved : /\ unsaved'[i].node = unsaved[j].node
                                    /\ unsaved'[i].state = unsaved[j].state
  OBVIOUS
<1>7. \A q \in Processes : view'[q] \in {NoValue, view[q]}
  BY DEF ReliabilityTypeOK
<1>8. PointsInv'
  BY <1>1, <1>5, <1>6, <1>7, PointsStep
<1> QED
  BY <1>1, <1>4, <1>8 DEF StepKeeps, ReliabilityTypeOK, Unsaved

\* ainvoke acts on a view and a choice that may be older than the row and the
\* checkpoint; where it puts the process is behind the row all the same.
LEMMA Step_ainvoke ==
    ASSUME ReliabilityTypeOK, RowInv, PointsInv, ChosenInv, NEW p \in Processes, ainvoke(p)
    PROVE  StepKeeps
<1>1. /\ chosen[p] # NoValue /\ chosen[p] \in Actions /\ view[p] # NoValue
      /\ chosen[p] # "rebuild_from_business_facts" => ckpt # NoValue
      /\ chosen[p] = "resume_decision" => view[p].decision # NoValue
      /\ view' = [view EXCEPT ![p] = NoValue]
      /\ UNCHANGED <<rowVars, ckpt>>
  BY DEF ainvoke, ChosenInv, ReliabilityTypeOK
<1>2. CASE chosen[p] = "rebuild_from_business_facts"
  <2>1. go(p, "prepare_approval", build_initial_state)
    BY <1>2 DEF ainvoke
  <2> QED
    BY <1>1, <2>1, StartsOver
<1>3. CASE chosen[p] = "resume_decision"
  <2>1. PICK d : d = view[p].decision
    OBVIOUS
  <2>2. resume(p, d)
    BY <1>3, <2>1 DEF ainvoke
  <2>3. CASE ckpt.node \in {"interrupted", "request_approval"}
    <3>1. go(p, route_decision(d), [ckpt.state EXCEPT !.approval = d])
      BY <2>2, <2>3 DEF resume
    <3> QED
      BY <1>1, <1>3, <2>1, <2>3, <3>1, TakesDecision
  <2>4. CASE ckpt.node \notin {"interrupted", "request_approval"}
    <3>1. /\ run' = [run EXCEPT ![p] = NoValue] \/ run' = [run EXCEPT ![p] = ckpt]
          /\ UNCHANGED unsaved
      BY <2>2, <2>4 DEF resume
    <3> QED
      BY <1>1, <1>3, <2>4, <3>1, GoesOn
  <2> QED
    BY <2>3, <2>4
<1>4. CASE chosen[p] = "continue_checkpoint"
  <2>1. continue(p)
    BY <1>4 DEF ainvoke
  <2>2. /\ \/ run' = [run EXCEPT ![p] = NoValue]
           \/ ckpt.node # "interrupted" /\ run' = [run EXCEPT ![p] = ckpt]
           \/ /\ ckpt.node = "interrupted"
              /\ run' = [run EXCEPT ![p] = [ckpt EXCEPT !.node = "request_approval"]]
        /\ UNCHANGED unsaved
    BY <2>1 DEF continue
  <2> QED
    BY <1>1, <1>4, <2>2, GoesOn
<1> QED
  BY <1>1, <1>2, <1>3, <1>4 DEF Actions

\* recover that raises forgets what it has read.
LEMMA Step_recover_raises ==
    ASSUME ReliabilityTypeOK, RowInv, PointsInv, NEW p \in Processes, recover_raises(p)
    PROVE  StepKeeps /\ faults' \in 0..MaxFaults
<1>1. /\ view' = [view EXCEPT ![p] = NoValue] /\ UNCHANGED <<rowVars, ckpt, unsaved, run>>
      /\ faults < MaxFaults /\ faults' = faults + 1
  BY DEF recover_raises
<1>2. Advance
  BY <1>1 DEF Advance
<1>3. faults' \in 0..MaxFaults
  BY <1>1, ReliabilityAssumption DEF ReliabilityTypeOK
<1> QED
  BY <1>1, <1>2, <1>3, StopStep DEF StepKeeps

\* A node of the graph advances the row and leaves the point behind it.
LEMMA GraphStepKeeps ==
    ASSUME ReliabilityTypeOK, RowInv, PointsInv, NEW p \in Processes, GraphStep(p)
    PROVE  /\ StepKeeps
           /\ ckpt' \in Checkpoints \cup {NoValue} /\ view' = view /\ chosen' = chosen
           /\ ckpt # NoValue => ckpt' # NoValue
           /\ faults' \in 0..MaxFaults /\ crashes' = crashes
<1>1. CASE request_approval(p)
  <2>1. ckpt # NoValue => ckpt' # NoValue
    <3>1. SUFFICES ASSUME ckpt # NoValue
                   PROVE  ckpt' \in Checkpoints
      BY AbsenceAssumption
    <3>2. ckpt \in Checkpoints
      BY <3>1 DEF ReliabilityTypeOK
    <3>3. [ckpt EXCEPT !.node = "interrupted"] \in Checkpoints
      BY <3>2 DEF Checkpoints
    <3> QED
      BY <1>1, <3>2, <3>3 DEF request_approval
  <2> QED
    BY <1>1, <2>1, Step_request_approval DEF request_approval, ReliabilityTypeOK
<1>2. CASE graph_end(p)
  BY <1>2, Step_graph_end DEF graph_end, ReliabilityTypeOK
<1>3. CASE \/ prepare_approval(p) \/ mark_executing(p) \/ execute_work_order(p) \/ mark_verifying(p)
           \/ verify_work_order(p) \/ mark_completed(p) \/ mark_rejected(p)
  <2>1. StepKeeps
    BY <1>3, Step_prepare_approval, Step_mark_executing, Step_execute_work_order,
       Step_mark_verifying, Step_verify_work_order, Step_mark_completed, Step_mark_rejected
  <2>2. /\ ckpt' = ckpt /\ view' = view /\ chosen' = chosen /\ crashes' = crashes
        /\ faults' = faults \/ (faults < MaxFaults /\ faults' = faults + 1)
    BY <1>3 DEF prepare_approval, mark_executing, execute_work_order, mark_verifying,
                verify_work_order, mark_completed, mark_rejected, Call
  <2>3. faults' \in 0..MaxFaults
    BY <2>2, ReliabilityAssumption DEF ReliabilityTypeOK
  <2> QED
    BY <2>1, <2>2, <2>3 DEF ReliabilityTypeOK
<1> QED
  BY <1>1, <1>2, <1>3 DEF GraphStep

\* What a process chose stands on its view and on a checkpoint that is not lost.
LEMMA ChosenKept ==
    ASSUME ChosenInv, ckpt # NoValue => ckpt' # NoValue,
           \A q \in Processes :
               \/ chosen'[q] = NoValue
               \/ chosen'[q] = chosen[q] /\ view'[q] = view[q]
               \/ /\ view'[q] = view[q] /\ view[q] # NoValue
                  /\ chosen'[q] # "rebuild_from_business_facts" => ckpt # NoValue
                  /\ chosen'[q] = "resume_decision" => view[q].decision # NoValue
    PROVE  ChosenInv'
BY DEF ChosenInv

\* So does every other step.
LEMMA NextKeeps ==
    ASSUME RInv, [Next]_reliabilityVars
    PROVE  Advance /\ RInv'
<1> USE DEF RInv
<1>1. /\ StepKeeps
      /\ ckpt' \in Checkpoints \cup {NoValue}
      /\ view' \in [Processes -> Views \cup {NoValue}]
      /\ chosen' \in [Processes -> Actions \cup {NoValue}]
      /\ ChosenInv'
      /\ faults' \in 0..MaxFaults /\ crashes' \in 0..MaxCrashes
  <2>1. ASSUME NEW d \in Decisions, submit_once(d) PROVE <1>1!:
    BY <2>1, Step_submit_once, ChosenKept DEF submit_once, ReliabilityTypeOK
  <2>2. ASSUME NEW p \in Processes, GraphStep(p) PROVE <1>1!:
    BY <2>2, GraphStepKeeps, ChosenKept DEF ReliabilityTypeOK
  <2>3. ASSUME NEW p \in Processes, save(p) PROVE <1>1!:
    <3>1. ckpt' # NoValue
      BY <2>3, Step_save, AbsenceAssumption
    <3> QED
      BY <2>3, <3>1, Step_save, ChosenKept DEF save, ReliabilityTypeOK
  <2>4. ASSUME NEW p \in Processes, load_recovery_view(p) PROVE <1>1!:
    <3>1. /\ view[p] = NoValue /\ chosen' = chosen /\ ckpt' = ckpt
          /\ \A q \in Processes : q # p => view'[q] = view[q]
          /\ UNCHANGED <<faults, crashes>>
      BY <2>4 DEF load_recovery_view, ReliabilityTypeOK
    <3>2. chosen[p] = NoValue
      BY <3>1 DEF ChosenInv
    <3>3. ChosenInv'
      BY <3>1, <3>2, ChosenKept
    <3> QED
      BY <2>4, <3>1, <3>3, Step_load_recovery_view DEF ReliabilityTypeOK
  <2>5. ASSUME NEW p \in Processes, aget_state(p) PROVE <1>1!:
    <3>1. ckpt' = ckpt /\ UNCHANGED <<faults, crashes>>
      BY <2>5 DEF aget_state
    <3>2. ChosenInv'
      BY <2>5, <3>1, Step_aget_state, ChosenKept
    <3> QED
      BY <2>5, <3>1, <3>2, Step_aget_state DEF ReliabilityTypeOK
  <2>6. ASSUME NEW p \in Processes, ainvoke(p) \/ recover_raises(p) \/ crash(p) PROVE <1>1!:
    <3>1. /\ view' = [view EXCEPT ![p] = NoValue] /\ chosen' = [chosen EXCEPT ![p] = NoValue]
          /\ ckpt' = ckpt
      BY <2>6 DEF ainvoke, recover_raises, crash
    <3>2. /\ view' \in [Processes -> Views \cup {NoValue}]
          /\ chosen' \in [Processes -> Actions \cup {NoValue}]
          /\ \A q \in Processes : chosen'[q] = NoValue \/ (chosen'[q] = chosen[q] /\ view'[q] = view[q])
      BY <3>1 DEF ReliabilityTypeOK
    <3>3. ChosenInv'
      BY <3>1, <3>2, ChosenKept
    <3>4. StepKeeps
      BY <2>6, Step_ainvoke, Step_recover_raises, Step_crash
    <3>5. faults' \in 0..MaxFaults
      BY <2>6, Step_recover_raises DEF ainvoke, crash, ReliabilityTypeOK
    <3>6. crashes' = crashes \/ (crashes < MaxCrashes /\ crashes' = crashes + 1)
      BY <2>6 DEF ainvoke, recover_raises, crash
    <3>7. crashes' \in 0..MaxCrashes
      BY <3>6, ReliabilityAssumption DEF ReliabilityTypeOK
    <3> QED
      BY <3>1, <3>2, <3>3, <3>4, <3>5, <3>7 DEF ReliabilityTypeOK
  <2>7. CASE UNCHANGED reliabilityVars
    <3>1. UNCHANGED rowVars /\ UNCHANGED <<ckpt, unsaved, view, chosen, run, faults, crashes>>
      BY <2>7 DEF reliabilityVars
    <3>2. PointsInv' /\ ChosenInv'
      BY <3>1 DEF PointsInv, ChosenInv, rowVars
    <3> QED
      BY <3>1, <3>2 DEF StepKeeps, Advance, ReliabilityTypeOK, Unsaved
  <2> QED
    BY <2>1, <2>2, <2>3, <2>4, <2>5, <2>6, <2>7 DEF Next
<1>2. ReliabilityTypeOK'
  BY <1>1, AdvanceType DEF StepKeeps, ReliabilityTypeOK, Unsaved
<1>3. RowInv' /\ TrailInv'
  BY <1>1, AdvanceRow, AdvanceTrail DEF StepKeeps
<1> QED
  BY <1>1, <1>2, <1>3 DEF StepKeeps

\* The initial state.
LEMMA InitKeeps == Init => RInv
<1> SUFFICES ASSUME Init
             PROVE  RInv
  OBVIOUS
<1>1. ReliabilityTypeOK
  BY ReliabilityAssumption, EmptySeq DEF Init, ReliabilityTypeOK, Statuses
<1>2. RowInv
  BY <1>1, RowColumns DEF Init, RowInv
<1>3. TrailInv
  <2>1. Len(audit) = 0 /\ Position = 0
    BY DEF Init, Position
  <2> QED
    BY <2>1 DEF TrailInv
<1>4. PointsInv
  <2>1. DOMAIN unsaved = {}
    BY DEF Init
  <2> QED
    BY <2>1 DEF Init, PointsInv
<1>5. ChosenInv
  BY DEF Init, ChosenInv
<1> QED
  BY <1>1, <1>2, <1>3, <1>4, <1>5 DEF RInv

\* The invariant in every behaviour.
LEMMA ReliabilityInv == ReliabilitySpec => []RInv
<1>1. RInv /\ [Next]_reliabilityVars => RInv'
  BY NextKeeps
<1> QED
  BY <1>1, InitKeeps, PTL DEF ReliabilitySpec

-----------------------------------------------------------------------------
(* Theorems *)

\* The row, the checkpoints, the views and the runs keep their types.
THEOREM ReliabilityTypes == ReliabilitySpec => []ReliabilityTypeOK
<1>1. RInv => ReliabilityTypeOK
  BY DEF RInv
<1> QED
  BY <1>1, ReliabilityInv, PTL

\* For any number of recovering processes, crashes and failing calls, neither a
\* run nor a saved or unsaved checkpoint is ahead of the committed row.
THEOREM ReliabilityCheckpointIsBehindRow == ReliabilitySpec => []CheckpointIsBehindRow
<1>1. ASSUME RInv PROVE CheckpointIsBehindRow
  <2>1. current_decision = approvals[1]
    BY <1>1, RowColumns DEF RInv
  <2>2. PICK points : points = {run[p] : p \in Processes} \cup {ckpt} \cup Range(unsaved)
    OBVIOUS
  <2>3. \A c \in points : c # NoValue => Behind(c, status, approvals[1], work_order)
    BY <1>1, <2>2 DEF RInv, PointsInv, Range
  <2>4. \A c \in points \ {NoValue} :
            /\ status \in Reached[c.node]
            /\ c.state.approval \in {NoValue, current_decision}
            /\ c.state.work_order \in {NoValue, work_order}
    BY <2>1, <2>3 DEF Behind
  <2> QED
    BY <2>2, <2>4 DEF CheckpointIsBehindRow
<1> QED
  BY <1>1, ReliabilityInv, PTL

\* The path of a decision, event by event.
LEMMA PathEvents ==
    ASSUME NEW d \in Decisions
    PROVE  /\ Path(d) \in Seq({"approval_requested", "approval_recorded", "execution_started",
                               "work_order_created", "verification_started",
                               "operation_completed", "operation_rejected"})
           /\ Len(Path(d)) = IF d = "approved" THEN 6 ELSE 3
           /\ \A i \in 1..Len(Path(d)) : Path(d)[i] = EventAt(d, i)
<1>1. CASE d = "approved"
  BY <1>1 DEF Path, EventAt
<1>2. CASE d = "rejected"
  BY <1>2 DEF Path, EventAt
<1> QED
  BY <1>1, <1>2 DEF Decisions

\* For any number of processes that replay its nodes, the audit trail of the
\* operation is one walk through the graph, and the row stands at its end.
THEOREM ReliabilityHistoryIsOnePath == ReliabilitySpec => []HistoryIsOnePath
<1>1. ASSUME RInv PROVE HistoryIsOnePath
  <2>1. PICK d \in Decisions : approvals[1] \in {NoValue, d}
    BY <1>1, RowColumns DEF RInv, Decisions
  <2>2. PICK types : types = [i \in DOMAIN audit |-> audit[i].type]
    OBVIOUS
  <2>3. PICK n : n = Len(audit)
    OBVIOUS
  <2>4. n \in Nat /\ DOMAIN audit = 1..n /\ n = Position
    BY <1>1, <2>3 DEF RInv, ReliabilityTypeOK, TrailInv
  <2>5. /\ n <= Len(Path(d)) /\ n \in 0..6
        /\ n > 1 => d = current_decision
        /\ \A i \in 1..n : EventAt(approvals[1], i) = EventAt(d, i)
    <3>1. n > 1 => approvals[1] = d
      BY <1>1, <2>1, <2>4, RowColumns DEF RInv, Position, RowInv, ReliabilityTypeOK, Statuses, Terminal
    <3>2. n <= Len(Path(d)) /\ n \in 0..6
      <4>1. n \in 0..6 /\ (n > 3 => approvals[1] = "approved")
        BY <1>1, <2>4, RowColumns DEF RInv, Position, RowInv, ReliabilityTypeOK, Statuses, Terminal
      <4>2. Len(Path(d)) = 6 \/ (d = "rejected" /\ Len(Path(d)) = 3)
        BY PathEvents DEF Decisions
      <4> QED
        BY <3>1, <4>1, <4>2
    <3>3. n <= 1 => \A i \in 1..n : EventAt(approvals[1], i) = EventAt(d, i)
      BY <2>4 DEF EventAt
    <3> QED
      BY <1>1, <2>4, <3>1, <3>2, <3>3, RowColumns DEF RInv
  <2>6. \A i \in 1..n : types[i] = Path(d)[i]
    BY <1>1, <2>2, <2>3, <2>4, <2>5, PathEvents DEF RInv, TrailInv
  <2>7. IsPrefix(types, Path(d)) /\ Len(types) = n
    <3>1. PICK T : T = {"approval_requested", "approval_recorded", "execution_started",
                        "work_order_created", "verification_started",
                        "operation_completed", "operation_rejected"}
      OBVIOUS
    <3>2. Path(d) \in Seq(T) /\ Len(Path(d)) \in Nat /\ \A i \in 1..n : Path(d)[i] \in T
      BY <2>4, <2>5, <3>1, PathEvents
    <3>3. types \in [1..n -> T]
      BY <2>2, <2>4, <2>6, <3>2
    <3>4. types \in Seq(T) /\ Len(types) = n
      BY <2>4, <3>3, IsASeq
    <3>5. PICK one \in Int : one = 1
      OBVIOUS
    <3>6. n \in Int
      BY <2>4
    <3>7. \A i \in one..n : types[i] \in T /\ Path(d)[i] \in T
      BY <2>6, <3>2, <3>5
    <3>8. /\ SubSeq(types, one, n) \in Seq(T)
          /\ Len(SubSeq(types, one, n)) = IF one <= n THEN n - one + 1 ELSE 0
          /\ \A i \in 1 .. n - one + 1 : SubSeq(types, one, n)[i] = types[one + i - 1]
      BY <3>6, <3>7, SubSeqProperties
    <3>9. /\ SubSeq(Path(d), one, n) \in Seq(T)
          /\ Len(SubSeq(Path(d), one, n)) = IF one <= n THEN n - one + 1 ELSE 0
          /\ \A i \in 1 .. n - one + 1 : SubSeq(Path(d), one, n)[i] = Path(d)[one + i - 1]
      BY <3>6, <3>7, SubSeqProperties
    <3>10. \A i \in 1 .. n - one + 1 : one + i - 1 \in 1..n
      BY <2>4, <3>5
    <3>11. \A i \in 1..n : SubSeq(types, one, n)[i] = SubSeq(Path(d), one, n)[i]
      BY <2>4, <2>6, <3>5, <3>8, <3>9, <3>10
    <3>12. SubSeq(types, one, n) = SubSeq(Path(d), one, n)
      <4>1. Len(SubSeq(types, one, n)) = n /\ Len(SubSeq(Path(d), one, n)) = n
        BY <2>4, <3>5, <3>8, <3>9
      <4> QED
        BY <3>8, <3>9, <3>11, <4>1, SeqEqual
    <3> QED
      BY <2>5, <3>4, <3>5, <3>12 DEF IsPrefix
  <2>8. Len(types) \in
            CASE status = "received" -> {0}
              [] status = "awaiting_approval" -> {1}
              [] status = "resuming" -> {2}
              [] status = "rejected" -> {3}
              [] status = "executing" -> {3, 4}
              [] status = "verifying" -> {5}
              [] status = "completed" -> {6}
    BY <1>1, <2>4, <2>7 DEF RInv, ReliabilityTypeOK, Statuses, Terminal, Position
  <2> QED
    BY <2>2, <2>5, <2>7, <2>8 DEF HistoryIsOnePath
<1> QED
  BY <1>1, ReliabilityInv, PTL

\* The initial state is an initial state of the promise.
LEMMA PromiseInit == RInv /\ Init => Promise!Init
BY RowColumns DEF RInv, Init, Promise!Init, Terminal, current_decision

\* An advance of the row is a step of the promise.
LEMMA PromiseStep ==
    ASSUME RInv, RInv', Advance
    PROVE  [Promise!Next]_(Promise!promiseVars)
<1>1. /\ current_decision = approvals[1] /\ current_decision' = approvals'[1]
      /\ NoValue \notin Decisions /\ Payload # NoValue
      /\ DOMAIN approvals = {1}
      /\ status \in Statuses
  <2>1. current_decision' = approvals'[1]
    BY DEF RInv, RowInv, current_decision
  <2> QED
    BY <2>1, RowColumns DEF RInv, ReliabilityTypeOK
<1>2. CASE UNCHANGED rowVars
  BY <1>2 DEF rowVars, Promise!promiseVars, current_decision
<1>3. CASE status = "received" /\ commit("awaiting_approval", "approval_requested", NoValue)
  <2>1. Promise!Propose("operation", Payload)
    BY <1>1, <1>3 DEF Promise!Propose, commit, Terminal, RInv, RowInv
  <2> QED
    BY <2>1 DEF Promise!Next
<1>4. CASE /\ status = "awaiting_approval"
           /\ \E d \in Decisions :
                /\ approvals' = [approvals EXCEPT ![1] = d]
                /\ audit' = Append(audit, [type |-> "approval_recorded", ref |-> d])
           /\ status' = "resuming"
           /\ UNCHANGED <<approval_cycle, work_order>>
  <2>1. PICK d \in Decisions : approvals' = [approvals EXCEPT ![1] = d]
    BY <1>4
  <2>2. Promise!Decide("operation", d)
    BY <1>1, <1>4, <2>1 DEF Promise!Decide, Terminal, RInv, RowInv
  <2> QED
    BY <2>2 DEF Promise!Next, Decisions
<1>5. CASE /\ status = "resuming" /\ approvals[1] = "approved"
           /\ commit("executing", "execution_started", "approved")
  BY <1>1, <1>5 DEF commit, Promise!promiseVars, Terminal
<1>6. CASE /\ status = "resuming" /\ approvals[1] = "rejected"
           /\ commit("rejected", "operation_rejected", "rejected")
  <2>1. Promise!Close("operation")
    BY <1>1, <1>6 DEF Promise!Close, commit, Terminal
  <2> QED
    BY <2>1 DEF Promise!Next
<1>7. CASE status = "executing" /\ work_order = NoValue /\ create
  <2>1. Promise!Write("operation", Payload)
    BY <1>1, <1>7 DEF Promise!Write, create, Terminal, RInv, RowInv
  <2>2. [o \in {"operation"} |-> IF status = "received" THEN NoValue ELSE Payload]["operation"]
            = Payload
    BY <1>7
  <2> QED
    BY <2>1, <2>2 DEF Promise!Next
<1>8. CASE /\ status = "executing" /\ work_order = Payload
           /\ commit("verifying", "verification_started", Payload)
  BY <1>1, <1>8 DEF commit, Promise!promiseVars, Terminal
<1>9. CASE status = "verifying" /\ commit("completed", "operation_completed", Payload)
  <2>1. Promise!Close("operation")
    BY <1>1, <1>9 DEF Promise!Close, commit, Terminal
  <2> QED
    BY <2>1 DEF Promise!Next
<1> QED
  BY <1>2, <1>3, <1>4, <1>5, <1>6, <1>7, <1>8, <1>9 DEF Advance

\* The graph with its checkpoints, crashes and recovering processes implements
\* ApprovedWrite: one decision, one write of the frozen payload after its
\* approval, nothing after the end.
THEOREM ReliabilityImplementsApprovedWrite == ReliabilitySpec => ReliabilityKeepsApprovedWrite
<1>1. RInv /\ Init => Promise!Init
  BY PromiseInit
<1>2. RInv /\ RInv' /\ [Next]_reliabilityVars => [Promise!Next]_(Promise!promiseVars)
  BY NextKeeps, PromiseStep
<1> QED
  BY <1>1, <1>2, ReliabilityInv, PTL DEF ReliabilitySpec, ReliabilityKeepsApprovedWrite, Promise!Spec
=============================================================================
