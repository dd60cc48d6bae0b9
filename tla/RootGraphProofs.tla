-------------------------- MODULE RootGraphProofs --------------------------
(***************************************************************************)
(* Theorems about RootGraph, for every set of operations, signals, bundles *)
(* plans and approvers, any number of crashes and failing calls, and any   *)
(* lag of the checkpointer.                                                *)
(*                                                                         *)
(* What a graph may still do is written in its places: the node and state  *)
(* of the coroutine, of the saved checkpoint and of the unsaved ones.  The *)
(* invariants say what a place promises about the tables, and what of it   *)
(* is left once a thread has lost three checkpoints at once (setBack).     *)
(***************************************************************************)
EXTENDS RootGraph, OperationStoreProofs

-----------------------------------------------------------------------------
(* The inductive invariant for any lag *)

Place(node, state) == [node |-> node, state |-> state]

\* Where a coroutine is.
Here(r) == Place(r.node, r.state)

\* Every place from which the graph of an operation can go on, now or after
\* a crash; r is its coroutine, c its saved checkpoint and u the unsaved ones.
Places(r, c, u) ==
    (IF r = NoValue THEN {} ELSE {Here(r)}) \cup (IF c = NoValue THEN {} ELSE {c})
        \cup {u[i] : i \in 1..Len(u)}

PersistNodes == {"record_evidence", "record_validated_plan", "record_query_assessment",
                 "mark_reporting", "complete_without_replenishment", "mark_awaiting_approval"}
StopNodes == {"approval_interrupt", "interrupted"}
DecidedNodes == {"mark_rejected", "refresh_and_verify", "mark_verifier_aborted", "mark_executing"}
ExecutionNodes == {"execute_work_order", "mark_verifying", "verify_work_order", "mark_completed"}
BoundNodes == StopNodes \cup DecidedNodes \cup ExecutionNodes \cup {"mark_needs_reapproval"}

\* The state holds a binding of its own evidence and plan.
IsBound(st) ==
    /\ st.evidence \in Bundles
    /\ st.plan \in Plans
    /\ st.binding = build_approval_binding(st.evidence, st.plan)

\* What a place promises when its operation has status s.
PlaceOK(p, s) ==
    /\ p \in Checkpoints
    /\ s # "absent"
    /\ p.node \in PersistNodes => p.state.evidence \in Bundles
    /\ p.node = "mark_awaiting_approval" => p.state.plan \in Plans
    /\ p.node \in BoundNodes => IsBound(p.state)
    /\ p.node \in ExecutionNodes => s \in AfterExecution

\* The last checkpoint handed over is the place of a graph about to stop; a
\* graph that does not run has nothing unsaved.
QueueOK(r, c, u) ==
    /\ r = NoValue => u = <<>>
    /\ \A i \in 1..Len(u) : u[i].node # "interrupted"
    /\ r # NoValue /\ r.node = "approval_interrupt" =>
        /\ u = <<>> => c = Here(r)
        /\ u # <<>> => u[Len(u)] = Here(r)

\* A decision about to be handed to the graph finds it interrupted; b is the
\* phase of the process.
DecidedOK(d, r, c, b) ==
    d # NoValue =>
        /\ b = "serving"
        /\ r = NoValue
        /\ c # NoValue /\ c.node = "interrupted"

GraphInv ==
    /\ TypeOK /\ DecisionInv /\ now <= MaxTime
    /\ RootTypeOK
    /\ \A o \in Operations :
        /\ \A p \in Places(run[o], ckpt[o], unsaved[o]) : PlaceOK(p, status[o])
        /\ QueueOK(run[o], ckpt[o], unsaved[o])
        /\ DecidedOK(decided[o], run[o], ckpt[o], boot)
        /\ inflight[o] # NoValue \/ work_order_of(o) # {} => status[o] \in AfterExecution
        /\ ResultOK(o)

-----------------------------------------------------------------------------
(* How the places of a graph move *)

\* The places, one by one.
LEMMA InPlaces ==
    ASSUME NEW r, NEW c, NEW u, NEW p
    PROVE  p \in Places(r, c, u) <=>
               \/ r # NoValue /\ p = Here(r)
               \/ c # NoValue /\ p = c
               \/ \E i \in 1..Len(u) : p = u[i]
BY DEF Places

\* A node that ends adds the place of its successor.
LEMMA PlacesGrow ==
    ASSUME NEW S, NEW u \in Seq(S), NEW r, NEW q, NEW c, q # NoValue, Here(q) \in S,
           NEW v, v = u \/ v = Append(u, Here(q)),
           NEW p \in Places(q, c, v)
    PROVE  p \in Places(r, c, u) \/ p = Here(q)
<1>1. CASE q # NoValue /\ p = Here(q)
  BY <1>1
<1>2. CASE c # NoValue /\ p = c
  BY <1>2, InPlaces
<1>3. CASE \E i \in 1..Len(v) : p = v[i]
  <2>1. PICK i \in 1..Len(v) : p = v[i]
    BY <1>3
  <2>2. CASE v = u
    BY <2>1, <2>2, InPlaces
  <2>3. CASE v = Append(u, Here(q))
    <3>1. Len(v) = Len(u) + 1 /\ v[Len(u) + 1] = Here(q) /\ \A j \in 1..Len(u) : v[j] = u[j]
      BY <2>3
    <3>2. CASE i \in 1..Len(u)
      BY <2>1, <3>1, <3>2, InPlaces
    <3>3. CASE i = Len(u) + 1
      BY <2>1, <3>1, <3>3
    <3> QED
      BY <2>1, <3>1, <3>2, <3>3
  <2> QED
    BY <2>2, <2>3
<1> QED
  BY <1>1, <1>2, <1>3, InPlaces

\* Saving a checkpoint adds no place.
LEMMA PlacesSaved ==
    ASSUME NEW S, NEW u \in Seq(S), u # <<>>, NEW r, NEW c, NEW p \in Places(r, Head(u), Tail(u))
    PROVE  p \in Places(r, c, u)
<1>1. CASE r # NoValue /\ p = Here(r)
  BY <1>1, InPlaces
<1>2. CASE p = Head(u)
  <2>1. p = u[1] /\ 1 \in 1..Len(u)
    BY <1>2
  <2> QED
    BY <2>1, InPlaces
<1>3. CASE \E i \in 1..Len(Tail(u)) : p = Tail(u)[i]
  <2>1. PICK i \in 1..Len(Tail(u)) : p = Tail(u)[i]
    BY <1>3
  <2>2. i + 1 \in 1..Len(u) /\ p = u[i + 1]
    BY <2>1
  <2> QED
    BY <2>2, InPlaces
<1>4. PICK h, t : h = Head(u) /\ t = Tail(u)
  OBVIOUS
<1>5. p \in Places(r, h, t)
  BY <1>4
<1>6. \/ r # NoValue /\ p = Here(r)
      \/ p = h
      \/ \E i \in 1..Len(t) : p = t[i]
  BY <1>5, InPlaces
<1> QED
  BY <1>1, <1>2, <1>3, <1>4, <1>6

\* The graph of o goes on to another node: it hands a checkpoint over, or it
\* is in the middle of persist_policy_result.
Lands(o) ==
    /\ run[o] # NoValue /\ run[o].node \notin {"approval_interrupt", "END"}
    /\ run'[o] # NoValue
    /\ \/ unsaved'[o] = Append(unsaved[o], Here(run'[o])) /\ Len(unsaved[o]) < MaxLag
       \/ unsaved'[o] = unsaved[o] /\ {run[o].node, run'[o].node} \subseteq PersistNodes
    /\ \A q \in Operations : q # o => run'[q] = run[q] /\ unsaved'[q] = unsaved[q]
    /\ run' \in [Operations -> Runs \cup {NoValue}]
    /\ unsaved' \in [Operations -> Seq(Checkpoints)]
    /\ UNCHANGED <<ckpt, decided, boot, todo, crashes, setBack>>
    /\ capturing' \subseteq Operations
    /\ faults' \in faults..MaxFaults

\* The names of the nodes.
LEMMA NodeNames ==
    /\ "interrupted" \notin Nodes
    /\ PersistNodes \subseteq Nodes
    /\ DecidedNodes \subseteq Nodes
    /\ ExecutionNodes \subseteq Nodes
    /\ StopNodes \cap (PersistNodes \cup DecidedNodes \cup ExecutionNodes) = {}
    /\ PersistNodes \cap (DecidedNodes \cup ExecutionNodes) = {}
    /\ {"encode_goal", "begin_operation", "investigate", "approval_interrupt",
        "mark_needs_reapproval", "mark_failed", "END"}
           \subseteq Nodes \ (PersistNodes \cup DecidedNodes \cup ExecutionNodes)
BY DEF Nodes, PersistNodes, StopNodes, DecidedNodes, ExecutionNodes

\* The end of a node.
LEMMA FinishLands ==
    ASSUME RootTypeOK, NEW o \in Operations, NEW n \in Nodes, NEW s \in GraphStates,
           run[o] # NoValue, run[o].node \notin {"approval_interrupt", "END"},
           finish(o, n, s),
           UNCHANGED <<ckpt, decided, boot, todo, crashes, setBack>>,
           capturing' \subseteq Operations, faults' \in faults..MaxFaults
    PROVE  Lands(o) /\ run'[o].node = n /\ run'[o].state = s
<1>1. run[o] \in Runs
  BY DEF RootTypeOK
<1>2. [[run[o] EXCEPT !.node = n] EXCEPT !.state = s] \in Runs
  BY <1>1 DEF Runs
<1>3. /\ run' = [run EXCEPT ![o] = [[run[o] EXCEPT !.node = n] EXCEPT !.state = s]]
      /\ unsaved' = [unsaved EXCEPT ![o] = Append(unsaved[o], Place(n, s))]
      /\ Len(unsaved[o]) < MaxLag
  BY DEF finish, RootTypeOK, Place
<1>4. run'[o] = [[run[o] EXCEPT !.node = n] EXCEPT !.state = s]
  BY <1>3 DEF RootTypeOK
<1>5. run'[o] \in Runs /\ run'[o].node = n /\ run'[o].state = s
  BY <1>1, <1>2, <1>4 DEF Runs
<1>6. run'[o] # NoValue
  BY <1>5, NoThreadAssumption
<1>7. Here(run'[o]) = Place(n, s)
  BY <1>5 DEF Here
<1>8. Place(n, s) \in Checkpoints
  BY DEF Place, Checkpoints
<1>9. Append(unsaved[o], Place(n, s)) \in Seq(Checkpoints)
  BY <1>8 DEF RootTypeOK
<1>10. /\ unsaved' \in [Operations -> Seq(Checkpoints)]
       /\ unsaved'[o] = Append(unsaved[o], Here(run'[o]))
       /\ \A q \in Operations : q # o => unsaved'[q] = unsaved[q]
  BY <1>3, <1>7, <1>9 DEF RootTypeOK
<1>11. /\ run' \in [Operations -> Runs \cup {NoValue}]
       /\ \A q \in Operations : q # o => run'[q] = run[q]
  BY <1>2, <1>3 DEF RootTypeOK
<1> QED
  BY <1>3, <1>5, <1>6, <1>10, <1>11 DEF Lands

\* The next statement of persist_policy_result.
LEMMA ContinueLands ==
    ASSUME RootTypeOK, NEW o \in Operations, NEW n \in PersistNodes,
           run[o] # NoValue, run[o].node \in PersistNodes,
           continue(o, n),
           UNCHANGED <<ckpt, decided, boot, todo, crashes, setBack>>,
           capturing' \subseteq Operations, faults' \in faults..MaxFaults
    PROVE  Lands(o) /\ run'[o].node = n /\ run'[o].state = run[o].state
<1>1. run[o] \in Runs /\ n \in Nodes
  BY NodeNames DEF RootTypeOK
<1>2. [run[o] EXCEPT !.node = n] \in Runs
  BY <1>1 DEF Runs
<1>3. run' = [run EXCEPT ![o] = [run[o] EXCEPT !.node = n]] /\ unsaved' = unsaved
  BY DEF continue, RootTypeOK
<1>4. run'[o] = [run[o] EXCEPT !.node = n]
  BY <1>3 DEF RootTypeOK
<1>5. run'[o] \in Runs /\ run'[o].node = n /\ run'[o].state = run[o].state
  BY <1>1, <1>2, <1>4 DEF Runs
<1>6. run'[o] # NoValue
  BY <1>5, NoThreadAssumption
<1>7. /\ run' \in [Operations -> Runs \cup {NoValue}]
      /\ \A q \in Operations : q # o => run'[q] = run[q]
  BY <1>2, <1>3 DEF RootTypeOK
<1>8. run[o].node \notin {"approval_interrupt", "END"}
  BY DEF PersistNodes
<1> QED
  BY <1>3, <1>5, <1>6, <1>7, <1>8 DEF Lands, RootTypeOK

\* The place of a running graph.
LEMMA RunningPlace ==
    ASSUME GraphInv, NEW o \in Operations, run[o] # NoValue
    PROVE  /\ run[o] \in Runs
           /\ Here(run[o]) \in Places(run[o], ckpt[o], unsaved[o])
           /\ PlaceOK(Here(run[o]), status[o])
           /\ Here(run[o]).node = run[o].node
           /\ Here(run[o]).state = run[o].state
           /\ run[o].node \in Nodes
           /\ run[o].state \in GraphStates
<1>1. run[o] \in Runs
  BY DEF GraphInv, RootTypeOK
<1>2. Here(run[o]) \in Places(run[o], ckpt[o], unsaved[o])
  BY InPlaces
<1> QED
  BY <1>1, <1>2 DEF GraphInv, Runs, Here, Place

\* A place outside of the interrupt, the decision and the execution.
LEMMA PlainPlace ==
    ASSUME NEW s \in GraphStates, NEW t, t # "absent",
           NEW n \in {"encode_goal", "begin_operation", "investigate", "mark_failed", "END"}
    PROVE  PlaceOK(Place(n, s), t)
<1>1. Place(n, s) \in Checkpoints /\ Place(n, s).node = n
  BY NodeNames DEF Checkpoints, Place
<1>2. n \notin PersistNodes \cup BoundNodes
  BY DEF PersistNodes, BoundNodes, StopNodes, DecidedNodes, ExecutionNodes
<1> QED
  BY <1>1, <1>2 DEF PlaceOK, BoundNodes, PersistNodes

\* What a node that ends has to show.
NodeStep(o) ==
    /\ [Next]_storeVars
    /\ Lands(o)
    /\ PlaceOK(Here(run'[o]), status'[o])

\* A node ends in the place it is meant to reach, or in mark_failed.
LEMMA Landing ==
    ASSUME GraphInv, NEW o \in Operations, NEW n \in Nodes, NEW s \in GraphStates,
           [Next]_storeVars,
           run[o] # NoValue, run[o].node \notin {"approval_interrupt", "END"},
           finish(o, n, s) \/ fail(o),
           UNCHANGED <<ckpt, decided, capturing, boot, todo, crashes, setBack>>,
           faults' = faults \/ (faults < MaxFaults /\ faults' = faults + 1),
           PlaceOK(Place(n, s), status'[o])
    PROVE  NodeStep(o)
<1>1. RootTypeOK /\ TypeOK /\ run[o].state \in GraphStates /\ "mark_failed" \in Nodes
  BY RunningPlace, NodeNames DEF GraphInv
<1>2. capturing' \subseteq Operations /\ faults' \in faults..MaxFaults
  BY RootAssumption DEF GraphInv, RootTypeOK
<1>3. CASE finish(o, n, s)
  <2>1. Lands(o) /\ run'[o].node = n /\ run'[o].state = s
    BY <1>1, <1>2, <1>3, FinishLands
  <2> QED
    BY <2>1 DEF NodeStep, Here
<1>4. CASE fail(o)
  <2>1. Lands(o) /\ run'[o].node = "mark_failed" /\ run'[o].state = run[o].state
    BY <1>1, <1>2, <1>4, FinishLands DEF fail
  <2>2. status'[o] # "absent"
    BY <1>1, RunningPlace, NextMoves DEF PlaceOK, StoreMoves
  <2>3. PlaceOK(Place("mark_failed", run[o].state), status'[o])
    BY <1>1, <2>2, PlainPlace
  <2> QED
    BY <2>1, <2>3 DEF NodeStep, Here
<1> QED
  BY <1>3, <1>4

\* A statement of persist_policy_result leads to the next one, or to
\* mark_failed.
LEMMA PersistLanding ==
    ASSUME GraphInv, NEW o \in Operations, NEW n \in PersistNodes,
           [Next]_storeVars,
           run[o] # NoValue, run[o].node \in PersistNodes,
           continue(o, n) \/ fail(o),
           UNCHANGED <<ckpt, decided, capturing, boot, todo, crashes, setBack>>,
           faults' = faults \/ (faults < MaxFaults /\ faults' = faults + 1),
           n = "mark_awaiting_approval" => run[o].state.plan \in Plans
    PROVE  NodeStep(o)
<1>1. /\ RootTypeOK /\ TypeOK
      /\ run[o].node \notin {"approval_interrupt", "END"}
      /\ run[o].state \in GraphStates
      /\ status'[o] # "absent"
  BY RunningPlace, NodeNames, NextMoves DEF GraphInv, PlaceOK, StoreMoves
<1>2. capturing' \subseteq Operations /\ faults' \in faults..MaxFaults
  BY RootAssumption DEF GraphInv, RootTypeOK
<1>3. CASE continue(o, n)
  <2>1. Lands(o) /\ run'[o].node = n /\ run'[o].state = run[o].state
    BY <1>1, <1>2, <1>3, ContinueLands
  <2>2. Here(run'[o]) \in Checkpoints /\ Here(run'[o]).node = n
        /\ Here(run'[o]).state = run[o].state
    BY <1>1, <2>1, NodeNames DEF Here, Place, Checkpoints
  <2>3. run[o].state.evidence \in Bundles
    BY RunningPlace DEF PlaceOK
  <2>4. n \notin BoundNodes /\ n \notin ExecutionNodes
    BY DEF PersistNodes, BoundNodes, StopNodes, DecidedNodes, ExecutionNodes
  <2> QED
    BY <1>1, <2>1, <2>2, <2>3, <2>4 DEF NodeStep, PlaceOK
<1>4. CASE fail(o)
  <2>1. PlaceOK(Place("mark_failed", run[o].state), status'[o])
    BY <1>1, PlainPlace
  <2> QED
    BY <1>1, <1>4, <2>1, Landing, NodeNames DEF fail
<1> QED
  BY <1>3, <1>4

\* encode_goal, begin_operation and investigate.
LEMMA InvestigationStep ==
    ASSUME GraphInv, NEW o \in Operations,
           encode_goal(o) \/ begin_operation(o) \/ investigate(o)
    PROVE  NodeStep(o) /\ UNCHANGED <<workOrders, inflight>>
<1>1. /\ run[o] # NoValue /\ run[o].node \notin {"approval_interrupt", "END"}
      /\ UNCHANGED <<ckpt, decided, capturing, inflight, boot, todo, crashes, setBack>>
      /\ faults' = faults \/ (faults < MaxFaults /\ faults' = faults + 1)
  BY DEF encode_goal, begin_operation, investigate, running, ReadOnly, Call
<1>2. [Next]_storeVars
  BY DEF encode_goal, begin_operation, investigate, ReadOnly, Call, Next, InvestigationNext
<1>3. workOrders' = workOrders
  BY DEF encode_goal, begin_operation, investigate, ReadOnly, Call, storeVars,
         mark_gathering_evidence, transition
<1>4. run[o].state \in GraphStates /\ status'[o] # "absent"
  BY <1>1, <1>2, RunningPlace, NextMoves DEF GraphInv, PlaceOK, StoreMoves
<1>5. CASE encode_goal(o)
  <2>1. finish(o, "begin_operation", run[o].state) \/ fail(o)
    BY <1>5 DEF encode_goal, ReadOnly
  <2> QED
    BY <1>1, <1>2, <1>3, <1>4, <2>1, Landing, PlainPlace, NodeNames
<1>6. CASE begin_operation(o)
  <2>1. finish(o, "investigate", run[o].state) \/ fail(o)
    BY <1>6 DEF begin_operation, Call
  <2> QED
    BY <1>1, <1>2, <1>3, <1>4, <2>1, Landing, PlainPlace, NodeNames
<1>7. CASE investigate(o)
  <2>1. PICK b \in Bundles :
          ReadOnly(o, finish(o, "record_evidence",
                             [run[o].state EXCEPT !.evidence = b, !.plan = planned(o, b)]))
    BY <1>7 DEF investigate
  <2>2. PICK s : s = [run[o].state EXCEPT !.evidence = b, !.plan = planned(o, b)]
    OBVIOUS
  <2>3. planned(o, b) \in Plans \cup {NoValue}
    BY StoreAssumption DEF planned
  <2>4. s \in GraphStates /\ s.evidence = b
    BY <1>4, <2>2, <2>3 DEF GraphStates
  <2>5. finish(o, "record_evidence", s) \/ fail(o)
    BY <2>1, <2>2 DEF ReadOnly
  <2>6. "record_evidence" \in Nodes \ (BoundNodes \cup {"mark_awaiting_approval"})
    BY DEF Nodes, BoundNodes, StopNodes, DecidedNodes, ExecutionNodes
  <2>7. PlaceOK(Place("record_evidence", s), status'[o])
    BY <1>4, <2>4, <2>6 DEF PlaceOK, Place, Checkpoints, BoundNodes
  <2> QED
    BY <1>1, <1>2, <1>3, <2>4, <2>5, <2>6, <2>7, Landing
<1> QED
  BY <1>5, <1>6, <1>7

\* The statements of persist_policy_result before its last one.
LEMMA PersistStep ==
    ASSUME GraphInv, NEW o \in Operations,
           \/ persist_record_evidence(o) \/ persist_record_validated_plan(o)
           \/ persist_record_query_assessment(o) \/ persist_mark_reporting(o)
    PROVE  NodeStep(o) /\ UNCHANGED <<workOrders, inflight>>
<1>1. /\ run[o] # NoValue /\ run[o].node \in PersistNodes
      /\ UNCHANGED <<ckpt, decided, capturing, inflight, boot, todo, crashes, setBack>>
      /\ faults' = faults \/ (faults < MaxFaults /\ faults' = faults + 1)
  BY DEF persist_record_evidence, persist_record_validated_plan, PersistNodes,
         persist_record_query_assessment, persist_mark_reporting, running, Call
<1>2. PICK st : st = run[o].state
  OBVIOUS
<1>3. st \in GraphStates /\ st.evidence \in Bundles /\ st.plan \in Plans \cup {NoValue}
  BY <1>1, <1>2, RunningPlace DEF PlaceOK, GraphStates
<1>4. CASE persist_record_evidence(o)
  <2>1. record_evidence(o, st.evidence) \/ UNCHANGED storeVars
    BY <1>2, <1>4 DEF persist_record_evidence, Call
  <2>2. [Next]_storeVars
    BY <1>3, <2>1 DEF Next, InvestigationNext
  <2>3. workOrders' = workOrders
    BY <2>1 DEF record_evidence, transition, storeVars
  <2>4. \/ continue(o, "record_query_assessment") \/ continue(o, "record_validated_plan")
        \/ fail(o)
    BY <1>4 DEF persist_record_evidence, Call
  <2> QED
    BY <1>1, <2>2, <2>3, <2>4, PersistLanding DEF PersistNodes
<1>5. CASE persist_record_validated_plan(o)
  <2>1. record_validated_plan(o, st.evidence, st.plan) \/ UNCHANGED storeVars
    BY <1>2, <1>5 DEF persist_record_validated_plan, Call
  <2>2. [Next]_storeVars
    BY <1>3, <2>1 DEF Next, InvestigationNext
  <2>3. workOrders' = workOrders
    BY <2>1 DEF record_validated_plan, transition, storeVars
  <2>4. \/ continue(o, "mark_reporting")
        \/ st.plan # NoValue /\ continue(o, "mark_awaiting_approval")
        \/ fail(o)
    BY <1>2, <1>5 DEF persist_record_validated_plan, Call
  <2> QED
    BY <1>1, <1>2, <1>3, <2>2, <2>3, <2>4, PersistLanding DEF PersistNodes
<1>6. CASE persist_record_query_assessment(o)
  <2>1. record_query_assessment(o, st.evidence) \/ UNCHANGED storeVars
    BY <1>2, <1>6 DEF persist_record_query_assessment, Call
  <2>2. [Next]_storeVars
    BY <1>3, <2>1 DEF Next, InvestigationNext
  <2>3. workOrders' = workOrders
    BY <2>1 DEF record_query_assessment, transition, storeVars
  <2>4. continue(o, "mark_reporting") \/ fail(o)
    BY <1>6 DEF persist_record_query_assessment, Call
  <2> QED
    BY <1>1, <2>2, <2>3, <2>4, PersistLanding DEF PersistNodes
<1>7. CASE persist_mark_reporting(o)
  <2>1. mark_reporting(o) \/ UNCHANGED storeVars
    BY <1>7 DEF persist_mark_reporting, Call
  <2>2. [Next]_storeVars
    BY <2>1 DEF Next, InvestigationNext
  <2>3. workOrders' = workOrders
    BY <2>1 DEF mark_reporting, transition, storeVars
  <2>4. continue(o, "complete_without_replenishment") \/ fail(o)
    BY <1>7 DEF persist_mark_reporting, Call
  <2> QED
    BY <1>1, <2>2, <2>3, <2>4, PersistLanding DEF PersistNodes
<1> QED
  BY <1>4, <1>5, <1>6, <1>7

\* The last statement of persist_policy_result, in either branch.
LEMMA PersistEndStep ==
    ASSUME GraphInv, NEW o \in Operations,
           persist_complete(o) \/ persist_mark_awaiting_approval(o)
    PROVE  NodeStep(o) /\ UNCHANGED <<workOrders, inflight>>
<1>1. /\ run[o] # NoValue /\ run[o].node \in PersistNodes
      /\ UNCHANGED <<ckpt, decided, capturing, inflight, boot, todo, crashes, setBack>>
      /\ faults' = faults \/ (faults < MaxFaults /\ faults' = faults + 1)
  BY DEF persist_complete, persist_mark_awaiting_approval, running, Call, PersistNodes
<1>2. run[o].node \notin {"approval_interrupt", "END"}
  BY <1>1 DEF PersistNodes
<1>3. PICK st : st = run[o].state
  OBVIOUS
<1>4. st \in GraphStates /\ st.evidence \in Bundles
  BY <1>1, <1>3, RunningPlace DEF PlaceOK
<1>5. CASE persist_complete(o)
  <2>1. complete_without_replenishment(o, no_action_outcome(o)) \/ UNCHANGED storeVars
    BY <1>5 DEF persist_complete, Call
  <2>2. no_action_outcome(o) \in NoActionOutcomes
    BY DEF no_action_outcome, NoActionOutcomes
  <2>3. [Next]_storeVars
    BY <2>1, <2>2 DEF Next, InvestigationNext
  <2>4. workOrders' = workOrders
    BY <2>1 DEF complete_without_replenishment, transition, storeVars
  <2>5. finish(o, "END", st) \/ fail(o)
    BY <1>3, <1>5 DEF persist_complete, Call
  <2>6. status'[o] # "absent"
    BY <1>1, <2>3, RunningPlace, NextMoves DEF GraphInv, PlaceOK, StoreMoves
  <2> QED
    BY <1>1, <1>2, <1>4, <2>3, <2>4, <2>5, <2>6, Landing, PlainPlace, NodeNames
<1>6. CASE persist_mark_awaiting_approval(o)
  <2>1. PICK b, d : b = build_approval_binding(st.evidence, st.plan) /\ d = now + ApprovalTtl
    OBVIOUS
  <2>2. st.plan \in Plans
    BY <1>1, <1>3, <1>6, RunningPlace DEF PlaceOK, persist_mark_awaiting_approval, running
  <2>3. mark_awaiting_approval(o, b, d) \/ UNCHANGED storeVars
    BY <1>3, <1>6, <2>1 DEF persist_mark_awaiting_approval, Call
  <2>4. b \in Bindings
    BY <1>4, <2>1, <2>2 DEF build_approval_binding, Bindings
  <2>5. d \in 1..MaxDeadline
    BY <2>1, RootAssumption, StoreAssumption DEF GraphInv, TypeOK
  <2>6. [Next]_storeVars
    BY <2>3, <2>4, <2>5 DEF Next, DecisionNext
  <2>7. workOrders' = workOrders
    BY <2>3 DEF mark_awaiting_approval, transition, storeVars
  <2>8. PICK s : s = [st EXCEPT !.binding = b]
    OBVIOUS
  <2>9. s \in GraphStates /\ IsBound(s)
    BY <1>4, <2>1, <2>2, <2>4, <2>8 DEF GraphStates, IsBound
  <2>10. finish(o, "approval_interrupt", s) \/ fail(o)
    BY <1>3, <1>6, <2>1, <2>8 DEF persist_mark_awaiting_approval, Call
  <2>11. status'[o] # "absent"
    BY <1>1, <2>6, RunningPlace, NextMoves DEF GraphInv, PlaceOK, StoreMoves
  <2>12. "approval_interrupt" \notin PersistNodes \cup ExecutionNodes
    BY DEF PersistNodes, ExecutionNodes
  <2>13. PlaceOK(Place("approval_interrupt", s), status'[o])
    BY <2>9, <2>11, <2>12, NodeNames DEF PlaceOK, Place, Checkpoints, PersistNodes
  <2> QED
    BY <1>1, <1>2, <2>6, <2>7, <2>9, <2>10, <2>13, Landing, NodeNames
<1> QED
  BY <1>5, <1>6

\* The nodes after a decision that end the operation, and the one that fails
\* it.
LEMMA EndingStep ==
    ASSUME GraphInv, NEW o \in Operations,
           \/ graph_mark_rejected(o) \/ graph_mark_verifier_aborted(o)
           \/ graph_mark_completed(o) \/ graph_mark_failed(o)
    PROVE  NodeStep(o) /\ UNCHANGED <<workOrders, inflight>>
<1>1. /\ run[o] # NoValue /\ run[o].node \notin {"approval_interrupt", "END"}
      /\ UNCHANGED <<ckpt, decided, capturing, inflight, boot, todo, crashes, setBack>>
      /\ faults' = faults \/ (faults < MaxFaults /\ faults' = faults + 1)
  BY DEF graph_mark_rejected, graph_mark_verifier_aborted, graph_mark_completed,
         graph_mark_failed, running, Call
<1>2. finish(o, "END", run[o].state) \/ fail(o)
  BY DEF graph_mark_rejected, graph_mark_verifier_aborted, graph_mark_completed,
         graph_mark_failed, Call
<1>3. PICK a, w : a = run[o].state.approval /\ w = run[o].state.work
  OBVIOUS
<1>4. \/ approval_locator(o, a, "rejected") /\ mark_rejected(o, a)
      \/ approval_locator(o, a, "approved") /\ mark_verifier_aborted(o, a)
      \/ work_order_locator(o, w) /\ mark_completed(o, w)
      \/ \E e \in Errors : mark_failed(o, e)
      \/ UNCHANGED storeVars
  <2>1. CASE graph_mark_rejected(o)
    BY <1>3, <2>1 DEF graph_mark_rejected, Call
  <2>2. CASE graph_mark_verifier_aborted(o)
    BY <1>3, <2>2 DEF graph_mark_verifier_aborted, Call
  <2>3. CASE graph_mark_completed(o)
    BY <1>3, <2>3 DEF graph_mark_completed, Call
  <2>4. CASE graph_mark_failed(o)
    BY <2>4 DEF graph_mark_failed
  <2> QED
    BY <2>1, <2>2, <2>3, <2>4
<1>5. [Next]_storeVars
  BY <1>4 DEF Next, DecisionNext, ExecutionNext, approval_locator, work_order_locator
<1>6. workOrders' = workOrders
  BY <1>4 DEF mark_rejected, mark_verifier_aborted, mark_completed, mark_failed,
              transition, storeVars
<1>7. run[o].state \in GraphStates /\ status'[o] # "absent"
  BY <1>1, <1>5, RunningPlace, NextMoves DEF GraphInv, PlaceOK, StoreMoves
<1> QED
  BY <1>1, <1>2, <1>5, <1>6, <1>7, Landing, PlainPlace, NodeNames

\* A place with a bound state, before or after the execution has begun.
LEMMA BoundPlace ==
    ASSUME NEW s \in GraphStates, IsBound(s), NEW t, t # "absent",
           NEW n \in BoundNodes \ {"interrupted"}, n \in ExecutionNodes => t \in AfterExecution
    PROVE  n \in Nodes /\ PlaceOK(Place(n, s), t)
<1>1. n \in Nodes /\ n \notin PersistNodes
  BY DEF Nodes, BoundNodes, StopNodes, DecidedNodes, ExecutionNodes, PersistNodes
<1>2. /\ Place(n, s) \in Checkpoints
      /\ Place(n, s).node = n
      /\ Place(n, s).state = s
  BY <1>1 DEF Place, Checkpoints
<1> QED
  BY <1>1, <1>2 DEF PlaceOK, PersistNodes

\* The node after refresh_and_verify, and what it takes along.
LEMMA VerifiedPlace ==
    ASSUME GraphInv, NEW o \in Operations, refresh_and_verify(o)
    PROVE  \/ fail(o)
           \/ \E n \in {"mark_verifier_aborted", "mark_executing"} : finish(o, n, run[o].state)
           \/ \E s \in GraphStates :
                /\ IsBound(s)
                /\ finish(o, "mark_needs_reapproval", s)
<1>1. running(o, "refresh_and_verify")
  BY DEF refresh_and_verify
<1>2. PICK st : st = run[o].state
  OBVIOUS
<1>3. st \in GraphStates /\ IsBound(st)
  BY <1>1, <1>2, RunningPlace DEF running, PlaceOK, BoundNodes, DecidedNodes
<1>4. PICK b \in Bundles \ {st.evidence}, verdict \in {"proceed", "abort", "escalate"} :
        LET plan == planned(o, b)
            binding == build_approval_binding(b, plan)
            route == IF plan = NoValue THEN "abort"
                     ELSE choose_verification_route(
                            verdict, binding_facts(binding) = binding_facts(st.binding))
            refreshed == [st EXCEPT !.evidence = b, !.plan = plan, !.binding = binding]
        IN  ReadOnly(o, finish(o, route_verification(route),
                                  IF route = "reapproval" THEN refreshed ELSE st))
  <2> DEFINE Reads(s) == \E b \in Bundles \ {s.evidence}, verdict \in {"proceed", "abort", "escalate"} :
        LET plan == planned(o, b)
            binding == build_approval_binding(b, plan)
            route == IF plan = NoValue THEN "abort"
                     ELSE choose_verification_route(
                            verdict, binding_facts(binding) = binding_facts(s.binding))
            refreshed == [s EXCEPT !.evidence = b, !.plan = plan, !.binding = binding]
        IN  ReadOnly(o, finish(o, route_verification(route),
                                  IF route = "reapproval" THEN refreshed ELSE s))
  <2>1. Reads(run[o].state)
    BY Zenon DEF refresh_and_verify
  <2>2. Reads(st)
    <3> HIDE DEF Reads
    <3> QED
      BY <1>2, <2>1
  <2> QED
    BY <2>2, Zenon
<1>5. PICK plan : plan = planned(o, b)
  OBVIOUS
<1>6. plan \in Plans \cup {NoValue}
  BY <1>5, StoreAssumption DEF planned
<1>7. PICK binding : binding = build_approval_binding(b, plan)
  OBVIOUS
<1>8. PICK same : same = choose_verification_route(
                            verdict, binding_facts(binding) = binding_facts(st.binding))
  OBVIOUS
<1>9. same \in {"abort", "reapproval", "proceed"}
  BY <1>8 DEF choose_verification_route
<1>10. PICK route : route = IF plan = NoValue THEN "abort" ELSE same
  OBVIOUS
<1>11. PICK refreshed : refreshed = [st EXCEPT !.evidence = b, !.plan = plan, !.binding = binding]
  OBVIOUS
<1>12. ReadOnly(o, finish(o, route_verification(route),
                             IF route = "reapproval" THEN refreshed ELSE st))
  <2>1. LET p == planned(o, b)
            g == build_approval_binding(b, p)
            r == IF p = NoValue THEN "abort"
                 ELSE choose_verification_route(verdict, binding_facts(g) = binding_facts(st.binding))
            s == [st EXCEPT !.evidence = b, !.plan = p, !.binding = g]
        IN  ReadOnly(o, finish(o, route_verification(r), IF r = "reapproval" THEN s ELSE st))
    BY <1>4, Zenon
  <2>2. LET g == build_approval_binding(b, plan)
            r == IF plan = NoValue THEN "abort"
                 ELSE choose_verification_route(verdict, binding_facts(g) = binding_facts(st.binding))
            s == [st EXCEPT !.evidence = b, !.plan = plan, !.binding = g]
        IN  ReadOnly(o, finish(o, route_verification(r), IF r = "reapproval" THEN s ELSE st))
    BY <1>5, <2>1, Zenon
  <2>3. LET r == IF plan = NoValue THEN "abort" ELSE same
        IN  ReadOnly(o, finish(o, route_verification(r), IF r = "reapproval" THEN refreshed ELSE st))
    BY <1>7, <1>8, <1>11, <2>2, Zenon
  <2> QED
    BY <1>10, <2>3, Zenon
<1>13. finish(o, route_verification(route), IF route = "reapproval" THEN refreshed ELSE st)
       \/ fail(o)
  BY <1>12 DEF ReadOnly
<1>14. CASE route = "reapproval"
  <2>1. plan \in Plans
    BY <1>6, <1>10, <1>14
  <2>2. binding \in Bindings
    BY <1>7, <2>1 DEF build_approval_binding, Bindings
  <2>3. refreshed \in GraphStates /\ IsBound(refreshed)
    BY <1>3, <1>7, <1>11, <2>1, <2>2 DEF GraphStates, IsBound
  <2>4. route_verification(route) = "mark_needs_reapproval"
    BY <1>14 DEF route_verification
  <2> QED
    BY <1>13, <1>14, <2>3, <2>4
<1>15. CASE route # "reapproval"
  <2>1. route_verification(route) \in {"mark_verifier_aborted", "mark_executing"}
    BY <1>9, <1>10, <1>15 DEF route_verification
  <2> QED
    BY <1>2, <1>13, <1>15, <2>1
<1> QED
  BY <1>14, <1>15

\* The nodes after an approval that lead on.
LEMMA ApprovedStep ==
    ASSUME GraphInv, NEW o \in Operations,
           \/ refresh_and_verify(o) \/ graph_mark_needs_reapproval(o)
           \/ graph_mark_executing(o)
    PROVE  NodeStep(o) /\ UNCHANGED <<workOrders, inflight>>
<1>1. /\ run[o] # NoValue
      /\ run[o].node \in {"refresh_and_verify", "mark_needs_reapproval", "mark_executing"}
      /\ UNCHANGED <<ckpt, decided, capturing, inflight, boot, todo, crashes, setBack>>
      /\ faults' = faults \/ (faults < MaxFaults /\ faults' = faults + 1)
  <2>1. CASE refresh_and_verify(o)
    <3>1. running(o, "refresh_and_verify")
      BY <2>1, Zenon DEF refresh_and_verify
    <3>2. /\ UNCHANGED <<storeVars, ckpt, decided, capturing, inflight, boot, todo,
                         crashes, setBack>>
          /\ UNCHANGED faults
      BY <2>1, Zenon DEF refresh_and_verify, ReadOnly
    <3> QED
      BY <3>1, <3>2 DEF running
  <2>2. CASE graph_mark_needs_reapproval(o)
    BY <2>2 DEF graph_mark_needs_reapproval, running, Call
  <2>3. CASE graph_mark_executing(o)
    BY <2>3 DEF graph_mark_executing, running, Call
  <2> QED
    BY <2>1, <2>2, <2>3
<1>2. PICK st : st = run[o].state
  OBVIOUS
<1>3. /\ st \in GraphStates /\ IsBound(st)
      /\ run[o].node \notin {"approval_interrupt", "END"}
  BY <1>1, <1>2, RunningPlace DEF PlaceOK, BoundNodes, DecidedNodes
<1>4. /\ {"mark_verifier_aborted", "mark_executing", "mark_needs_reapproval",
          "approval_interrupt"} \subseteq BoundNodes \ ({"interrupted"} \cup ExecutionNodes)
      /\ "execute_work_order" \in (BoundNodes \cap ExecutionNodes) \ {"interrupted"}
  BY DEF BoundNodes, DecidedNodes, StopNodes, ExecutionNodes
<1>5. [Next]_storeVars => status'[o] # "absent"
  BY <1>1, RunningPlace, NextMoves DEF GraphInv, PlaceOK, StoreMoves
<1>6. CASE refresh_and_verify(o)
  <2>1. UNCHANGED storeVars
    BY <1>6 DEF refresh_and_verify, ReadOnly
  <2>2. [Next]_storeVars /\ workOrders' = workOrders
    BY <2>1 DEF storeVars
  <2>3. CASE fail(o)
    <3>1. PlaceOK(Place("mark_failed", st), status'[o]) /\ "mark_failed" \in Nodes
      BY <1>3, <1>5, <2>2, PlainPlace, NodeNames
    <3> QED
      BY <1>1, <1>2, <1>3, <2>2, <2>3, <3>1, Landing
  <2>4. CASE \E n \in {"mark_verifier_aborted", "mark_executing"} : finish(o, n, run[o].state)
    <3>1. PICK n \in {"mark_verifier_aborted", "mark_executing"} : finish(o, n, st)
      BY <1>2, <2>4
    <3>2. n \in Nodes /\ PlaceOK(Place(n, st), status'[o])
      BY <1>3, <1>4, <1>5, <2>2, BoundPlace
    <3> QED
      BY <1>1, <1>3, <2>2, <3>1, <3>2, Landing
  <2>5. CASE \E s \in GraphStates : IsBound(s) /\ finish(o, "mark_needs_reapproval", s)
    <3>1. PICK s \in GraphStates : IsBound(s) /\ finish(o, "mark_needs_reapproval", s)
      BY <2>5
    <3>2. /\ "mark_needs_reapproval" \in Nodes
          /\ PlaceOK(Place("mark_needs_reapproval", s), status'[o])
      BY <1>4, <1>5, <2>2, <3>1, BoundPlace
    <3> QED
      BY <1>1, <1>3, <2>2, <3>1, <3>2, Landing
  <2> QED
    BY <1>6, <2>3, <2>4, <2>5, VerifiedPlace
<1>7. CASE graph_mark_needs_reapproval(o)
  <2>1. PICK d : d = now + ApprovalTtl
    OBVIOUS
  <2>2. \/ /\ approval_locator(o, st.approval, "approved")
           /\ mark_needs_reapproval(o, st.approval, st.evidence, st.plan, st.binding, d)
        \/ UNCHANGED storeVars
    BY <1>2, <1>7, <2>1 DEF graph_mark_needs_reapproval, Call
  <2>3. d \in 1..MaxDeadline
    BY <2>1, RootAssumption, StoreAssumption DEF GraphInv, TypeOK
  <2>4. st.evidence \in Bundles /\ st.plan \in Plans /\ st.binding \in Bindings
    BY <1>3 DEF IsBound, build_approval_binding, Bindings
  <2>5. [Next]_storeVars
    BY <2>2, <2>3, <2>4 DEF Next, DecisionNext, approval_locator
  <2>6. workOrders' = workOrders
    BY <2>2 DEF mark_needs_reapproval, transition, storeVars
  <2>7. PICK s : s = [st EXCEPT !.approval = NoValue]
    OBVIOUS
  <2>8. s \in GraphStates /\ IsBound(s)
    BY <1>3, <2>7 DEF GraphStates, IsBound
  <2>9. finish(o, "approval_interrupt", s) \/ fail(o)
    BY <1>2, <1>7, <2>7 DEF graph_mark_needs_reapproval, Call
  <2>10. "approval_interrupt" \in Nodes /\ PlaceOK(Place("approval_interrupt", s), status'[o])
    BY <1>4, <1>5, <2>5, <2>8, BoundPlace
  <2> QED
    BY <1>1, <1>3, <2>5, <2>6, <2>8, <2>9, <2>10, Landing
<1>8. CASE graph_mark_executing(o)
  <2>1. \/ approval_locator(o, st.approval, "approved") /\ mark_executing(o, st.approval)
        \/ UNCHANGED storeVars
    BY <1>2, <1>8 DEF graph_mark_executing, Call
  <2>2. [Next]_storeVars
    BY <2>1 DEF Next, ExecutionNext, approval_locator
  <2>3. workOrders' = workOrders
    BY <2>1 DEF mark_executing, transition, storeVars
  <2>4. \/ finish(o, "execute_work_order", st) /\ status'[o] = "executing"
        \/ fail(o)
    BY <1>2, <1>8 DEF graph_mark_executing, Call, mark_executing, transition, replayed,
                      storeVars, opVars, GraphInv, TypeOK
  <2>5. CASE finish(o, "execute_work_order", st) /\ status'[o] = "executing"
    <3>1. /\ "execute_work_order" \in Nodes
          /\ PlaceOK(Place("execute_work_order", st), status'[o])
      BY <1>3, <1>4, <2>5, BoundPlace DEF AfterExecution
    <3> QED
      BY <1>1, <1>3, <2>2, <2>3, <2>5, <3>1, Landing
  <2>6. CASE fail(o)
    <3>1. PlaceOK(Place("mark_failed", st), status'[o]) /\ "mark_failed" \in Nodes
      BY <1>3, <1>5, <2>2, PlainPlace, NodeNames
    <3> QED
      BY <1>1, <1>2, <1>3, <2>2, <2>3, <2>6, <3>1, Landing
  <2> QED
    BY <2>4, <2>5, <2>6
<1> QED
  BY <1>6, <1>7, <1>8

\* The write and its verification.
LEMMA ExecutionStep ==
    ASSUME GraphInv, NEW o \in Operations,
           execute_work_order(o) \/ graph_mark_verifying(o) \/ verify_work_order(o)
    PROVE  /\ NodeStep(o)
           /\ status[o] \in AfterExecution
           /\ \/ workOrders' = workOrders
              \/ run[o].node = "execute_work_order" /\ create_or_get(o, run[o].state.plan)
           /\ \/ inflight' = inflight
              \/ /\ run[o].node = "execute_work_order"
                 /\ inflight' = [inflight EXCEPT ![o] = run[o].state.plan]
<1>1. /\ run[o] # NoValue
      /\ run[o].node \in {"execute_work_order", "mark_verifying", "verify_work_order"}
      /\ UNCHANGED <<ckpt, decided, capturing, boot, todo, crashes, setBack>>
      /\ faults' = faults \/ (faults < MaxFaults /\ faults' = faults + 1)
  BY DEF execute_work_order, graph_mark_verifying, verify_work_order, running, Call, ReadOnly
<1>2. PICK st : st = run[o].state
  OBVIOUS
<1>3. /\ st \in GraphStates /\ IsBound(st) /\ st.plan \in Plans
      /\ run[o].node \notin {"approval_interrupt", "END"}
      /\ status[o] \in AfterExecution
  BY <1>1, <1>2, RunningPlace DEF PlaceOK, BoundNodes, ExecutionNodes, IsBound
<1>4. {"mark_verifying", "verify_work_order", "mark_completed"}
          \subseteq BoundNodes \ {"interrupted"}
  BY DEF BoundNodes, DecidedNodes, StopNodes, ExecutionNodes
<1>5. [Next]_storeVars => status'[o] # "absent" /\ status'[o] \in AfterExecution
  BY <1>3, NextMoves DEF GraphInv, StoreMoves, AfterExecution
<1>6. CASE execute_work_order(o)
  <2>1. create_or_get(o, st.plan) \/ UNCHANGED storeVars
    BY <1>2, <1>6 DEF execute_work_order, Call, scenario_work_order_payload
  <2>2. [Next]_storeVars
    BY <1>3, <2>1 DEF Next, ExecutionNext
  <2>3. inflight' = inflight \/ inflight' = [inflight EXCEPT ![o] = st.plan]
    BY <1>2, <1>6 DEF execute_work_order, Call, scenario_work_order_payload
  <2>4. PICK s : s = [st EXCEPT !.work = [op |-> o, payload |-> st.plan]]
    OBVIOUS
  <2>5. [op |-> o, payload |-> st.plan] \in WorkOrderRows
    BY <1>3 DEF WorkOrderRows
  <2>6. s \in GraphStates /\ IsBound(s)
    BY <1>3, <2>4, <2>5 DEF GraphStates, IsBound
  <2>7. finish(o, "mark_verifying", s) \/ fail(o)
    BY <1>2, <1>6, <2>4 DEF execute_work_order, Call, scenario_work_order_payload
  <2>8. "mark_verifying" \in Nodes /\ PlaceOK(Place("mark_verifying", s), status'[o])
    BY <1>4, <1>5, <2>2, <2>6, BoundPlace
  <2>9. NodeStep(o)
    BY <1>1, <1>3, <2>2, <2>6, <2>7, <2>8, Landing
  <2>10. workOrders' = workOrders \/ create_or_get(o, run[o].state.plan)
    BY <1>2, <2>1 DEF storeVars
  <2> QED
    BY <1>2, <1>3, <1>6, <2>3, <2>9, <2>10 DEF execute_work_order, running
<1>7. CASE graph_mark_verifying(o)
  <2>1. \/ work_order_locator(o, st.work) /\ mark_verifying(o, st.work)
        \/ UNCHANGED storeVars
    BY <1>2, <1>7 DEF graph_mark_verifying, Call
  <2>2. [Next]_storeVars
    BY <2>1 DEF Next, ExecutionNext, work_order_locator
  <2>3. workOrders' = workOrders /\ inflight' = inflight
    BY <1>7, <2>1 DEF graph_mark_verifying, Call, mark_verifying, transition, storeVars
  <2>4. finish(o, "verify_work_order", st) \/ fail(o)
    BY <1>2, <1>7 DEF graph_mark_verifying, Call
  <2>5. "verify_work_order" \in Nodes /\ PlaceOK(Place("verify_work_order", st), status'[o])
    BY <1>3, <1>4, <1>5, <2>2, BoundPlace
  <2> QED
    BY <1>1, <1>3, <2>2, <2>3, <2>4, <2>5, Landing
<1>8. CASE verify_work_order(o)
  <2>1. UNCHANGED storeVars /\ inflight' = inflight
    BY <1>8 DEF verify_work_order, ReadOnly
  <2>2. [Next]_storeVars /\ workOrders' = workOrders
    BY <2>1 DEF storeVars
  <2>3. finish(o, "mark_completed", st) \/ fail(o)
    BY <1>2, <1>8 DEF verify_work_order, ReadOnly
  <2>4. "mark_completed" \in Nodes /\ PlaceOK(Place("mark_completed", st), status'[o])
    BY <1>3, <1>4, <1>5, <2>2, BoundPlace
  <2> QED
    BY <1>1, <1>3, <2>1, <2>2, <2>3, <2>4, Landing
<1> QED
  BY <1>6, <1>7, <1>8

-----------------------------------------------------------------------------
(* The invariant for any lag is preserved *)

\* A place keeps its promises while the tables move on.
LEMMA PlaceStays ==
    ASSUME NEW q \in Operations, StoreMoves(q), NEW p, PlaceOK(p, status[q])
    PROVE  PlaceOK(p, status'[q])
BY DEF StoreMoves, PlaceOK

\* What a step owes to the thread of q: its new places keep their promises,
\* and its queue is in order.
ThreadOK(q) ==
    /\ \A p \in Places(run'[q], ckpt'[q], unsaved'[q]) :
        p \in Places(run[q], ckpt[q], unsaved[q]) \/ PlaceOK(p, status'[q])
    /\ QueueOK(run'[q], ckpt'[q], unsaved'[q])

\* A step leaves the thread alone.
LEMMA ThreadKept ==
    ASSUME GraphInv, NEW q \in Operations,
           run'[q] = run[q], ckpt'[q] = ckpt[q], unsaved'[q] = unsaved[q]
    PROVE  ThreadOK(q)
BY DEF GraphInv, ThreadOK

\* The coroutine is gone, with what it had not saved.
LEMMA ThreadLost ==
    ASSUME NEW q \in Operations, run'[q] = NoValue, ckpt'[q] = ckpt[q], unsaved'[q] = <<>>
    PROVE  ThreadOK(q)
<1>1. \A p \in Places(run'[q], ckpt'[q], unsaved'[q]) :
          p \in Places(run[q], ckpt[q], unsaved[q])
  BY DEF Places
<1>2. QueueOK(run'[q], ckpt'[q], unsaved'[q])
  BY DEF QueueOK
<1> QED
  BY <1>1, <1>2 DEF ThreadOK

\* A coroutine begins in a new place.
LEMMA ThreadBegins ==
    ASSUME NEW q \in Operations, run'[q] # NoValue, ckpt'[q] = ckpt[q],
           unsaved'[q] = <<Here(run'[q])>>, run'[q].node \notin StopNodes,
           PlaceOK(Here(run'[q]), status'[q])
    PROVE  ThreadOK(q)
<1>1. PICK p0 : p0 = Here(run'[q])
  OBVIOUS
<1>2. Len(unsaved'[q]) = 1 /\ unsaved'[q][1] = p0 /\ p0.node = run'[q].node
  BY <1>1 DEF Here, Place
<1>3. \A p \in Places(run'[q], ckpt'[q], unsaved'[q]) :
          p = p0 \/ p \in Places(run[q], ckpt[q], unsaved[q])
  BY <1>1, <1>2 DEF Places
<1>4. QueueOK(run'[q], ckpt'[q], unsaved'[q])
  BY <1>2 DEF QueueOK, StopNodes
<1> QED
  BY <1>1, <1>3, <1>4 DEF ThreadOK

\* The recovery goes on where the saved checkpoint is.
LEMMA ThreadContinues ==
    ASSUME GraphInv, NEW q \in Operations, run[q] = NoValue, run'[q] # NoValue, ckpt[q] # NoValue,
           ckpt'[q] = ckpt[q], unsaved'[q] = unsaved[q], Here(run'[q]) = ckpt[q]
    PROVE  ThreadOK(q)
<1>1. unsaved'[q] = <<>>
  BY DEF GraphInv, QueueOK
<1>2. \A p \in Places(run'[q], ckpt'[q], unsaved'[q]) :
          p \in Places(run[q], ckpt[q], unsaved[q])
  BY <1>1 DEF Places
<1>3. QueueOK(run'[q], ckpt'[q], unsaved'[q])
  BY <1>1 DEF QueueOK
<1> QED
  BY <1>2, <1>3 DEF ThreadOK

\* A node ends.
LEMMA ThreadLands ==
    ASSUME GraphInv, NEW o \in Operations, Lands(o), PlaceOK(Here(run'[o]), status'[o]),
           NEW q \in Operations
    PROVE  ThreadOK(q)
<1>1. CASE q # o
  BY <1>1, ThreadKept DEF Lands
<1>2. CASE q = o
  <2>0. PICK u, v, p0 : u = unsaved[o] /\ v = unsaved'[o] /\ p0 = Here(run'[o])
    OBVIOUS
  <2>1. u \in Seq(Checkpoints) /\ u = unsaved[o] /\ v = unsaved'[o] /\ p0 = Here(run'[o])
    BY <2>0 DEF GraphInv, RootTypeOK
  <2>2. v = u \/ v = Append(u, p0)
    BY <2>1 DEF Lands
  <2>3. p0 \in Checkpoints /\ p0.node = run'[o].node /\ run'[o] # NoValue /\ ckpt'[o] = ckpt[o]
        /\ run'[o].node \in Nodes
    BY <2>1 DEF PlaceOK, Here, Place, Lands, Runs
  <2>4. \A p \in Places(run'[o], ckpt'[o], unsaved'[o]) :
            p \in Places(run[o], ckpt[o], unsaved[o]) \/ p = p0
    BY <2>1, <2>2, <2>3, PlacesGrow
  <2>5. QueueOK(run'[o], ckpt'[o], unsaved'[o])
    <3>1. \A i \in 1..Len(u) : u[i].node # "interrupted"
      BY <2>1 DEF GraphInv, QueueOK
    <3>2. CASE v = u /\ run'[o].node \in PersistNodes
      <4>1. run'[o].node # "approval_interrupt"
        BY <3>2 DEF PersistNodes
      <4> QED
        BY <2>1, <2>3, <3>1, <3>2, <4>1 DEF QueueOK
    <3>3. CASE v = Append(u, p0)
      <4>1. /\ Len(v) = Len(u) + 1 /\ v[Len(u) + 1] = p0 /\ Len(u) \in Nat
            /\ \A i \in 1..Len(u) : v[i] = u[i]
        BY <2>1, <2>3, <3>3
      <4>2. v # <<>>
        BY <4>1
      <4>3. p0.node # "interrupted"
        BY <2>3, NodeNames
      <4>4. \A i \in 1..Len(v) : v[i].node # "interrupted"
        BY <3>1, <4>1, <4>3
      <4>5. v[Len(v)] = p0
        BY <4>1
      <4> QED
        BY <2>1, <2>3, <4>2, <4>4, <4>5 DEF QueueOK
    <3> QED
      BY <2>1, <3>2, <3>3 DEF Lands
  <2> QED
    BY <1>2, <2>1, <2>4, <2>5 DEF ThreadOK
<1> QED
  BY <1>1, <1>2

\* The oldest unsaved checkpoint is saved.
LEMMA ThreadSaved ==
    ASSUME GraphInv, NEW o \in Operations, save_checkpoint(o), NEW q \in Operations
    PROVE  ThreadOK(q)
<1>1. CASE q # o
  BY <1>1, ThreadKept DEF save_checkpoint, GraphInv, RootTypeOK
<1>2. CASE q = o
  <2>1. PICK u \in Seq(Checkpoints) : u = unsaved[o]
    BY DEF GraphInv, RootTypeOK
  <2>2. u # <<>> /\ ckpt'[o] = Head(u) /\ unsaved'[o] = Tail(u) /\ run'[o] = run[o]
    BY <2>1 DEF save_checkpoint, GraphInv, RootTypeOK
  <2>3. \A p \in Places(run'[o], ckpt'[o], unsaved'[o]) : p \in Places(run[o], ckpt[o], unsaved[o])
    BY <2>1, <2>2, PlacesSaved
  <2>4. QueueOK(run[o], ckpt[o], u)
    BY <2>1 DEF GraphInv
  <2>5. PICK v : v = Tail(u)
    OBVIOUS
  <2>6. /\ v \in Seq(Checkpoints) /\ Len(v) = Len(u) - 1 /\ Len(u) \in Nat /\ Len(u) >= 1
        /\ \A i \in 1..Len(v) : v[i] = u[i + 1]
    BY <2>2, <2>5
  <2>7. \A i \in 1..Len(v) : v[i].node # "interrupted"
    BY <2>4, <2>6 DEF QueueOK
  <2>8. v = <<>> => Len(u) = 1 /\ Head(u) = u[1]
    BY <2>2, <2>6
  <2>9. v # <<>> => v[Len(v)] = u[Len(u)]
    BY <2>6
  <2>10. QueueOK(run'[o], ckpt'[o], unsaved'[o])
    BY <2>2, <2>4, <2>5, <2>7, <2>8, <2>9 DEF QueueOK
  <2> QED
    BY <1>2, <2>3, <2>10 DEF ThreadOK
<1> QED
  BY <1>1, <1>2

\* The graph stops in its interrupt.
LEMMA ThreadStops ==
    ASSUME GraphInv, NEW o \in Operations, approval_interrupt(o), NEW q \in Operations
    PROVE  /\ ThreadOK(q)
           /\ ckpt' \in [Operations -> Checkpoints \cup {NoValue}]
           /\ ckpt'[o] # NoValue /\ ckpt'[o].node = "interrupted" /\ ckpt'[o].state = run[o].state
           /\ run'[o] = NoValue /\ unsaved'[o] = <<>>
           /\ q # o => run'[q] = run[q] /\ ckpt'[q] = ckpt[q] /\ unsaved'[q] = unsaved[q]
<1>1. run[o] # NoValue /\ run[o].node = "approval_interrupt" /\ unsaved[o] = <<>>
  BY DEF approval_interrupt, running
<1>2. ckpt[o] = Here(run[o])
  BY <1>1 DEF GraphInv, QueueOK
<1>3. /\ PlaceOK(ckpt[o], status[o]) /\ ckpt[o] \in Checkpoints
      /\ ckpt[o].state = run[o].state /\ ckpt[o].node = "approval_interrupt"
  BY <1>1, <1>2, RunningPlace DEF PlaceOK
<1>4. PICK c : c = [ckpt[o] EXCEPT !.node = "interrupted"]
  OBVIOUS
<1>5. c \in Checkpoints /\ c.node = "interrupted" /\ c.state = ckpt[o].state
  BY <1>3, <1>4 DEF Checkpoints
<1>6. ckpt' = [ckpt EXCEPT ![o] = c] /\ run' = [run EXCEPT ![o] = NoValue] /\ unsaved' = unsaved
  BY <1>4 DEF approval_interrupt, GraphInv, RootTypeOK
<1>7. /\ ckpt'[o] = c /\ run'[o] = NoValue /\ unsaved'[o] = <<>>
      /\ ckpt' \in [Operations -> Checkpoints \cup {NoValue}]
      /\ \A x \in Operations : x # o =>
             run'[x] = run[x] /\ ckpt'[x] = ckpt[x] /\ unsaved'[x] = unsaved[x]
  BY <1>1, <1>5, <1>6 DEF GraphInv, RootTypeOK
<1>8. c # NoValue
  BY <1>5, NoThreadAssumption
<1>9. status' = status
  BY DEF approval_interrupt, storeVars, opVars
<1>10. PlaceOK(c, status[o])
  <2>1. "interrupted" \notin PersistNodes \cup ExecutionNodes
    BY DEF PersistNodes, ExecutionNodes
  <2>2. IsBound(c.state)
    BY <1>3, <1>5 DEF PlaceOK, BoundNodes, StopNodes
  <2> QED
    BY <1>3, <1>5, <2>1, <2>2 DEF PlaceOK, PersistNodes
<1>11. ThreadOK(o)
  <2>1. \A p \in Places(run'[o], ckpt'[o], unsaved'[o]) : p = c
    BY <1>7 DEF Places
  <2>2. QueueOK(run'[o], ckpt'[o], unsaved'[o])
    BY <1>7 DEF QueueOK
  <2> QED
    BY <1>9, <1>10, <2>1, <2>2 DEF ThreadOK
<1>12. CASE q = o
  BY <1>3, <1>5, <1>7, <1>8, <1>11, <1>12
<1>13. CASE q # o
  BY <1>3, <1>5, <1>7, <1>8, <1>13, ThreadKept
<1> QED
  BY <1>12, <1>13

\* What a step has to show to preserve the invariant.
LEMMA InvStep ==
    ASSUME GraphInv, [Next]_storeVars, RootTypeOK',
           \A q \in Operations : ThreadOK(q) /\ DecidedOK(decided'[q], run'[q], ckpt'[q], boot'),
           \A q \in Operations :
               inflight'[q] # NoValue \/ work_order_of(q)' # {} => status'[q] \in AfterExecution
    PROVE  GraphInv'
<1>1. TypeOK' /\ DecisionInv' /\ now' <= MaxTime
  BY NextType, NextDecision, TimeStep DEF GraphInv
<1>2. ASSUME NEW q \in Operations
      PROVE  /\ \A p \in Places(run'[q], ckpt'[q], unsaved'[q]) : PlaceOK(p, status'[q])
             /\ QueueOK(run'[q], ckpt'[q], unsaved'[q])
             /\ ResultOK(q)'
  <2>1. StoreMoves(q)
    BY NextMoves DEF GraphInv
  <2>2. \A p \in Places(run[q], ckpt[q], unsaved[q]) : PlaceOK(p, status'[q])
    BY <2>1, PlaceStays DEF GraphInv
  <2>3. ResultOK(q)'
    BY ResultStep DEF GraphInv
  <2> QED
    BY <2>2, <2>3 DEF ThreadOK
<1> QED
  BY <1>1, <1>2 DEF GraphInv

\* A step that writes no work order keeps every work order backed.
LEMMA WorkKept ==
    ASSUME GraphInv, [Next]_storeVars, workOrders' = workOrders, NEW q \in Operations,
           inflight'[q] \in {inflight[q], NoValue}
    PROVE  inflight'[q] # NoValue \/ work_order_of(q)' # {} => status'[q] \in AfterExecution
BY NextMoves DEF GraphInv, StoreMoves, work_order_of

\* The nodes that end in another node.
LEMMA NodeKeeps ==
    ASSUME GraphInv, NEW o \in Operations, NodeStep(o),
           \/ workOrders' = workOrders
           \/ run[o].node = "execute_work_order" /\ create_or_get(o, run[o].state.plan),
           \/ inflight' = inflight
           \/ /\ run[o].node = "execute_work_order"
              /\ inflight' = [inflight EXCEPT ![o] = run[o].state.plan]
    PROVE  GraphInv'
<1>1. [Next]_storeVars /\ Lands(o) /\ PlaceOK(Here(run'[o]), status'[o])
  BY DEF NodeStep
<1>2. ASSUME NEW q \in Operations
      PROVE  ThreadOK(q) /\ DecidedOK(decided'[q], run'[q], ckpt'[q], boot')
  <2>1. ThreadOK(q)
    BY <1>1, ThreadLands
  <2>2. DecidedOK(decided'[q], run'[q], ckpt'[q], boot')
    BY <1>1 DEF Lands, GraphInv, DecidedOK
  <2> QED
    BY <2>1, <2>2
<1>3. run[o].node = "execute_work_order" =>
          run[o].state.plan \in Plans /\ status[o] \in AfterExecution
  BY <1>1, RunningPlace DEF Lands, PlaceOK, BoundNodes, ExecutionNodes, IsBound
<1>4. inflight' \in [Operations -> Plans \cup {NoValue}]
  BY <1>3 DEF GraphInv, RootTypeOK
<1>5. RootTypeOK'
  BY <1>1, <1>4 DEF Lands, GraphInv, RootTypeOK
<1>6. ASSUME NEW q \in Operations, inflight'[q] # NoValue \/ work_order_of(q)' # {}
      PROVE  status'[q] \in AfterExecution
  <2>1. status[q] \in AfterExecution => status'[q] \in AfterExecution
    BY <1>1, NextMoves DEF GraphInv, StoreMoves
  <2>2. CASE q = o /\ run[o].node = "execute_work_order"
    BY <1>3, <2>1, <2>2
  <2>3. CASE ~ (q = o /\ run[o].node = "execute_work_order")
    <3>1. inflight'[q] = inflight[q]
      BY <2>3 DEF GraphInv, RootTypeOK
    <3>2. \A w \in workOrders' : w.op = q => w \in workOrders
      BY <2>3 DEF create_or_get
    <3>3. work_order_of(q)' # {} => work_order_of(q) # {}
      BY <3>2 DEF work_order_of
    <3> QED
      BY <1>6, <2>1, <3>1, <3>3 DEF GraphInv
  <2> QED
    BY <2>2, <2>3
<1> QED
  BY <1>1, <1>2, <1>5, <1>6, InvStep

\* Every step of a graph is a step of the store, and keeps the invariant.
LEMMA GraphKeeps ==
    ASSUME GraphInv, NEW o \in Operations, GraphStep(o)
    PROVE  [Next]_storeVars /\ GraphInv'
<1>1. CASE \/ encode_goal(o) \/ begin_operation(o) \/ investigate(o)
           \/ persist_record_evidence(o) \/ persist_record_validated_plan(o)
           \/ persist_record_query_assessment(o) \/ persist_mark_reporting(o)
           \/ persist_complete(o) \/ persist_mark_awaiting_approval(o)
           \/ graph_mark_rejected(o) \/ graph_mark_verifier_aborted(o)
           \/ graph_mark_completed(o) \/ graph_mark_failed(o)
           \/ refresh_and_verify(o) \/ graph_mark_needs_reapproval(o) \/ graph_mark_executing(o)
  <2>1. NodeStep(o) /\ UNCHANGED <<workOrders, inflight>>
    BY <1>1, InvestigationStep, PersistStep, PersistEndStep, EndingStep, ApprovedStep
  <2> QED
    BY <2>1, NodeKeeps DEF NodeStep
<1>2. CASE execute_work_order(o) \/ graph_mark_verifying(o) \/ verify_work_order(o)
  <2>1. /\ NodeStep(o)
        /\ \/ workOrders' = workOrders
           \/ run[o].node = "execute_work_order" /\ create_or_get(o, run[o].state.plan)
        /\ \/ inflight' = inflight
           \/ /\ run[o].node = "execute_work_order"
              /\ inflight' = [inflight EXCEPT ![o] = run[o].state.plan]
    BY <1>2, ExecutionStep
  <2> QED
    BY <2>1, NodeKeeps DEF NodeStep
<1>3. CASE approval_interrupt(o)
  <2>1. [Next]_storeVars /\ workOrders' = workOrders /\ inflight' = inflight
    BY <1>3 DEF approval_interrupt, storeVars
  <2>2. RootTypeOK'
    <3>1. ckpt' \in [Operations -> Checkpoints \cup {NoValue}]
      BY <1>3, ThreadStops
    <3> QED
      BY <1>3, <3>1 DEF approval_interrupt, GraphInv, RootTypeOK
  <2>3. ASSUME NEW q \in Operations PROVE DecidedOK(decided'[q], run'[q], ckpt'[q], boot')
    <3>1. q # o => run'[q] = run[q] /\ ckpt'[q] = ckpt[q]
      BY <1>3, ThreadStops
    <3>2. run[o] # NoValue /\ decided' = decided /\ boot' = boot
      BY <1>3 DEF approval_interrupt, running
    <3> QED
      BY <3>1, <3>2 DEF GraphInv, DecidedOK
  <2> QED
    BY <1>3, <2>1, <2>2, <2>3, ThreadStops, InvStep, WorkKept
<1>4. CASE graph_end(o)
  <2>1. [Next]_storeVars /\ workOrders' = workOrders /\ inflight' = inflight
    BY <1>4 DEF graph_end, storeVars
  <2>2. RootTypeOK'
    BY <1>4 DEF graph_end, GraphInv, RootTypeOK
  <2>3. /\ run'[o] = NoValue /\ unsaved[o] = <<>>
        /\ \A q \in Operations : q # o => run'[q] = run[q]
        /\ UNCHANGED <<unsaved, ckpt, decided, boot>>
    BY <1>4 DEF graph_end, GraphInv, RootTypeOK
  <2>4. ASSUME NEW q \in Operations
        PROVE  ThreadOK(q) /\ DecidedOK(decided'[q], run'[q], ckpt'[q], boot')
    <3>1. q = o => ThreadOK(q)
      BY <2>3, ThreadLost
    <3>2. q # o => ThreadOK(q)
      BY <2>3, ThreadKept
    <3>3. DecidedOK(decided'[q], run'[q], ckpt'[q], boot')
      BY <2>3 DEF GraphInv, DecidedOK
    <3> QED
      BY <3>1, <3>2, <3>3
  <2> QED
    BY <2>1, <2>2, <2>4, InvStep, WorkKept
<1> QED
  BY <1>1, <1>2, <1>3, <1>4 DEF GraphStep

\* A step that leaves every thread alone.
LEMMA QuietKeeps ==
    ASSUME GraphInv, [Next]_storeVars, RootTypeOK', workOrders' = workOrders,
           UNCHANGED <<run, ckpt, unsaved, decided, inflight>>,
           \A q \in Operations : decided[q] # NoValue => boot' = boot
    PROVE  GraphInv'
<1>1. \A q \in Operations : ThreadOK(q)
  BY ThreadKept
<1>2. \A q \in Operations : DecidedOK(decided'[q], run'[q], ckpt'[q], boot')
  BY DEF GraphInv, DecidedOK
<1> QED
  BY <1>1, <1>2, InvStep, WorkKept

\* The first place of a graph.
LEMMA FirstPlace ==
    ASSUME NEW t, t # "absent", NEW by \in Callers, NEW r,
           r = [by |-> by, node |-> "encode_goal", state |-> InitialState]
    PROVE  /\ r \in Runs /\ r # NoValue /\ r.node \notin StopNodes
           /\ Here(r) = [node |-> "encode_goal", state |-> InitialState]
           /\ Here(r) \in Checkpoints
           /\ PlaceOK(Here(r), t)
<1>1. InitialState \in GraphStates
  BY DEF InitialState, GraphStates
<1>2. r \in Runs /\ r.node = "encode_goal" /\ r.state = InitialState
  BY <1>1, NodeNames DEF Runs
<1>3. PlaceOK(Place("encode_goal", InitialState), t)
  BY <1>1, PlainPlace
<1> QED
  BY <1>2, <1>3, NoThreadAssumption DEF Here, Place, PlaceOK, StopNodes

\* The place of a graph that is resumed with a decision.
LEMMA ResumedPlace ==
    ASSUME GraphInv, NEW o \in Operations, interrupted(o), NEW a \in ApprovalRows,
           NEW by \in Callers, resume(o, a, by)
    PROVE  /\ run' \in [Operations -> Runs \cup {NoValue}]
           /\ unsaved' \in [Operations -> Seq(Checkpoints)]
           /\ run'[o] # NoValue
           /\ run'[o].node = IF a.decision = "approved" THEN "refresh_and_verify"
                                                         ELSE "mark_rejected"
           /\ run'[o].state = [ckpt[o].state EXCEPT !.approval = a]
           /\ ckpt[o] \in Checkpoints
           /\ unsaved'[o] = <<Here(run'[o])>>
           /\ PlaceOK(Here(run'[o]), status[o])
           /\ \A q \in Operations : q # o => run'[q] = run[q] /\ unsaved'[q] = unsaved[q]
<1>1. PICK c : c = ckpt[o]
  OBVIOUS
<1>2. c # NoValue /\ c.node = "interrupted" /\ c \in Places(run[o], ckpt[o], unsaved[o])
  BY <1>1, InPlaces DEF interrupted
<1>3. c \in Checkpoints /\ IsBound(c.state) /\ status[o] # "absent"
  BY <1>2 DEF GraphInv, PlaceOK, BoundNodes, StopNodes
<1>4. PICK s : s = [c.state EXCEPT !.approval = a]
  OBVIOUS
<1>5. c.state \in GraphStates
  BY <1>3 DEF Checkpoints
<1>6. s \in GraphStates /\ IsBound(s)
  BY <1>3, <1>4, <1>5 DEF GraphStates, IsBound
<1>7. PICK n : n = IF a.decision = "approved" THEN "refresh_and_verify" ELSE "mark_rejected"
  OBVIOUS
<1>8. n \in BoundNodes \ {"interrupted"} /\ n \notin ExecutionNodes
  BY <1>7 DEF BoundNodes, DecidedNodes, ExecutionNodes
<1>9. n \in Nodes /\ PlaceOK(Place(n, s), status[o])
  BY <1>3, <1>6, <1>8, BoundPlace
<1>10. PICK r : r = [by |-> by, node |-> n, state |-> s]
  OBVIOUS
<1>11. r \in Runs /\ r.node = n /\ r.state = s
  BY <1>6, <1>9, <1>10 DEF Runs
<1>12. run' = [run EXCEPT ![o] = r] /\ unsaved' = [unsaved EXCEPT ![o] = <<Place(n, s)>>]
  BY <1>1, <1>4, <1>7, <1>10 DEF resume, Place
<1>13. Here(r) = Place(n, s) /\ Place(n, s) \in Checkpoints
  BY <1>9, <1>11 DEF Here, PlaceOK
<1>14. <<Place(n, s)>> \in Seq(Checkpoints)
  BY <1>13
<1>15. /\ run'[o] = r /\ unsaved'[o] = <<Place(n, s)>>
       /\ run' \in [Operations -> Runs \cup {NoValue}]
       /\ unsaved' \in [Operations -> Seq(Checkpoints)]
       /\ \A q \in Operations : q # o => run'[q] = run[q] /\ unsaved'[q] = unsaved[q]
  BY <1>11, <1>12, <1>14 DEF GraphInv, RootTypeOK
<1>16. r # NoValue
  BY <1>11, NoThreadAssumption
<1> QED
  BY <1>1, <1>3, <1>4, <1>7, <1>9, <1>11, <1>13, <1>15, <1>16

\* start.
LEMMA StartKeeps ==
    ASSUME GraphInv, NEW o \in Operations, NEW req \in Requests, start(o, req)
    PROVE  [Next]_storeVars /\ GraphInv'
<1>1. create(o, req) /\ UNCHANGED <<ckpt, decided, inflight, boot>>
  BY DEF start
<1>2. [Next]_storeVars
  BY <1>1 DEF Next, InvestigationNext
<1>3. /\ workOrders' = workOrders /\ status[o] = "absent" /\ status'[o] = "received"
  BY <1>1 DEF create, create_allowed, GraphInv, TypeOK
<1>4. PICK r : r = [by |-> "start", node |-> "encode_goal", state |-> InitialState]
  OBVIOUS
<1>5. /\ r \in Runs /\ r # NoValue /\ r.node \notin StopNodes
      /\ Here(r) = [node |-> "encode_goal", state |-> InitialState]
      /\ Here(r) \in Checkpoints
      /\ PlaceOK(Here(r), status'[o])
  BY <1>3, <1>4, FirstPlace DEF Callers
<1>6. run' = [run EXCEPT ![o] = r] /\ unsaved' = [unsaved EXCEPT ![o] = <<Here(r)>>]
  BY <1>4, <1>5 DEF start
<1>7. <<Here(r)>> \in Seq(Checkpoints)
  BY <1>5
<1>8. /\ run'[o] = r /\ unsaved'[o] = <<Here(r)>>
      /\ \A q \in Operations : q # o => run'[q] = run[q] /\ unsaved'[q] = unsaved[q]
      /\ run' \in [Operations -> Runs \cup {NoValue}]
      /\ unsaved' \in [Operations -> Seq(Checkpoints)]
  BY <1>5, <1>6, <1>7 DEF GraphInv, RootTypeOK
<1>9. RootTypeOK'
  BY <1>8 DEF start, GraphInv, RootTypeOK
<1>10. decided[o] = NoValue
  <2>1. ckpt[o] = NoValue
    <3>1. ckpt[o] # NoValue => ckpt[o] \in Places(run[o], ckpt[o], unsaved[o])
      BY InPlaces
    <3> QED
      BY <1>3, <3>1 DEF GraphInv, PlaceOK
  <2> QED
    BY <2>1 DEF GraphInv, DecidedOK
<1>11. ASSUME NEW q \in Operations
       PROVE  ThreadOK(q) /\ DecidedOK(decided'[q], run'[q], ckpt'[q], boot')
  <2>1. q = o => ThreadOK(q)
    BY <1>1, <1>5, <1>8, ThreadBegins
  <2>2. q # o => ThreadOK(q)
    BY <1>1, <1>8, ThreadKept
  <2>3. DecidedOK(decided'[q], run'[q], ckpt'[q], boot')
    BY <1>1, <1>8, <1>10 DEF GraphInv, DecidedOK
  <2> QED
    BY <2>1, <2>2, <2>3
<1> QED
  BY <1>1, <1>2, <1>3, <1>9, <1>11, InvStep, WorkKept

\* The checkpointer saves.
LEMMA SaveKeeps ==
    ASSUME GraphInv, NEW o \in Operations, save_checkpoint(o)
    PROVE  [Next]_storeVars /\ GraphInv'
<1>1. UNCHANGED <<storeVars, run, decided, capturing, inflight, boot, todo, faults,
                  crashes, setBack>>
  BY DEF save_checkpoint
<1>2. [Next]_storeVars /\ workOrders' = workOrders
  BY <1>1 DEF storeVars
<1>3. unsaved[o] \in Seq(Checkpoints) /\ unsaved[o] # <<>>
  BY DEF save_checkpoint, GraphInv, RootTypeOK
<1>4. Head(unsaved[o]) \in Checkpoints /\ Tail(unsaved[o]) \in Seq(Checkpoints)
  BY <1>3
<1>5. RootTypeOK'
  BY <1>1, <1>4 DEF save_checkpoint, GraphInv, RootTypeOK
<1>6. run[o] # NoValue
  BY <1>3 DEF GraphInv, QueueOK
<1>7. \A q \in Operations : q # o => ckpt'[q] = ckpt[q]
  BY DEF save_checkpoint, GraphInv, RootTypeOK
<1>8. \A q \in Operations : DecidedOK(decided'[q], run'[q], ckpt'[q], boot')
  BY <1>1, <1>6, <1>7 DEF GraphInv, DecidedOK
<1> QED
  BY <1>1, <1>2, <1>5, <1>8, ThreadSaved, InvStep, WorkKept

\* A delayed write arrives, or never does.
LEMMA LateWriteKeeps ==
    ASSUME GraphInv, NEW o \in Operations, late_write(o)
    PROVE  [Next]_storeVars /\ GraphInv'
<1>1. PICK p : p = inflight[o]
  OBVIOUS
<1>2. /\ p \in Plans /\ status[o] \in AfterExecution
      /\ inflight' = [inflight EXCEPT ![o] = NoValue]
      /\ create_or_get(o, p) \/ UNCHANGED storeVars
      /\ UNCHANGED <<run, ckpt, unsaved, decided, capturing, boot, todo, faults, crashes, setBack>>
  BY <1>1 DEF late_write, GraphInv, RootTypeOK
<1>3. [Next]_storeVars
  BY <1>2 DEF Next, ExecutionNext
<1>4. RootTypeOK'
  BY <1>2 DEF GraphInv, RootTypeOK
<1>5. \A q \in Operations : ThreadOK(q) /\ DecidedOK(decided'[q], run'[q], ckpt'[q], boot')
  BY <1>2, ThreadKept DEF GraphInv
<1>6. ASSUME NEW q \in Operations, inflight'[q] # NoValue \/ work_order_of(q)' # {}
      PROVE  status'[q] \in AfterExecution
  <2>1. status[q] \in AfterExecution => status'[q] \in AfterExecution
    BY <1>3, NextMoves DEF GraphInv, StoreMoves
  <2>2. CASE q = o
    BY <1>2, <2>1, <2>2
  <2>3. CASE q # o
    <3>1. inflight'[q] = inflight[q]
      BY <1>2, <2>3 DEF GraphInv, RootTypeOK
    <3>2. \A w \in workOrders' : w.op = q => w \in workOrders
      BY <1>2, <2>3 DEF create_or_get, storeVars
    <3>3. work_order_of(q)' # {} => work_order_of(q) # {}
      BY <3>2 DEF work_order_of
    <3> QED
      BY <1>6, <2>1, <3>1, <3>3 DEF GraphInv
  <2> QED
    BY <2>2, <2>3
<1> QED
  BY <1>3, <1>4, <1>5, <1>6, InvStep

\* The exception handler of start is a step of the store.
LEMMA StartFailedIsStoreStep ==
    ASSUME NEW o \in Operations, mark_start_failed(o)
    PROVE  [Next]_storeVars /\ workOrders' = workOrders
<1>1. (\E e \in Errors : mark_failed(o, e)) \/ UNCHANGED storeVars
  BY DEF mark_start_failed
<1> QED
  BY <1>1 DEF Next, ExecutionNext, mark_failed, transition, storeVars

\* The checkpointer fails under a run.
LEMMA DiesKeeps ==
    ASSUME GraphInv, NEW o \in Operations, run_dies(o)
    PROVE  [Next]_storeVars /\ GraphInv'
<1>1. [Next]_storeVars /\ workOrders' = workOrders
  BY StartFailedIsStoreStep DEF run_dies, storeVars
<1>2. /\ run'[o] = NoValue /\ unsaved'[o] = <<>>
      /\ \A q \in Operations : q # o => run'[q] = run[q] /\ unsaved'[q] = unsaved[q]
      /\ UNCHANGED <<ckpt, decided, capturing, inflight, boot, todo, crashes>>
  BY DEF run_dies, GraphInv, RootTypeOK
<1>3. <<>> \in Seq(Checkpoints)
  OBVIOUS
<1>4. RootTypeOK'
  BY <1>2, <1>3, RootAssumption DEF run_dies, far_behind, GraphInv, RootTypeOK
<1>5. ASSUME NEW q \in Operations
      PROVE  ThreadOK(q) /\ DecidedOK(decided'[q], run'[q], ckpt'[q], boot')
  <2>1. q = o => ThreadOK(q)
    BY <1>2, ThreadLost
  <2>2. q # o => ThreadOK(q)
    BY <1>2, ThreadKept
  <2>3. DecidedOK(decided'[q], run'[q], ckpt'[q], boot')
    BY <1>2 DEF GraphInv, DecidedOK
  <2> QED
    BY <2>1, <2>2, <2>3
<1> QED
  BY <1>1, <1>2, <1>4, <1>5, InvStep, WorkKept

\* start records the trace.
LEMMA CaptureKeeps ==
    ASSUME GraphInv, NEW o \in Operations, capture(o)
    PROVE  [Next]_storeVars /\ GraphInv'
<1>1. mark_start_failed(o) \/ UNCHANGED storeVars
  BY DEF capture
<1>2. [Next]_storeVars /\ workOrders' = workOrders
  BY <1>1, StartFailedIsStoreStep DEF storeVars
<1>3. UNCHANGED <<run, ckpt, unsaved, decided, inflight, boot>>
  BY DEF capture
<1>4. RootTypeOK'
  BY <1>3, RootAssumption DEF capture, GraphInv, RootTypeOK
<1> QED
  BY <1>2, <1>3, <1>4, QuietKeeps

\* submit_approval up to its first await.
LEMMA SubmitKeeps ==
    ASSUME GraphInv, NEW o \in Operations, submit_approval(o)
    PROVE  [Next]_storeVars /\ GraphInv'
<1>1. /\ boot = "serving" /\ interrupted(o) /\ run[o] = NoValue
      /\ UNCHANGED <<run, ckpt, unsaved, capturing, inflight, boot, todo, faults, crashes, setBack>>
  BY DEF submit_approval
<1>2. CASE submit_bound_once_expired(o, now) /\ UNCHANGED decided
  <2>1. now \in 0..now
    BY DEF GraphInv, TypeOK
  <2>2. [Next]_storeVars /\ workOrders' = workOrders
    BY <1>2, <2>1 DEF Next, DecisionNext, submit_bound_once_expired
  <2>3. RootTypeOK'
    BY <1>1, <1>2 DEF GraphInv, RootTypeOK
  <2> QED
    BY <1>1, <1>2, <2>2, <2>3, QuietKeeps
<1>3. CASE \E r \in Approvers, d \in Decisions, b \in Bindings :
            /\ submit_bound_once(o, r, d, b, now)
            /\ decided' = [decided EXCEPT ![o] =
                              [op |-> o, cycle |-> cycle[o], approver |-> r,
                               decision |-> d, binding |-> b, at |-> now]]
  <2>1. PICK r \in Approvers, d \in Decisions, b \in Bindings :
            /\ submit_bound_once(o, r, d, b, now)
            /\ decided' = [decided EXCEPT ![o] =
                              [op |-> o, cycle |-> cycle[o], approver |-> r,
                               decision |-> d, binding |-> b, at |-> now]]
    BY <1>3
  <2>2. now \in 0..now /\ now \in Nat /\ cycle[o] \in Nat
    BY DEF GraphInv, TypeOK
  <2>3. PICK a : a = [op |-> o, cycle |-> cycle[o], approver |-> r,
                      decision |-> d, binding |-> b, at |-> now]
    OBVIOUS
  <2>4. a \in ApprovalRows
    BY <2>2, <2>3 DEF ApprovalRows
  <2>5. [Next]_storeVars /\ workOrders' = workOrders
    BY <2>1, <2>2 DEF Next, DecisionNext, submit_bound_once
  <2>6. decided' = [decided EXCEPT ![o] = a]
    BY <2>1, <2>3
  <2>7. RootTypeOK'
    BY <1>1, <2>4, <2>6 DEF GraphInv, RootTypeOK
  <2>8. \A q \in Operations : ThreadOK(q)
    BY <1>1, ThreadKept
  <2>9. \A q \in Operations : q # o => decided'[q] = decided[q]
    BY <2>6 DEF GraphInv, RootTypeOK
  <2>10. \A q \in Operations : DecidedOK(decided'[q], run'[q], ckpt'[q], boot')
    BY <1>1, <2>9 DEF GraphInv, DecidedOK, interrupted
  <2> QED
    BY <1>1, <2>5, <2>7, <2>8, <2>10, InvStep, WorkKept
<1> QED
  BY <1>2, <1>3 DEF submit_approval

\* The rest of submit_approval.
LEMMA SubmitResumeKeeps ==
    ASSUME GraphInv, NEW o \in Operations, submit_approval_resume(o)
    PROVE  [Next]_storeVars /\ GraphInv'
<1>1. /\ decided[o] # NoValue /\ decided' = [decided EXCEPT ![o] = NoValue]
      /\ UNCHANGED <<storeVars, ckpt, capturing, inflight, boot, todo, crashes, setBack>>
  BY DEF submit_approval_resume
<1>2. interrupted(o) /\ run[o] = NoValue /\ decided[o] \in ApprovalRows
  BY <1>1 DEF GraphInv, DecidedOK, interrupted, RootTypeOK
<1>3. [Next]_storeVars /\ workOrders' = workOrders /\ status' = status
  BY <1>1 DEF storeVars, opVars
<1>4. /\ decided'[o] = NoValue
      /\ decided' \in [Operations -> ApprovalRows \cup {NoValue}]
      /\ \A q \in Operations : q # o => decided'[q] = decided[q]
  BY <1>1 DEF GraphInv, RootTypeOK
<1>5. CASE resume(o, decided[o], "submit") /\ UNCHANGED faults
  <2>1. /\ run' \in [Operations -> Runs \cup {NoValue}]
        /\ unsaved' \in [Operations -> Seq(Checkpoints)]
        /\ run'[o] # NoValue
        /\ run'[o].node \in {"refresh_and_verify", "mark_rejected"}
        /\ unsaved'[o] = <<Here(run'[o])>>
        /\ PlaceOK(Here(run'[o]), status[o])
        /\ \A q \in Operations : q # o => run'[q] = run[q] /\ unsaved'[q] = unsaved[q]
    BY <1>2, <1>5, ResumedPlace DEF Callers
  <2>2. RootTypeOK'
    BY <1>1, <1>4, <1>5, <2>1 DEF GraphInv, RootTypeOK
  <2>3. ASSUME NEW q \in Operations
        PROVE  ThreadOK(q) /\ DecidedOK(decided'[q], run'[q], ckpt'[q], boot')
    <3>1. q = o => ThreadOK(q)
      BY <1>1, <1>3, <2>1, ThreadBegins DEF StopNodes
    <3>2. q # o => ThreadOK(q)
      BY <1>1, <2>1, ThreadKept
    <3>3. DecidedOK(decided'[q], run'[q], ckpt'[q], boot')
      BY <1>1, <1>4, <2>1 DEF GraphInv, DecidedOK
    <3> QED
      BY <3>1, <3>2, <3>3
  <2> QED
    BY <1>1, <1>3, <2>2, <2>3, InvStep, WorkKept
<1>6. CASE faults < MaxFaults /\ faults' = faults + 1 /\ UNCHANGED <<run, unsaved>>
  <2>1. RootTypeOK'
    BY <1>1, <1>4, <1>6, RootAssumption DEF GraphInv, RootTypeOK
  <2>2. \A q \in Operations : ThreadOK(q) /\ DecidedOK(decided'[q], run'[q], ckpt'[q], boot')
    BY <1>1, <1>4, <1>6, ThreadKept DEF GraphInv, DecidedOK
  <2> QED
    BY <1>1, <1>3, <2>1, <2>2, InvStep, WorkKept
<1> QED
  BY <1>5, <1>6 DEF submit_approval_resume

\* The process dies.
LEMMA CrashKeeps ==
    ASSUME GraphInv, crash
    PROVE  [Next]_storeVars /\ GraphInv'
<1>1. UNCHANGED <<storeVars, ckpt, inflight, faults>>
  BY DEF crash
<1>2. [Next]_storeVars /\ workOrders' = workOrders
  BY <1>1 DEF storeVars
<1>3. <<>> \in Seq(Checkpoints)
  OBVIOUS
<1>4. RootTypeOK'
  BY <1>1, <1>3, RootAssumption DEF crash, far_behind, GraphInv, RootTypeOK
<1>5. \A q \in Operations : run'[q] = NoValue /\ unsaved'[q] = <<>> /\ decided'[q] = NoValue
  BY DEF crash
<1>6. \A q \in Operations : ThreadOK(q) /\ DecidedOK(decided'[q], run'[q], ckpt'[q], boot')
  BY <1>1, <1>5, ThreadLost DEF DecidedOK
<1> QED
  BY <1>1, <1>2, <1>4, <1>6, InvStep, WorkKept

\* The recovery of one operation.
LEMMA RecoverKeeps ==
    ASSUME GraphInv, NEW o \in Operations, recover(o)
    PROVE  [Next]_storeVars /\ GraphInv'
<1>1. /\ boot = "recovering" /\ run[o] = NoValue
      /\ todo' = todo \ {o}
      /\ UNCHANGED <<ckpt, decided, capturing, inflight, boot, faults, crashes, setBack>>
  BY DEF recover
<1>2. \A q \in Operations : decided[q] = NoValue
  BY <1>1 DEF GraphInv, DecidedOK
<1>3. \A q \in Operations : DecidedOK(decided'[q], run'[q], ckpt'[q], boot')
  BY <1>1, <1>2 DEF DecidedOK
<1>4. (\E e \in Errors : mark_failed(o, e)) \/ UNCHANGED storeVars
  BY DEF recover
<1>5. [Next]_storeVars /\ workOrders' = workOrders
  BY <1>4 DEF Next, ExecutionNext, mark_failed, transition, storeVars
<1>6. CASE UNCHANGED <<run, unsaved>>
  <2>1. RootTypeOK'
    BY <1>1, <1>6 DEF GraphInv, RootTypeOK
  <2> QED
    BY <1>1, <1>2, <1>5, <1>6, <2>1, QuietKeeps
<1>7. CASE /\ recovery_action(o) = "rebuild"
           /\ run' = [run EXCEPT ![o] =
                         [by |-> "recover", node |-> "encode_goal", state |-> InitialState]]
           /\ unsaved' = [unsaved EXCEPT ![o] =
                             <<[node |-> "encode_goal", state |-> InitialState]>>]
           /\ UNCHANGED storeVars
  <2>1. status[o] = "received" /\ status' = status
    <3>1. ckpt[o] = NoValue /\ status[o] = "received"
      BY <1>7 DEF recovery_action
    <3> QED
      BY <1>7, <3>1 DEF storeVars, opVars
  <2>2. PICK r : r = [by |-> "recover", node |-> "encode_goal", state |-> InitialState]
    OBVIOUS
  <2>3. /\ r \in Runs /\ r # NoValue /\ r.node \notin StopNodes
        /\ Here(r) = [node |-> "encode_goal", state |-> InitialState]
        /\ Here(r) \in Checkpoints
        /\ PlaceOK(Here(r), status'[o])
    BY <2>1, <2>2, FirstPlace DEF Callers
  <2>4. run' = [run EXCEPT ![o] = r] /\ unsaved' = [unsaved EXCEPT ![o] = <<Here(r)>>]
    BY <1>7, <2>2, <2>3
  <2>5. <<Here(r)>> \in Seq(Checkpoints)
    BY <2>3
  <2>6. /\ run'[o] = r /\ unsaved'[o] = <<Here(r)>>
        /\ \A q \in Operations : q # o => run'[q] = run[q] /\ unsaved'[q] = unsaved[q]
        /\ run' \in [Operations -> Runs \cup {NoValue}]
        /\ unsaved' \in [Operations -> Seq(Checkpoints)]
    BY <2>3, <2>4, <2>5 DEF GraphInv, RootTypeOK
  <2>7. RootTypeOK'
    BY <1>1, <2>6 DEF GraphInv, RootTypeOK
  <2>8. ASSUME NEW q \in Operations PROVE ThreadOK(q)
    <3>1. q = o => ThreadOK(q)
      BY <1>1, <2>3, <2>6, ThreadBegins
    <3>2. q # o => ThreadOK(q)
      BY <1>1, <2>6, ThreadKept
    <3> QED
      BY <3>1, <3>2
  <2> QED
    BY <1>1, <1>3, <1>5, <2>7, <2>8, InvStep, WorkKept
<1>8. CASE /\ recovery_action(o) = "resume_decision"
           /\ \E a \in detail_approval(o) : resume(o, a, "recover")
           /\ UNCHANGED storeVars
  <2>1. PICK a \in detail_approval(o) : resume(o, a, "recover")
    BY <1>8
  <2>2. a \in ApprovalRows
    BY DEF detail_approval, GraphInv, TypeOK
  <2>3. interrupted(o)
    BY <1>8 DEF recovery_action
  <2>4. /\ run' \in [Operations -> Runs \cup {NoValue}]
        /\ unsaved' \in [Operations -> Seq(Checkpoints)]
        /\ run'[o] # NoValue
        /\ run'[o].node \in {"refresh_and_verify", "mark_rejected"}
        /\ unsaved'[o] = <<Here(run'[o])>>
        /\ PlaceOK(Here(run'[o]), status[o])
        /\ \A q \in Operations : q # o => run'[q] = run[q] /\ unsaved'[q] = unsaved[q]
    BY <2>1, <2>2, <2>3, ResumedPlace DEF Callers
  <2>5. RootTypeOK'
    BY <1>1, <2>4 DEF GraphInv, RootTypeOK
  <2>6. status' = status
    BY <1>8 DEF storeVars, opVars
  <2>7. ASSUME NEW q \in Operations PROVE ThreadOK(q)
    <3>1. q = o => ThreadOK(q)
      BY <1>1, <2>4, <2>6, ThreadBegins DEF StopNodes
    <3>2. q # o => ThreadOK(q)
      BY <1>1, <2>4, ThreadKept
    <3> QED
      BY <3>1, <3>2
  <2> QED
    BY <1>1, <1>3, <1>5, <2>5, <2>7, InvStep, WorkKept
<1>9. CASE /\ recovery_action(o) = "continue_checkpoint"
           /\ run' = [run EXCEPT ![o] =
                         [by |-> "recover", node |-> ckpt[o].node, state |-> ckpt[o].state]]
           /\ UNCHANGED <<storeVars, unsaved>>
  <2>1. ckpt[o] # NoValue /\ ~ interrupted(o)
    BY <1>9 DEF recovery_action
  <2>2. /\ ckpt[o] \in Checkpoints /\ ckpt[o].node \in Nodes /\ ckpt[o].state \in GraphStates
        /\ ckpt[o] = Place(ckpt[o].node, ckpt[o].state)
    BY <2>1 DEF interrupted, GraphInv, RootTypeOK, Checkpoints, Place
  <2>3. PICK r : r = [by |-> "recover", node |-> ckpt[o].node, state |-> ckpt[o].state]
    OBVIOUS
  <2>4. r \in Runs /\ Here(r) = ckpt[o]
    BY <2>2, <2>3 DEF Runs, Callers, Here
  <2>5. r # NoValue
    BY <2>4, NoThreadAssumption
  <2>6. /\ run'[o] = r /\ unsaved' = unsaved
        /\ \A q \in Operations : q # o => run'[q] = run[q]
        /\ run' \in [Operations -> Runs \cup {NoValue}]
    BY <1>9, <2>3, <2>4 DEF GraphInv, RootTypeOK
  <2>7. RootTypeOK'
    BY <1>1, <2>6 DEF GraphInv, RootTypeOK
  <2>8. ASSUME NEW q \in Operations PROVE ThreadOK(q)
    <3>1. q = o => ThreadOK(q)
      BY <1>1, <2>1, <2>4, <2>5, <2>6, ThreadContinues
    <3>2. q # o => ThreadOK(q)
      BY <1>1, <2>6, ThreadKept
    <3> QED
      BY <3>1, <3>2
  <2> QED
    BY <1>1, <1>3, <1>5, <2>7, <2>8, InvStep, WorkKept
<1> QED
  BY <1>6, <1>7, <1>8, <1>9 DEF recover

\* The rest of the startup, the scans and the clock.
LEMMA AroundKeeps ==
    ASSUME GraphInv,
           \/ restart \/ (\E o \in Operations : expire_due(o)) \/ list_recoverable \/ serve
           \/ Environment \/ Clock
    PROVE  [Next]_storeVars /\ GraphInv'
<1>1. UNCHANGED <<run, ckpt, unsaved, decided, capturing, inflight, faults, crashes, setBack>>
  BY DEF restart, expire_due, list_recoverable, serve, Environment, Clock, procVars
<1>2. boot' \in {boot, "expiring", "recovering", "serving"} /\ (boot = "serving" => boot' = boot)
  BY DEF restart, expire_due, list_recoverable, serve, Environment, Clock, procVars
<1>3. todo' \subseteq Operations
  BY DEF restart, expire_due, list_recoverable, serve, Environment, Clock, procVars,
         GraphInv, RootTypeOK
<1>4. RootTypeOK'
  BY <1>1, <1>2, <1>3 DEF GraphInv, RootTypeOK
<1>5. [Next]_storeVars /\ workOrders' = workOrders
  <2>1. CASE restart \/ list_recoverable
    BY <2>1 DEF restart, list_recoverable, storeVars
  <2>2. CASE \E o \in Operations : expire_due(o)
    <3>1. now \in 0..now
      BY DEF GraphInv, TypeOK
    <3> QED
      BY <2>2, <3>1 DEF expire_due, Next, DecisionNext, mark_expired, transition
  <2>3. CASE serve
    BY <2>3 DEF serve, Next, SignalNext, reconcile_terminal_links
  <2>4. CASE Environment
    BY <2>4 DEF Environment, Next, SignalNext, upsert_detected, create_successor
  <2>5. CASE Clock
    BY <2>5 DEF Clock, Next, Tick
  <2> QED
    BY <2>1, <2>2, <2>3, <2>4, <2>5
<1>6. \A q \in Operations : decided[q] # NoValue => boot' = boot
  BY <1>2 DEF GraphInv, DecidedOK
<1> QED
  BY <1>1, <1>4, <1>5, <1>6, QuietKeeps

\* Every step of the root graph is a step of the store or leaves it alone,
\* and preserves the invariant.
LEMMA RootNextKeeps ==
    ASSUME GraphInv, [RootNext]_rootVars
    PROVE  [Next]_storeVars /\ GraphInv'
<1>1. CASE UNCHANGED rootVars
  <2>1. UNCHANGED storeVars /\ UNCHANGED procVars
    BY <1>1 DEF rootVars
  <2>2. [Next]_storeVars /\ workOrders' = workOrders
    BY <2>1 DEF storeVars
  <2>3. UNCHANGED <<run, ckpt, unsaved, decided, capturing, inflight, boot, todo, faults,
                    crashes, setBack>>
    BY <2>1 DEF procVars
  <2>4. RootTypeOK'
    BY <2>3 DEF GraphInv, RootTypeOK
  <2> QED
    BY <2>2, <2>3, <2>4, QuietKeeps
<1>2. CASE \E o \in Operations :
            \/ \E req \in Requests : start(o, req)
            \/ GraphStep(o) \/ save_checkpoint(o) \/ late_write(o) \/ run_dies(o)
            \/ capture(o) \/ submit_approval(o) \/ submit_approval_resume(o)
  BY <1>2, StartKeeps, GraphKeeps, SaveKeeps, LateWriteKeeps, DiesKeeps, CaptureKeeps,
     SubmitKeeps, SubmitResumeKeeps
<1>3. CASE Startup
  BY <1>3, AroundKeeps, RecoverKeeps DEF Startup
<1> QED
  BY <1>1, <1>2, <1>3, CrashKeeps, AroundKeeps DEF RootNext

\* The invariant holds initially.
LEMMA RootInitInv == RootInit => GraphInv
<1> SUFFICES ASSUME RootInit
             PROVE  GraphInv
  OBVIOUS
<1>1. TypeOK /\ DecisionInv
  BY InitType, InitDecision DEF RootInit
<1>2. now <= MaxTime
  BY StoreAssumption DEF RootInit, Init
<1>3. <<>> \in Seq(Checkpoints)
  OBVIOUS
<1>4. RootTypeOK
  BY <1>3, RootAssumption DEF RootInit, RootTypeOK
<1>5. ASSUME NEW o \in Operations
      PROVE  /\ \A p \in Places(run[o], ckpt[o], unsaved[o]) : PlaceOK(p, status[o])
             /\ QueueOK(run[o], ckpt[o], unsaved[o])
             /\ DecidedOK(decided[o], run[o], ckpt[o], boot)
             /\ inflight[o] # NoValue \/ work_order_of(o) # {} => status[o] \in AfterExecution
             /\ ResultOK(o)
  <2>1. run[o] = NoValue /\ ckpt[o] = NoValue /\ unsaved[o] = <<>> /\ decided[o] = NoValue
        /\ inflight[o] = NoValue
    BY DEF RootInit
  <2>2. Places(run[o], ckpt[o], unsaved[o]) = {}
    BY <2>1 DEF Places
  <2>3. QueueOK(run[o], ckpt[o], unsaved[o]) /\ DecidedOK(decided[o], run[o], ckpt[o], boot)
    BY <2>1 DEF QueueOK, DecidedOK
  <2>4. work_order_of(o) = {} /\ status[o] = "absent" /\ result[o] = NoValue
    BY DEF RootInit, Init, work_order_of
  <2> QED
    BY <2>1, <2>2, <2>3, <2>4 DEF ResultOK
<1> QED
  BY <1>1, <1>2, <1>4, <1>5 DEF GraphInv

\* The invariant in every behaviour of the root graph.
LEMMA RootGraphInv == RootSpec => []GraphInv
<1>1. GraphInv /\ [RootNext]_rootVars => GraphInv'
  BY RootNextKeeps
<1> QED
  BY <1>1, RootInitInv, PTL DEF RootSpec

\* The graph, its runner, the recovery and the delayed writes use the tables
\* only through the transactions of the store: every theorem about the store
\* holds of the root graph, whatever crashes, fails or lags.
THEOREM RootImplementsStore == RootSpec => Spec
<1>1. RootInit => Init
  BY DEF RootInit
<1>2. GraphInv /\ [RootNext]_rootVars => [Next]_storeVars
  BY RootNextKeeps
<1> QED
  BY <1>1, <1>2, RootGraphInv, PTL DEF RootSpec, Spec

\* Coroutines, checkpoints, pending decisions and delayed writes keep their
\* types.
THEOREM RootTypes == RootSpec => []RootTypeOK
<1>1. GraphInv => RootTypeOK
  BY DEF GraphInv
<1> QED
  BY <1>1, RootGraphInv, PTL

\* load_detail never refuses an operation, however far the checkpoints are
\* behind and whatever is repeated after a crash: a write happens only once the
\* execution has begun, so a rejected, aborted or expired operation has none.
THEOREM RootDetailLoads == RootSpec => []DetailLoads
<1>1. GraphInv => DetailLoads
  <2> SUFFICES ASSUME GraphInv, NEW o \in Operations, status[o] # "absent"
               PROVE  load_detail_succeeds(o)
    BY DEF DetailLoads
  <2>1. approval_view_valid(o)
    BY DEF GraphInv, DecisionInv, DecisionBindsSnapshot, approval_view_valid, detail_approval,
           current_approval
  <2>2. ResultOK(o) /\ (work_order_of(o) # {} => status[o] \in AfterExecution)
    BY DEF GraphInv
  <2>3. terminal_payloads_valid(o)
    BY <2>2 DEF ResultOK, AfterExecution, terminal_payloads_valid
  <2> QED
    BY <2>1, <2>3 DEF load_detail_succeeds
<1> QED
  BY <1>1, RootGraphInv, PTL
-----------------------------------------------------------------------------
(* The inductive invariant about bindings and plans *)

\* A plan that the operation q may write: it is of the binding of the row or
\* of one approved earlier and, unless the thread has been set back, it is
\* that of the row.
PlanOK(q, plan, b, A, sb) ==
    /\ \E x \in Bindings : Consented(q, x, b, A) /\ plan = x.plan
    /\ q \notin sb => plan = b.plan

\* What every place of q promises about the status s, the binding b and the
\* cycle c of the row and the approvals A; f counts the failing calls.
KeptOK(q, p, s, b, c, A, f) ==
    /\ p.node \in StopNodes \cup DecidedNodes => c > 0 /\ Consented(q, p.state.binding, b, A)
    /\ p.node \in ExecutionNodes =>
        \E x \in Bindings : Consented(q, x, b, A) /\ p.state.plan = x.plan
    /\ p.node = "END" => s \in Terminal \/ f # 0

\* What a place promises about the binding b, unless its thread has been set
\* back.
FreshOK(p, b) ==
    /\ p.node \in StopNodes => p.state.binding = b
    /\ p.node \in DecidedNodes =>
        p.state.approval \in ApprovalRows /\ p.state.approval.binding = p.state.binding
    /\ p.node \in ExecutionNodes => p.state.plan = b.plan

\* The places a thread that has not been set back can still go on from: with
\* three checkpoints unsaved, a crash that finds it interrupted sets it back.
Counts(q, p) == q \notin setBack /\ (p.node = "interrupted" => Len(unsaved[q]) <= 2)

\* A graph that has left its interrupt has saved a checkpoint after it before
\* it commits anything: the node after the interrupt only reads, or is the
\* last one.
LeftOK(r, c, u) ==
    r # NoValue /\ r.node # "approval_interrupt" =>
        /\ \A p \in Places(NoValue, c, u) : p.node # "approval_interrupt"
        /\ c # NoValue /\ c.node = "interrupted" =>
            /\ Len(u) >= 1
            /\ Len(u) = 1 => r.node \in {"refresh_and_verify", "mark_rejected"}

\* Without a failing call, a waiting operation whose graph does not run is
\* interrupted, or is still to be visited by the recovery.
WaitOK(o) ==
    faults = 0 /\ status[o] \in AwaitingDecision /\ run[o] = NoValue =>
        \/ interrupted(o)
        \/ boot \in {"down", "expiring"}
        \/ boot = "recovering" /\ o \in todo

BoundInv ==
    \A o \in Operations :
        /\ EventOK(o)
        /\ \A p \in Places(run[o], ckpt[o], unsaved[o]) :
            /\ KeptOK(o, p, status[o], snapshot[o].binding, cycle[o], approvals, faults)
            /\ Counts(o, p) => FreshOK(p, snapshot[o].binding)
        /\ LeftOK(run[o], ckpt[o], unsaved[o])
        /\ decided[o] # NoValue /\ o \notin setBack => decided[o].binding = ckpt[o].state.binding
        /\ inflight[o] # NoValue =>
            PlanOK(o, inflight[o], snapshot[o].binding, approvals, setBack)
        /\ \A w \in work_order_of(o) :
            Approved(o) /\ PlanOK(o, w.payload, snapshot[o].binding, approvals, setBack)
        /\ WaitOK(o)

\* A step asks for a decision.
Asks(q) == status'[q] \in AwaitingDecision /\ status[q] \notin AwaitingDecision

\* What a place promises after a step.
KeptNext(q, p) ==
    KeptOK(q, p, status'[q], snapshot'[q].binding, cycle'[q], approvals', faults')
CountsNext(q, p) == q \notin setBack' /\ (p.node = "interrupted" => Len(unsaved'[q]) <= 2)
StandsNext(q, p) ==
    /\ KeptNext(q, p)
    /\ CountsNext(q, p) => FreshOK(p, snapshot'[q].binding)

\* What may be written after a step.
PlanNext(q, plan) == PlanOK(q, plan, snapshot'[q].binding, approvals', setBack')

\* What a step owes to the graph of q: an old place counts as before, and is
\* not in the interrupt when a decision is asked for, or it does not count.
BoundThread(q) ==
    /\ q \in setBack => q \in setBack'
    /\ \A p \in Places(run'[q], ckpt'[q], unsaved'[q]) :
        \/ /\ p \in Places(run[q], ckpt[q], unsaved[q])
           /\ CountsNext(q, p) => Counts(q, p) /\ (Asks(q) => p.node \notin StopNodes)
        \/ StandsNext(q, p)
    /\ LeftOK(run'[q], ckpt'[q], unsaved'[q])
    /\ decided'[q] # NoValue /\ q \notin setBack' => decided'[q].binding = ckpt'[q].state.binding
    /\ inflight'[q] # NoValue => inflight'[q] = inflight[q] \/ PlanNext(q, inflight'[q])
    /\ \A w \in workOrders' : w.op = q =>
        \/ w \in workOrders
        \/ Approved(q)' /\ PlanNext(q, w.payload)
    /\ WaitOK(q)'

\* What every place promises holds while the tables move on: the binding that
\* a new request replaces has been approved.
LEMMA KeptStays ==
    ASSUME GraphInv, NEW q \in Operations, StoreMoves(q), NEW p, PlaceOK(p, status[q]),
           KeptOK(q, p, status[q], snapshot[q].binding, cycle[q], approvals, faults),
           faults \in Nat, faults' \in Nat, faults <= faults'
    PROVE  KeptNext(q, p)
<1>1. DecisionInv
  BY DEF GraphInv
<1>2. p.node \in StopNodes \cup DecidedNodes =>
          cycle'[q] > 0 /\ Consented(q, p.state.binding, snapshot'[q].binding, approvals')
  BY <1>1, ConsentStays DEF KeptOK, StoreMoves
<1>3. p.node \in ExecutionNodes =>
          \E x \in Bindings :
              Consented(q, x, snapshot'[q].binding, approvals') /\ p.state.plan = x.plan
  BY <1>1, ConsentStays DEF KeptOK, PlaceOK
<1>4. p.node = "END" => status'[q] \in Terminal \/ faults' # 0
  BY DEF KeptOK, StoreMoves
<1> QED
  BY <1>2, <1>3, <1>4 DEF KeptNext, KeptOK

\* A place stays fresh while the tables move on: a new decision is asked for
\* only when no place that counts waits for the old one.
LEMMA FreshStays ==
    ASSUME NEW q \in Operations, StoreMoves(q), NEW p, PlaceOK(p, status[q]),
           FreshOK(p, snapshot[q].binding), Asks(q) => p.node \notin StopNodes
    PROVE  FreshOK(p, snapshot'[q].binding)
<1>1. CASE Asks(q)
  <2>1. status[q] \in {"validating", "resuming"}
    BY <1>1 DEF StoreMoves, Asks
  <2>2. p.node \notin ExecutionNodes
    BY <2>1 DEF PlaceOK, AfterExecution
  <2> QED
    BY <1>1, <2>2 DEF FreshOK
<1>2. CASE ~ Asks(q)
  <2>1. snapshot'[q].binding = snapshot[q].binding
    BY <1>2 DEF StoreMoves, Asks, AwaitingDecision
  <2> QED
    BY <2>1 DEF FreshOK
<1> QED
  BY <1>1, <1>2

\* A plan that may be written may be written later.
LEMMA PlanStays ==
    ASSUME GraphInv, NEW q \in Operations, StoreMoves(q), NEW plan, status[q] \in AfterExecution,
           PlanOK(q, plan, snapshot[q].binding, approvals, setBack), q \in setBack => q \in setBack'
    PROVE  PlanNext(q, plan)
<1>1. DecisionInv
  BY DEF GraphInv
<1>2. \E x \in Bindings : Consented(q, x, snapshot'[q].binding, approvals') /\ plan = x.plan
  BY <1>1, ConsentStays DEF PlanOK
<1>3. snapshot'[q].binding = snapshot[q].binding
  BY DEF StoreMoves, AfterExecution
<1> QED
  BY <1>2, <1>3 DEF PlanOK, PlanNext

\* What a step has to show to preserve the second invariant.
LEMMA BoundStep ==
    ASSUME GraphInv, BoundInv, [Next]_storeVars, faults' \in Nat, faults <= faults',
           \A q \in Operations : BoundThread(q)
    PROVE  BoundInv'
<1> SUFFICES ASSUME NEW q \in Operations
             PROVE  /\ EventOK(q)'
                    /\ \A p \in Places(run'[q], ckpt'[q], unsaved'[q]) : StandsNext(q, p)
                    /\ LeftOK(run'[q], ckpt'[q], unsaved'[q])
                    /\ decided'[q] # NoValue /\ q \notin setBack' =>
                        decided'[q].binding = ckpt'[q].state.binding
                    /\ inflight'[q] # NoValue => PlanNext(q, inflight'[q])
                    /\ \A w \in work_order_of(q)' : Approved(q)' /\ PlanNext(q, w.payload)
                    /\ WaitOK(q)'
  BY DEF BoundInv, StandsNext, KeptNext, CountsNext, Counts, PlanNext
<1>1. StoreMoves(q) /\ faults \in Nat
  BY NextMoves DEF GraphInv, RootTypeOK
<1>2. EventOK(q)'
  BY EventStep DEF GraphInv, BoundInv
<1>3. ASSUME NEW p \in Places(run[q], ckpt[q], unsaved[q]),
             CountsNext(q, p) => Counts(q, p) /\ (Asks(q) => p.node \notin StopNodes)
      PROVE  StandsNext(q, p)
  <2>1. /\ PlaceOK(p, status[q])
        /\ KeptOK(q, p, status[q], snapshot[q].binding, cycle[q], approvals, faults)
        /\ Counts(q, p) => FreshOK(p, snapshot[q].binding)
    BY DEF GraphInv, BoundInv
  <2>2. KeptNext(q, p)
    BY <1>1, <2>1, KeptStays
  <2>3. CountsNext(q, p) => FreshOK(p, snapshot'[q].binding)
    BY <1>1, <1>3, <2>1, FreshStays
  <2> QED
    BY <2>2, <2>3 DEF StandsNext
<1>4. status[q] \in AfterExecution =>
          snapshot'[q].binding = snapshot[q].binding /\ cycle'[q] = cycle[q]
  BY <1>1 DEF StoreMoves, AfterExecution
<1>5. q \in setBack => q \in setBack'
  BY DEF BoundThread
<1>6. inflight'[q] # NoValue => PlanNext(q, inflight'[q])
  <2>1. CASE inflight'[q] # NoValue /\ inflight'[q] = inflight[q]
    <3>1. /\ PlanOK(q, inflight[q], snapshot[q].binding, approvals, setBack)
          /\ status[q] \in AfterExecution
      BY <2>1 DEF GraphInv, BoundInv
    <3> QED
      BY <1>1, <1>5, <2>1, <3>1, PlanStays
  <2> QED
    BY <2>1 DEF BoundThread
<1>7. ASSUME NEW w \in work_order_of(q)'
      PROVE  Approved(q)' /\ PlanNext(q, w.payload)
  <2>1. w \in workOrders' /\ w.op = q
    BY DEF work_order_of
  <2>2. CASE w \in workOrders
    <3>1. w \in work_order_of(q)
      BY <2>1, <2>2 DEF work_order_of
    <3>2. /\ Approved(q) /\ PlanOK(q, w.payload, snapshot[q].binding, approvals, setBack)
          /\ status[q] \in AfterExecution
      BY <3>1 DEF GraphInv, BoundInv
    <3>3. Approved(q)'
      BY <1>1, <1>4, <3>2 DEF StoreMoves, Approved, current_approval
    <3> QED
      BY <1>1, <1>5, <3>2, <3>3, PlanStays
  <2> QED
    BY <2>1, <2>2 DEF BoundThread
<1> QED
  BY <1>2, <1>3, <1>6, <1>7 DEF BoundThread

\* A step that leaves the graph of q alone, and asks for no decision.
LEMMA BoundKept ==
    ASSUME GraphInv, BoundInv, NEW q \in Operations,
           run'[q] = run[q], ckpt'[q] = ckpt[q], unsaved'[q] = unsaved[q],
           decided'[q] \in {decided[q], NoValue}, inflight'[q] \in {inflight[q], NoValue},
           q \in setBack => q \in setBack',
           \A w \in workOrders' : w.op = q => w \in workOrders,
           ~ Asks(q), WaitOK(q)'
    PROVE  BoundThread(q)
<1>1. \A p : CountsNext(q, p) => Counts(q, p)
  BY DEF CountsNext, Counts
<1> QED
  BY <1>1 DEF GraphInv, BoundInv, BoundThread

\* Waiting goes on as before.
LEMMA WaitKept ==
    ASSUME BoundInv, NEW q \in Operations, ~ Asks(q), run'[q] = run[q], ckpt'[q] = ckpt[q],
           faults \in Nat, faults' \in Nat, faults <= faults',
           boot' = boot, q \in todo => q \in todo'
    PROVE  WaitOK(q)'
<1>1. WaitOK(q)
  BY DEF BoundInv
<1>2. faults' = 0 => faults = 0
  OBVIOUS
<1>3. status'[q] \in AwaitingDecision => status[q] \in AwaitingDecision
  BY DEF Asks
<1> QED
  BY <1>1, <1>2, <1>3 DEF WaitOK, interrupted

-----------------------------------------------------------------------------
(* The nodes of the graph *)

\* A place that promises nothing about the row.
LEMMA FreePlace ==
    ASSUME NEW q, NEW p, p.node \notin StopNodes \cup DecidedNodes \cup ExecutionNodes \cup {"END"}
    PROVE  StandsNext(q, p)
BY DEF StandsNext, KeptNext, KeptOK, FreshOK

\* A place at the end of the graph.
LEMMA EndPlace ==
    ASSUME NEW q, NEW s, status'[q] \in Terminal \/ faults' # 0
    PROVE  StandsNext(q, Place("END", s))
BY DEF StandsNext, KeptNext, KeptOK, FreshOK, Place, StopNodes, DecidedNodes, ExecutionNodes

\* Where a node leads.
LEMMA Finished ==
    ASSUME GraphInv, NEW o \in Operations, run[o] # NoValue, NEW n, NEW s, finish(o, n, s)
    PROVE  Here(run'[o]) = Place(n, s)
BY DEF finish, Here, GraphInv, RootTypeOK, Runs

LEMMA Failed ==
    ASSUME GraphInv, NEW o \in Operations, run[o] # NoValue, fail(o)
    PROVE  StandsNext(o, Here(run'[o]))
<1>1. Here(run'[o]) = Place("mark_failed", run[o].state)
  BY Finished DEF fail
<1> QED
  BY <1>1, FreePlace DEF Place, StopNodes, DecidedNodes, ExecutionNodes

LEMMA Continued ==
    ASSUME GraphInv, NEW o \in Operations, run[o] # NoValue, NEW n \in PersistNodes,
           continue(o, n)
    PROVE  StandsNext(o, Here(run'[o]))
<1>1. Here(run'[o]).node = n
  BY DEF continue, Here, Place, GraphInv, RootTypeOK, Runs
<1> QED
  BY <1>1, FreePlace DEF PersistNodes, StopNodes, DecidedNodes, ExecutionNodes

\* The statements before the interrupt that promise nothing yet.
LEMMA InvestigationFresh ==
    ASSUME GraphInv, NEW o \in Operations,
           \/ encode_goal(o) \/ begin_operation(o) \/ investigate(o)
           \/ persist_record_evidence(o) \/ persist_record_validated_plan(o)
           \/ persist_record_query_assessment(o) \/ persist_mark_reporting(o)
    PROVE  StandsNext(o, Here(run'[o]))
<1>1. run[o] # NoValue
  BY DEF encode_goal, begin_operation, investigate, persist_record_evidence,
         persist_record_validated_plan, persist_record_query_assessment,
         persist_mark_reporting, running
<1>2. CASE encode_goal(o) \/ begin_operation(o) \/ investigate(o)
  <2>1. \/ fail(o)
        \/ \E n \in {"begin_operation", "investigate", "record_evidence"} : \E s : finish(o, n, s)
    BY <1>2 DEF encode_goal, begin_operation, investigate, ReadOnly, Call
  <2>2. CASE \E n \in {"begin_operation", "investigate", "record_evidence"} : \E s : finish(o, n, s)
    <3>1. PICK n \in {"begin_operation", "investigate", "record_evidence"} : \E s : finish(o, n, s)
      BY <2>2
    <3>2. PICK s : finish(o, n, s)
      BY <3>1
    <3>3. Here(run'[o]) = Place(n, s)
      BY <1>1, <3>2, Finished
    <3> QED
      BY <3>3, FreePlace DEF Place, StopNodes, DecidedNodes, ExecutionNodes
  <2> QED
    BY <1>1, <2>1, <2>2, Failed
<1>3. CASE \/ persist_record_evidence(o) \/ persist_record_validated_plan(o)
           \/ persist_record_query_assessment(o) \/ persist_mark_reporting(o)
  <2>1. fail(o) \/ \E n \in PersistNodes : continue(o, n)
    BY <1>3 DEF persist_record_evidence, persist_record_validated_plan, PersistNodes,
                persist_record_query_assessment, persist_mark_reporting, Call
  <2> QED
    BY <1>1, <2>1, Failed, Continued
<1> QED
  BY <1>2, <1>3

\* A graph ends with a terminal status, unless a call failed.
LEMMA EndingFresh ==
    ASSUME GraphInv, NEW o \in Operations,
           \/ persist_complete(o) \/ graph_mark_rejected(o) \/ graph_mark_verifier_aborted(o)
           \/ graph_mark_completed(o) \/ graph_mark_failed(o)
    PROVE  StandsNext(o, Here(run'[o]))
<1>1. run[o] # NoValue
  BY DEF persist_complete, graph_mark_rejected, graph_mark_verifier_aborted,
         graph_mark_completed, graph_mark_failed, running
<1>2. \/ fail(o)
      \/ finish(o, "END", run[o].state) /\ (status'[o] \in Terminal \/ faults' # 0)
  <2>1. CASE persist_complete(o)
    BY <2>1 DEF persist_complete, Call, complete_without_replenishment, transition, replayed,
                storeVars, opVars, Terminal, GraphInv, TypeOK
  <2>2. CASE graph_mark_rejected(o)
    BY <2>2 DEF graph_mark_rejected, Call, mark_rejected, transition, replayed,
                storeVars, opVars, Terminal, GraphInv, TypeOK
  <2>3. CASE graph_mark_verifier_aborted(o)
    BY <2>3 DEF graph_mark_verifier_aborted, Call, mark_verifier_aborted, transition, replayed,
                storeVars, opVars, Terminal, GraphInv, TypeOK
  <2>4. CASE graph_mark_completed(o)
    BY <2>4 DEF graph_mark_completed, Call, mark_completed, transition, replayed,
                storeVars, opVars, Terminal, GraphInv, TypeOK
  <2>5. CASE graph_mark_failed(o)
    <3>1. finish(o, "END", run[o].state)
      BY <2>5 DEF graph_mark_failed
    <3>2. \/ \E e \in Errors : mark_failed(o, e)
          \/ status[o] \notin Active /\ status' = status
          \/ faults < MaxFaults /\ faults' = faults + 1
      BY <2>5 DEF graph_mark_failed, storeVars, opVars
    <3>3. faults \in Nat /\ status[o] \in Statuses
      BY <1>1, RunningPlace DEF GraphInv, RootTypeOK, TypeOK, PlaceOK
    <3> QED
      BY <3>1, <3>2, <3>3 DEF mark_failed, transition, Terminal, Statuses, GraphInv, TypeOK
  <2> QED
    BY <2>1, <2>2, <2>3, <2>4, <2>5
<1> QED
  BY <1>1, <1>2, Failed, Finished, EndPlace

\* The graph stops with the binding that the row shows, whether this run or
\* an earlier one asked for the decision.
LEMMA StopFresh ==
    ASSUME GraphInv, BoundInv, NEW o \in Operations,
           persist_mark_awaiting_approval(o) \/ graph_mark_needs_reapproval(o)
    PROVE  StandsNext(o, Here(run'[o]))
<1>1. run[o] # NoValue
  BY DEF persist_mark_awaiting_approval, graph_mark_needs_reapproval, running
<1>2. PICK st : st = run[o].state
  OBVIOUS
<1>3. st \in GraphStates
  BY <1>1, <1>2, RunningPlace
<1>4. ASSUME NEW s, finish(o, "approval_interrupt", s),
             cycle'[o] > 0, s.binding = snapshot'[o].binding
      PROVE  StandsNext(o, Here(run'[o]))
  <2>1. Here(run'[o]) = Place("approval_interrupt", s)
    BY <1>1, <1>4, Finished
  <2>2. KeptNext(o, Place("approval_interrupt", s))
    BY <1>4 DEF KeptNext, KeptOK, Consented, Place, ExecutionNodes
  <2>3. FreshOK(Place("approval_interrupt", s), snapshot'[o].binding)
    BY <1>4 DEF FreshOK, Place, DecidedNodes, ExecutionNodes
  <2> QED
    BY <2>1, <2>2, <2>3 DEF StandsNext
<1>5. CASE persist_mark_awaiting_approval(o)
  <2>1. PICK b, d : b = build_approval_binding(st.evidence, st.plan) /\ d = now + ApprovalTtl
    OBVIOUS
  <2>2. PICK s : s = [st EXCEPT !.binding = b]
    OBVIOUS
  <2>3. s.binding = b
    BY <1>3, <2>2 DEF GraphStates
  <2>4. \/ fail(o)
        \/ finish(o, "approval_interrupt", s) /\ mark_awaiting_approval(o, b, d)
        \/ /\ finish(o, "approval_interrupt", s) /\ UNCHANGED storeVars
           /\ replayed(o, "awaiting_approval", "approval_requested",
                       [binding |-> b, deadline |-> d])
    BY <1>2, <1>5, <2>1, <2>2 DEF persist_mark_awaiting_approval, Call
  <2>5. CASE finish(o, "approval_interrupt", s) /\ mark_awaiting_approval(o, b, d)
    <3>1. cycle'[o] = 1 /\ snapshot'[o].binding = b
      BY <2>5 DEF mark_awaiting_approval, GraphInv, TypeOK, Snapshots
    <3> QED
      BY <1>4, <2>3, <2>5, <3>1
  <2>6. CASE /\ finish(o, "approval_interrupt", s) /\ UNCHANGED storeVars
             /\ replayed(o, "awaiting_approval", "approval_requested",
                         [binding |-> b, deadline |-> d])
    <3>1. status[o] = "awaiting_approval" /\ Tells(o, "approval_requested")
      BY <2>6 DEF replayed, BoundInv, EventOK
    <3>2. b = snapshot[o].binding
      BY <2>6, <3>1, MatchingTells DEF replayed
    <3>3. cycle[o] > 0 /\ snapshot' = snapshot /\ cycle' = cycle
      BY <2>6, <3>1 DEF GraphInv, DecisionInv, CycleFollowsStatus, AwaitingDecision,
                        storeVars, opVars
    <3> QED
      BY <1>4, <2>3, <2>6, <3>2, <3>3
  <2> QED
    BY <1>1, <2>4, <2>5, <2>6, Failed
<1>6. CASE graph_mark_needs_reapproval(o)
  <2>1. PICK s, d : s = [st EXCEPT !.approval = NoValue] /\ d = now + ApprovalTtl
    OBVIOUS
  <2>2. s.binding = st.binding
    BY <1>3, <2>1 DEF GraphStates
  <2>3. \/ fail(o)
        \/ /\ finish(o, "approval_interrupt", s)
           /\ mark_needs_reapproval(o, st.approval, st.evidence, st.plan, st.binding, d)
        \/ /\ finish(o, "approval_interrupt", s) /\ UNCHANGED storeVars
           /\ replayed(o, "needs_reapproval", "reapproval_requested",
                       [approval |-> st.approval, binding |-> st.binding])
    BY <1>2, <1>6, <2>1 DEF graph_mark_needs_reapproval, Call
  <2>4. CASE /\ finish(o, "approval_interrupt", s)
             /\ mark_needs_reapproval(o, st.approval, st.evidence, st.plan, st.binding, d)
    <3>1. cycle'[o] > 0 /\ snapshot'[o].binding = st.binding
      BY <2>4 DEF mark_needs_reapproval, GraphInv, TypeOK
    <3> QED
      BY <1>4, <2>2, <2>4, <3>1
  <2>5. CASE /\ finish(o, "approval_interrupt", s) /\ UNCHANGED storeVars
             /\ replayed(o, "needs_reapproval", "reapproval_requested",
                         [approval |-> st.approval, binding |-> st.binding])
    <3>1. status[o] = "needs_reapproval" /\ Tells(o, "reapproval_requested")
      BY <2>5 DEF replayed, BoundInv, EventOK
    <3>2. st.binding = snapshot[o].binding
      BY <2>5, <3>1, MatchingTells DEF replayed
    <3>3. cycle[o] > 0 /\ snapshot' = snapshot /\ cycle' = cycle
      BY <2>5, <3>1 DEF GraphInv, DecisionInv, CycleFollowsStatus, AwaitingDecision,
                        storeVars, opVars
    <3> QED
      BY <1>4, <2>2, <2>5, <3>2, <3>3
  <2> QED
    BY <1>1, <2>3, <2>4, <2>5, Failed
<1> QED
  BY <1>5, <1>6

\* What the place of a running graph promises.
LEMMA RunningFresh ==
    ASSUME GraphInv, BoundInv, NEW o \in Operations, run[o] # NoValue
    PROVE  /\ KeptOK(o, Here(run[o]), status[o], snapshot[o].binding, cycle[o], approvals, faults)
           /\ o \notin setBack => FreshOK(Here(run[o]), snapshot[o].binding)
<1>1. Here(run[o]) \in Places(run[o], ckpt[o], unsaved[o]) /\ Here(run[o]).node # "interrupted"
  BY RunningPlace, NodeNames
<1>2. o \notin setBack => Counts(o, Here(run[o]))
  BY <1>1 DEF Counts
<1> QED
  BY <1>1, <1>2 DEF BoundInv

\* After a decision: the execution begins with the plan of the row, because
\* the approval of the current cycle, and the one whose execution has begun,
\* are about the binding of the row.
LEMMA ApprovedFresh ==
    ASSUME GraphInv, BoundInv, NEW o \in Operations,
           refresh_and_verify(o) \/ graph_mark_executing(o)
    PROVE  StandsNext(o, Here(run'[o]))
<1>1. run[o] # NoValue /\ run[o].node \in {"refresh_and_verify", "mark_executing"}
  BY DEF refresh_and_verify, graph_mark_executing, running
<1>2. PICK st : st = run[o].state
  OBVIOUS
<1>3. run[o].node \in DecidedNodes /\ run[o].node \in BoundNodes
  BY <1>1 DEF DecidedNodes, BoundNodes
<1>4. st \in GraphStates /\ IsBound(st)
  BY <1>1, <1>2, <1>3, RunningPlace DEF PlaceOK
<1>5. /\ cycle[o] > 0 /\ Consented(o, st.binding, snapshot[o].binding, approvals)
      /\ o \notin setBack => st.approval \in ApprovalRows /\ st.approval.binding = st.binding
  BY <1>1, <1>2, <1>3, RunningPlace, RunningFresh DEF KeptOK, FreshOK
<1>f. setBack' = setBack
  BY DEF refresh_and_verify, graph_mark_executing, Call, ReadOnly
<1>6. CASE refresh_and_verify(o)
  <2>1. CASE \E n \in {"mark_verifier_aborted", "mark_executing"} : finish(o, n, run[o].state)
    <3>1. PICK n \in {"mark_verifier_aborted", "mark_executing"} : finish(o, n, st)
      BY <1>2, <2>1
    <3>2. Here(run'[o]) = Place(n, st)
      BY <1>1, <3>1, Finished
    <3>3. UNCHANGED <<cycle, snapshot, approvals>>
      BY <1>6 DEF refresh_and_verify, ReadOnly, storeVars, opVars
    <3>4. KeptNext(o, Place(n, st))
      BY <1>5, <3>3 DEF KeptNext, KeptOK, Place, ExecutionNodes
    <3>5. o \notin setBack => FreshOK(Place(n, st), snapshot'[o].binding)
      BY <1>5 DEF FreshOK, Place, StopNodes, ExecutionNodes
    <3> QED
      BY <1>f, <3>2, <3>4, <3>5 DEF StandsNext, CountsNext
  <2>2. CASE \E s \in GraphStates : IsBound(s) /\ finish(o, "mark_needs_reapproval", s)
    <3>1. PICK s \in GraphStates : finish(o, "mark_needs_reapproval", s)
      BY <2>2
    <3>2. Here(run'[o]) = Place("mark_needs_reapproval", s)
      BY <1>1, <3>1, Finished
    <3> QED
      BY <3>2, FreePlace DEF Place, StopNodes, DecidedNodes, ExecutionNodes
  <2> QED
    BY <1>1, <1>6, <2>1, <2>2, VerifiedPlace, Failed
<1>7. CASE graph_mark_executing(o)
  <2>1. \/ fail(o)
        \/ /\ finish(o, "execute_work_order", st)
           /\ approval_locator(o, st.approval, "approved") /\ mark_executing(o, st.approval)
        \/ /\ finish(o, "execute_work_order", st) /\ UNCHANGED storeVars
           /\ replayed(o, "executing", "execution_started", st.approval)
    BY <1>2, <1>7 DEF graph_mark_executing, Call
  <2>2. ASSUME finish(o, "execute_work_order", st), UNCHANGED <<snapshot, approvals>>,
               st.approval.binding = snapshot[o].binding
        PROVE  StandsNext(o, Here(run'[o]))
    <3>1. Here(run'[o]) = Place("execute_work_order", st)
      BY <1>1, <2>2, Finished
    <3>2. st.binding \in Bindings /\ st.plan = st.binding.plan
      BY <1>4 DEF IsBound, build_approval_binding, Bindings
    <3>3. KeptNext(o, Place("execute_work_order", st))
      BY <1>5, <2>2, <3>2 DEF KeptNext, KeptOK, Place, StopNodes, DecidedNodes
    <3>4. o \notin setBack => FreshOK(Place("execute_work_order", st), snapshot'[o].binding)
      BY <1>5, <2>2, <3>2 DEF FreshOK, Place, StopNodes, DecidedNodes
    <3> QED
      BY <1>f, <3>1, <3>3, <3>4 DEF StandsNext, CountsNext
  <2>3. CASE /\ finish(o, "execute_work_order", st)
             /\ approval_locator(o, st.approval, "approved") /\ mark_executing(o, st.approval)
    <3>1. st.approval.binding = snapshot[o].binding
      BY <2>3 DEF approval_locator, GraphInv, DecisionInv, DecisionBindsSnapshot, current_approval
    <3>2. UNCHANGED <<snapshot, approvals>>
      BY <2>3 DEF mark_executing, transition
    <3> QED
      BY <2>2, <2>3, <3>1, <3>2
  <2>4. CASE /\ finish(o, "execute_work_order", st) /\ UNCHANGED storeVars
             /\ replayed(o, "executing", "execution_started", st.approval)
    <3>1. status[o] = "executing" /\ Tells(o, "execution_started")
      BY <2>4 DEF replayed, BoundInv, EventOK
    <3>2. st.approval.binding = snapshot[o].binding
      BY <2>4, <3>1, MatchingTells DEF replayed
    <3>3. UNCHANGED <<snapshot, approvals>>
      BY <2>4 DEF storeVars, opVars
    <3> QED
      BY <2>2, <2>4, <3>2, <3>3
  <2> QED
    BY <1>1, <2>1, <2>3, <2>4, Failed
<1> QED
  BY <1>6, <1>7

\* During the execution the plan stays one that may be written.
LEMMA ExecutionFresh ==
    ASSUME GraphInv, BoundInv, NEW o \in Operations,
           execute_work_order(o) \/ graph_mark_verifying(o) \/ verify_work_order(o)
    PROVE  /\ StandsNext(o, Here(run'[o]))
           /\ PlanNext(o, run[o].state.plan)
<1>1. /\ run[o] # NoValue /\ run[o].node \in ExecutionNodes
  BY DEF execute_work_order, graph_mark_verifying, verify_work_order, running, ExecutionNodes
<1>2. PICK st : st = run[o].state
  OBVIOUS
<1>3. st \in GraphStates /\ PlanOK(o, st.plan, snapshot[o].binding, approvals, setBack)
  BY <1>1, <1>2, RunningPlace, RunningFresh DEF KeptOK, FreshOK, PlanOK
<1>4. UNCHANGED <<snapshot, approvals, setBack>>
  BY DEF execute_work_order, graph_mark_verifying, verify_work_order, Call, ReadOnly,
         create_or_get, mark_verifying, transition, storeVars, opVars
<1>5. PICK s : s = [st EXCEPT !.work = [op |-> o, payload |-> st.plan]]
  OBVIOUS
<1>6. s.plan = st.plan
  BY <1>3, <1>5 DEF GraphStates
<1>7. \/ fail(o)
      \/ finish(o, "mark_verifying", s)
      \/ finish(o, "verify_work_order", st)
      \/ finish(o, "mark_completed", st)
  BY <1>2, <1>5 DEF execute_work_order, graph_mark_verifying, verify_work_order, Call, ReadOnly,
                    scenario_work_order_payload
<1>8. ASSUME NEW n \in ExecutionNodes, NEW t, t.plan = st.plan, finish(o, n, t)
      PROVE  StandsNext(o, Here(run'[o]))
  <2>1. Here(run'[o]) = Place(n, t)
    BY <1>1, <1>8, Finished
  <2>2. KeptNext(o, Place(n, t))
    BY <1>3, <1>4, <1>8 DEF PlanOK, KeptNext, KeptOK, Place, StopNodes, DecidedNodes, ExecutionNodes
  <2>3. o \notin setBack => FreshOK(Place(n, t), snapshot'[o].binding)
    BY <1>3, <1>4, <1>8 DEF PlanOK, FreshOK, Place, StopNodes, DecidedNodes, ExecutionNodes
  <2> QED
    BY <1>4, <2>1, <2>2, <2>3 DEF StandsNext, CountsNext
<1>9. {"mark_verifying", "verify_work_order", "mark_completed"} \subseteq ExecutionNodes
  BY DEF ExecutionNodes
<1>10. StandsNext(o, Here(run'[o]))
  BY <1>1, <1>6, <1>7, <1>8, <1>9, Failed
<1> QED
  BY <1>2, <1>3, <1>4, <1>10 DEF PlanNext

\* A node leaves the rows of the other operations alone, and two nodes ask
\* for a decision.
LEMMA NodeTouches ==
    ASSUME GraphInv, NEW o \in Operations, GraphStep(o)
    PROVE  /\ \A q \in Operations : q # o => status'[q] = status[q]
           /\ Asks(o) => \/ running(o, "mark_awaiting_approval") /\ status[o] = "validating"
                         \/ running(o, "mark_needs_reapproval")
<1> USE DEF Call, ReadOnly, GraphInv, TypeOK, Asks, AwaitingDecision
<1>1. CASE \/ encode_goal(o) \/ investigate(o) \/ approval_interrupt(o) \/ refresh_and_verify(o)
           \/ verify_work_order(o) \/ graph_end(o)
  BY <1>1 DEF encode_goal, investigate, approval_interrupt, refresh_and_verify,
              verify_work_order, graph_end, storeVars, opVars
<1>2. CASE \/ begin_operation(o) \/ persist_record_evidence(o) \/ persist_record_validated_plan(o)
           \/ persist_record_query_assessment(o) \/ persist_mark_reporting(o)
  BY <1>2 DEF begin_operation, persist_record_evidence, persist_record_validated_plan,
              persist_record_query_assessment, persist_mark_reporting, mark_gathering_evidence,
              record_evidence, record_validated_plan, record_query_assessment, mark_reporting,
              transition, storeVars, opVars
<1>3. CASE persist_complete(o) \/ graph_mark_rejected(o) \/ graph_mark_verifier_aborted(o)
  BY <1>3 DEF persist_complete, graph_mark_rejected, graph_mark_verifier_aborted,
              complete_without_replenishment, mark_rejected, mark_verifier_aborted,
              transition, storeVars, opVars
<1>4. CASE \/ graph_mark_executing(o) \/ execute_work_order(o) \/ graph_mark_verifying(o)
           \/ graph_mark_completed(o) \/ graph_mark_failed(o)
  BY <1>4 DEF graph_mark_executing, execute_work_order, graph_mark_verifying,
              graph_mark_completed, graph_mark_failed, mark_executing, create_or_get,
              mark_verifying, mark_completed, mark_failed, transition, storeVars, opVars
<1>5. CASE persist_mark_awaiting_approval(o) \/ graph_mark_needs_reapproval(o)
  BY <1>5 DEF persist_mark_awaiting_approval, graph_mark_needs_reapproval, running,
              mark_awaiting_approval, mark_needs_reapproval, transition, storeVars, opVars
<1> QED
  BY <1>1, <1>2, <1>3, <1>4, <1>5 DEF GraphStep

\* A graph that asks for a decision again has no place left in the interrupt
\* of the decision before, or it is three checkpoints ahead of that place, and
\* a crash sets it back: this is where the lag of the checkpointer counts.
LEMMA AsksOnce ==
    ASSUME GraphInv, BoundInv, NEW o \in Operations, Lands(o), Asks(o),
           \/ running(o, "mark_awaiting_approval") /\ status[o] = "validating"
           \/ running(o, "mark_needs_reapproval"),
           NEW p \in Places(run[o], ckpt[o], unsaved[o]), CountsNext(o, p)
    PROVE  p.node \notin StopNodes
<1>1. CASE status[o] = "validating"
  <2>1. cycle[o] = 0
    BY <1>1 DEF GraphInv, DecisionInv, CycleFollowsStatus, Investigating
  <2>2. KeptOK(o, p, status[o], snapshot[o].binding, cycle[o], approvals, faults)
    BY DEF BoundInv
  <2> QED
    BY <2>1, <2>2 DEF KeptOK
<1>2. CASE running(o, "mark_needs_reapproval")
  <2>1. run[o] # NoValue /\ run[o].node = "mark_needs_reapproval"
    BY <1>2 DEF running
  <2>2. PICK c, u : c = ckpt[o] /\ u = unsaved[o]
    OBVIOUS
  <2>3. u \in Seq(Checkpoints) /\ Len(u) \in Nat
    BY <2>2 DEF GraphInv, RootTypeOK
  <2>4. Len(unsaved'[o]) = Len(u) + 1
    <3>1. run[o].node \notin PersistNodes
      BY <2>1 DEF PersistNodes
    <3> QED
      BY <2>2, <2>3, <3>1 DEF Lands
  <2>5. LeftOK(run[o], c, u) /\ QueueOK(run[o], c, u)
    <3>1. LeftOK(run[o], ckpt[o], unsaved[o])
      BY DEF BoundInv
    <3>2. QueueOK(run[o], ckpt[o], unsaved[o])
      BY DEF GraphInv
    <3> QED
      BY <2>2, <3>1, <3>2
  <2>6. p = c /\ c # NoValue => c.node # "interrupted"
    <3>1. \A n \in Nat : n >= 1 /\ n # 1 => ~ (n + 1 <= 2)
      OBVIOUS
    <3>2. run[o].node \notin {"approval_interrupt", "refresh_and_verify", "mark_rejected"}
      BY <2>1
    <3> QED
      BY <2>1, <2>3, <2>4, <2>5, <3>1, <3>2 DEF LeftOK, CountsNext
  <2>7. \A x \in Places(NoValue, c, u) : x.node # "approval_interrupt"
    BY <2>1, <2>5 DEF LeftOK
  <2>8. \/ p = Here(run[o])
        \/ c # NoValue /\ p = c
        \/ \E i \in 1..Len(u) : p = u[i]
    BY <2>2, InPlaces
  <2>9. CASE p = Here(run[o])
    BY <2>1, <2>9 DEF Here, Place, StopNodes
  <2>10. CASE c # NoValue /\ p = c
    <3>1. p \in Places(NoValue, c, u)
      BY <2>10, InPlaces
    <3> QED
      BY <2>6, <2>7, <2>10, <3>1 DEF StopNodes
  <2>11. CASE \E i \in 1..Len(u) : p = u[i]
    <3>1. p \in Places(NoValue, c, u)
      BY <2>11, InPlaces
    <3>2. p.node # "interrupted"
      BY <2>5, <2>11 DEF QueueOK
    <3> QED
      BY <2>7, <3>1, <3>2 DEF StopNodes
  <2> QED
    BY <2>8, <2>9, <2>10, <2>11
<1> QED
  BY <1>1, <1>2

\* A graph that goes on after its interrupt leaves it behind.
LEMMA LeftLands ==
    ASSUME GraphInv, BoundInv, NEW o \in Operations, Lands(o)
    PROVE  LeftOK(run'[o], ckpt'[o], unsaved'[o])
<1> SUFFICES ASSUME run'[o].node # "approval_interrupt"
             PROVE  LeftOK(run'[o], ckpt'[o], unsaved'[o])
  BY DEF LeftOK
<1>1. PICK c, u, v, h : c = ckpt[o] /\ u = unsaved[o] /\ v = unsaved'[o] /\ h = Here(run'[o])
  OBVIOUS
<1>2. /\ ckpt'[o] = c /\ run[o] # NoValue /\ run'[o] # NoValue
      /\ run[o].node # "approval_interrupt"
      /\ h.node = run'[o].node
      /\ \/ v = Append(u, h)
         \/ v = u /\ run[o].node \in PersistNodes
  BY <1>1 DEF Lands, Here, Place
<1>3. u \in Seq(Checkpoints) /\ Len(u) \in Nat /\ h \in Checkpoints
  <2>1. run'[o] \in Runs
    BY <1>2 DEF Lands
  <2>2. h \in Checkpoints
    BY <1>1, <2>1 DEF Here, Place, Runs, Checkpoints
  <2> QED
    BY <1>1, <2>2 DEF GraphInv, RootTypeOK
<1>4. /\ \A p \in Places(NoValue, c, u) : p.node # "approval_interrupt"
      /\ c # NoValue /\ c.node = "interrupted" =>
            /\ Len(u) >= 1
            /\ Len(u) = 1 => run[o].node \in {"refresh_and_verify", "mark_rejected"}
  BY <1>1, <1>2 DEF BoundInv, LeftOK
<1>5. CASE v = u /\ run[o].node \in PersistNodes
  <2>1. run[o].node \notin {"refresh_and_verify", "mark_rejected"}
    BY <1>5 DEF PersistNodes
  <2> QED
    BY <1>1, <1>2, <1>4, <1>5, <2>1 DEF LeftOK
<1>6. CASE v = Append(u, h)
  <2>1. Len(v) = Len(u) + 1 /\ v[Len(u) + 1] = h /\ \A i \in 1..Len(u) : v[i] = u[i]
    BY <1>3, <1>6
  <2>2. ASSUME NEW p \in Places(NoValue, c, v) PROVE p.node # "approval_interrupt"
    <3>1. (c # NoValue /\ p = c) \/ \E i \in 1..Len(v) : p = v[i]
      BY InPlaces
    <3>2. CASE c # NoValue /\ p = c
      BY <1>4, <3>2, InPlaces
    <3>3. CASE \E i \in 1..Len(v) : p = v[i]
      <4>1. PICK i \in 1..Len(v) : p = v[i]
        BY <3>3
      <4>2. CASE i \in 1..Len(u)
        <5>1. p \in Places(NoValue, c, u)
          BY <2>1, <4>1, <4>2, InPlaces
        <5> QED
          BY <1>4, <5>1
      <4>3. CASE i = Len(u) + 1
        BY <1>2, <2>1, <4>1, <4>3
      <4> QED
        BY <1>3, <2>1, <4>1, <4>2, <4>3
    <3> QED
      BY <3>1, <3>2, <3>3
  <2>3. c # NoValue /\ c.node = "interrupted" => Len(v) >= 1 /\ Len(v) # 1
    BY <1>3, <1>4, <2>1
  <2> QED
    BY <1>1, <1>2, <2>2, <2>3 DEF LeftOK
<1> QED
  BY <1>2, <1>5, <1>6

\* The nodes that end in another node preserve the second invariant.
LEMMA NodeBound ==
    ASSUME GraphInv, BoundInv, NEW o \in Operations, GraphStep(o),
           NodeStep(o), StandsNext(o, Here(run'[o])),
           \/ workOrders' = workOrders
           \/ /\ create_or_get(o, run[o].state.plan)
              /\ PlanNext(o, run[o].state.plan),
           \/ inflight' = inflight
           \/ /\ inflight' = [inflight EXCEPT ![o] = run[o].state.plan]
              /\ PlanNext(o, run[o].state.plan)
    PROVE  BoundInv'
<1>1. [Next]_storeVars /\ Lands(o) /\ PlaceOK(Here(run'[o]), status'[o])
  BY DEF NodeStep
<1>2. faults \in Nat /\ faults' \in Nat /\ faults <= faults'
  BY <1>1 DEF Lands, GraphInv, RootTypeOK
<1>3. UNCHANGED <<ckpt, decided, boot, todo, setBack>>
  BY <1>1 DEF Lands
<1>4. ASSUME NEW q \in Operations, q # o PROVE BoundThread(q)
  <2>1. run'[q] = run[q] /\ unsaved'[q] = unsaved[q] /\ status'[q] = status[q]
    BY <1>1, <1>4, NodeTouches DEF Lands
  <2>2. ~ Asks(q)
    BY <2>1 DEF Asks
  <2>3. inflight'[q] = inflight[q]
    BY <1>4 DEF GraphInv, RootTypeOK
  <2>4. \A w \in workOrders' : w.op = q => w \in workOrders
    BY <1>4 DEF create_or_get
  <2>5. WaitOK(q)'
    BY <1>2, <1>3, <2>1, <2>2, WaitKept
  <2> QED
    BY <1>3, <2>1, <2>2, <2>3, <2>4, <2>5, BoundKept
<1>5. BoundThread(o)
  <2>1. PICK u, v, h : u = unsaved[o] /\ v = unsaved'[o] /\ h = Here(run'[o])
    OBVIOUS
  <2>2. u \in Seq(Checkpoints) /\ h \in Checkpoints
    BY <1>1, <2>1 DEF GraphInv, RootTypeOK, PlaceOK
  <2>3. v = u \/ v = Append(u, h)
    BY <1>1, <2>1 DEF Lands
  <2>4. run'[o] # NoValue /\ ckpt'[o] = ckpt[o]
    BY <1>1 DEF Lands
  <2>5. \A p \in Places(run'[o], ckpt'[o], unsaved'[o]) :
            p \in Places(run[o], ckpt[o], unsaved[o]) \/ p = h
    BY <2>1, <2>2, <2>3, <2>4, PlacesGrow
  <2>6. ASSUME NEW p \in Places(run[o], ckpt[o], unsaved[o]), CountsNext(o, p)
        PROVE  Counts(o, p) /\ (Asks(o) => p.node \notin StopNodes)
    <3>1. Len(u) \in Nat /\ (Len(v) = Len(u) \/ Len(v) = Len(u) + 1)
      BY <2>2, <2>3
    <3>2. Counts(o, p)
      BY <1>3, <2>1, <2>6, <3>1 DEF Counts, CountsNext
    <3> QED
      BY <1>1, <2>6, <3>2, NodeTouches, AsksOnce
  <2>7. LeftOK(run'[o], ckpt'[o], unsaved'[o])
    BY <1>1, LeftLands
  <2>8. decided'[o] # NoValue /\ o \notin setBack' => decided'[o].binding = ckpt'[o].state.binding
    BY <1>3 DEF BoundInv
  <2>9. inflight'[o] # NoValue =>
            inflight'[o] = inflight[o] \/ PlanNext(o, inflight'[o])
    BY DEF GraphInv, RootTypeOK
  <2>10. ASSUME NEW w \in workOrders', w.op = o
         PROVE  w \in workOrders \/ (Approved(o)' /\ PlanNext(o, w.payload))
    <3>1. CASE workOrders' = workOrders
      BY <3>1
    <3>2. CASE /\ create_or_get(o, run[o].state.plan)
               /\ PlanNext(o, run[o].state.plan)
      <4>1. w \in workOrders \/ w.payload = run[o].state.plan
        BY <3>2 DEF create_or_get
      <4>2. Approved(o)'
        BY <3>2 DEF create_or_get, write_authorized, Approved, current_approval
      <4> QED
        BY <3>2, <4>1, <4>2
    <3> QED
      BY <3>1, <3>2
  <2>11. WaitOK(o)'
    BY <2>4 DEF WaitOK
  <2> QED
    BY <1>3, <2>1, <2>5, <2>6, <2>7, <2>8, <2>9, <2>10, <2>11 DEF BoundThread
<1> QED
  BY <1>1, <1>2, <1>4, <1>5, BoundStep

\* Every step of a graph preserves the second invariant.
LEMMA GraphBound ==
    ASSUME GraphInv, BoundInv, NEW o \in Operations, GraphStep(o)
    PROVE  BoundInv'
<1>1. CASE \/ encode_goal(o) \/ begin_operation(o) \/ investigate(o)
           \/ persist_record_evidence(o) \/ persist_record_validated_plan(o)
           \/ persist_record_query_assessment(o) \/ persist_mark_reporting(o)
           \/ persist_complete(o) \/ persist_mark_awaiting_approval(o)
           \/ graph_mark_rejected(o) \/ graph_mark_verifier_aborted(o)
           \/ graph_mark_completed(o) \/ graph_mark_failed(o)
           \/ refresh_and_verify(o) \/ graph_mark_needs_reapproval(o) \/ graph_mark_executing(o)
  <2>1. NodeStep(o) /\ UNCHANGED <<workOrders, inflight>>
    BY <1>1, InvestigationStep, PersistStep, PersistEndStep, EndingStep, ApprovedStep
  <2>2. StandsNext(o, Here(run'[o]))
    BY <1>1, InvestigationFresh, EndingFresh, StopFresh, ApprovedFresh
  <2> QED
    BY <2>1, <2>2, NodeBound
<1>2. CASE execute_work_order(o) \/ graph_mark_verifying(o) \/ verify_work_order(o)
  <2>1. /\ NodeStep(o)
        /\ workOrders' = workOrders \/ create_or_get(o, run[o].state.plan)
        /\ inflight' = inflight \/ inflight' = [inflight EXCEPT ![o] = run[o].state.plan]
    BY <1>2, ExecutionStep
  <2>2. StandsNext(o, Here(run'[o])) /\ PlanNext(o, run[o].state.plan)
    BY <1>2, ExecutionFresh
  <2> QED
    BY <2>1, <2>2, NodeBound
<1>3. CASE approval_interrupt(o)
  <2>1. UNCHANGED <<storeVars, decided, inflight, boot, todo, faults, setBack>>
    BY <1>3 DEF approval_interrupt
  <2>2. [Next]_storeVars /\ UNCHANGED <<status, snapshot, cycle, approvals, workOrders>>
    BY <2>1 DEF storeVars, opVars
  <2>3. /\ run[o] # NoValue /\ run[o].node = "approval_interrupt"
    BY <1>3 DEF approval_interrupt, running
  <2>4. /\ ckpt'[o] # NoValue /\ ckpt'[o].node = "interrupted" /\ ckpt'[o].state = run[o].state
        /\ run'[o] = NoValue /\ unsaved'[o] = <<>>
        /\ \A q \in Operations : q # o =>
               run'[q] = run[q] /\ ckpt'[q] = ckpt[q] /\ unsaved'[q] = unsaved[q]
    BY <1>3, ThreadStops
  <2>5. \A q \in Operations : ~ Asks(q)
    BY <2>2 DEF Asks
  <2>6. faults \in Nat /\ faults' \in Nat /\ faults <= faults'
    BY <2>1 DEF GraphInv, RootTypeOK
  <2>7. ASSUME NEW q \in Operations, q # o PROVE BoundThread(q)
    <3>1. WaitOK(q)'
      BY <2>1, <2>4, <2>5, <2>6, <2>7, WaitKept
    <3> QED
      BY <2>1, <2>2, <2>4, <2>5, <2>7, <3>1, BoundKept
  <2>8. BoundThread(o)
    <3>1. /\ cycle[o] > 0
          /\ Consented(o, run[o].state.binding, snapshot[o].binding, approvals)
          /\ o \notin setBack => run[o].state.binding = snapshot[o].binding
      BY <2>3, RunningPlace, RunningFresh DEF KeptOK, FreshOK, StopNodes
    <3>2. StandsNext(o, ckpt'[o])
      BY <2>1, <2>2, <2>4, <3>1 DEF StandsNext, KeptNext, KeptOK, CountsNext, FreshOK,
                                    DecidedNodes, ExecutionNodes
    <3>3. \A p \in Places(run'[o], ckpt'[o], unsaved'[o]) : p = ckpt'[o]
      BY <2>4 DEF Places
    <3>4. LeftOK(run'[o], ckpt'[o], unsaved'[o]) /\ WaitOK(o)'
      BY <2>4 DEF LeftOK, WaitOK, interrupted
    <3>5. decided'[o] = NoValue /\ inflight'[o] = inflight[o]
      BY <2>1, <2>3 DEF GraphInv, DecidedOK
    <3> QED
      BY <2>1, <2>2, <2>5, <3>2, <3>3, <3>4, <3>5 DEF BoundThread
  <2> QED
    BY <2>2, <2>6, <2>7, <2>8, BoundStep
<1>4. CASE graph_end(o)
  <2>1. UNCHANGED <<storeVars, ckpt, unsaved, decided, inflight, boot, todo, faults, setBack>>
    BY <1>4 DEF graph_end
  <2>2. [Next]_storeVars /\ UNCHANGED <<status, snapshot, cycle, workOrders>>
    BY <2>1 DEF storeVars, opVars
  <2>3. /\ run[o] # NoValue /\ run[o].node = "END" /\ unsaved[o] = <<>> /\ run'[o] = NoValue
        /\ \A q \in Operations : q # o => run'[q] = run[q]
    BY <1>4 DEF graph_end, running, GraphInv, RootTypeOK
  <2>4. \A q \in Operations : ~ Asks(q)
    BY <2>2 DEF Asks
  <2>5. faults \in Nat /\ faults' \in Nat /\ faults <= faults'
    BY <2>1 DEF GraphInv, RootTypeOK
  <2>6. ASSUME NEW q \in Operations, q # o PROVE BoundThread(q)
    <3>1. WaitOK(q)'
      BY <2>1, <2>3, <2>4, <2>5, <2>6, WaitKept
    <3> QED
      BY <2>1, <2>2, <2>3, <2>4, <2>6, <3>1, BoundKept
  <2>7. BoundThread(o)
    <3>1. status[o] \in Terminal \/ faults # 0
      BY <2>3, RunningPlace, RunningFresh DEF KeptOK
    <3>2. \A p \in Places(run'[o], ckpt'[o], unsaved'[o]) :
              p \in Places(run[o], ckpt[o], unsaved[o])
      BY <2>1, <2>3 DEF Places
    <3>3. WaitOK(o)'
      BY <2>1, <2>2, <3>1 DEF WaitOK, Terminal, AwaitingDecision
    <3>4. LeftOK(run'[o], ckpt'[o], unsaved'[o])
      BY <2>3 DEF LeftOK
    <3>5. decided'[o] # NoValue /\ o \notin setBack' =>
              decided'[o].binding = ckpt'[o].state.binding
      BY <2>1 DEF BoundInv
    <3>6. \A p : CountsNext(o, p) => Counts(o, p)
      BY <2>1 DEF CountsNext, Counts
    <3> QED
      BY <2>1, <2>2, <2>4, <3>2, <3>3, <3>4, <3>5, <3>6 DEF BoundThread
  <2> QED
    BY <2>2, <2>5, <2>6, <2>7, BoundStep
<1> QED
  BY <1>1, <1>2, <1>3, <1>4 DEF GraphStep

-----------------------------------------------------------------------------
(* The runner, the recovery and the checkpointer *)

\* A coroutine begins anew, or after its interrupt.
LEMMA BoundBegins ==
    ASSUME BoundInv, NEW q \in Operations, run'[q] # NoValue, ckpt'[q] = ckpt[q],
           unsaved[q] = <<>>, unsaved'[q] = <<Here(run'[q])>>, setBack' = setBack,
           run'[q].node \notin StopNodes,
           StandsNext(q, Here(run'[q])),
           ckpt[q] # NoValue =>
               /\ ckpt[q].node = "interrupted"
               /\ run'[q].node \in {"refresh_and_verify", "mark_rejected"},
           decided'[q] = NoValue, inflight'[q] = inflight[q], workOrders' = workOrders, ~ Asks(q)
    PROVE  BoundThread(q)
<1>1. PICK h, v : h = Here(run'[q]) /\ v = unsaved'[q]
  OBVIOUS
<1>2. Len(v) = 1 /\ v[1] = h /\ h.node = run'[q].node
  BY <1>1 DEF Here, Place
<1>3. \A p \in Places(run'[q], ckpt'[q], unsaved'[q]) :
          p = h \/ p \in Places(run[q], ckpt[q], unsaved[q])
  BY <1>1, <1>2 DEF Places
<1>4. \A p \in Places(NoValue, ckpt[q], v) : p = h \/ (ckpt[q] # NoValue /\ p = ckpt[q])
  BY <1>2 DEF Places
<1>5. LeftOK(run'[q], ckpt'[q], unsaved'[q])
  BY <1>1, <1>2, <1>4 DEF LeftOK, StopNodes
<1>6. WaitOK(q)'
  BY DEF WaitOK
<1>7. \A p : CountsNext(q, p) => Counts(q, p)
  BY DEF CountsNext, Counts
<1> QED
  BY <1>1, <1>3, <1>5, <1>6, <1>7 DEF BoundThread

\* A step that leaves every graph alone.
LEMMA QuietBound ==
    ASSUME GraphInv, BoundInv, [Next]_storeVars, faults' \in Nat, faults <= faults',
           UNCHANGED <<run, ckpt, unsaved, inflight, workOrders, setBack>>,
           \A q \in Operations : decided'[q] \in {decided[q], NoValue} /\ ~ Asks(q) /\ WaitOK(q)'
    PROVE  BoundInv'
BY BoundKept, BoundStep

\* start.
LEMMA StartBound ==
    ASSUME GraphInv, BoundInv, NEW o \in Operations, NEW req \in Requests, start(o, req)
    PROVE  BoundInv'
<1>1. create(o, req) /\ UNCHANGED <<ckpt, decided, inflight, boot, todo, faults, setBack>>
  BY DEF start
<1>2. [Next]_storeVars
  BY <1>1 DEF Next, InvestigationNext
<1>3. /\ workOrders' = workOrders /\ status[o] = "absent" /\ status'[o] = "received"
      /\ \A q \in Operations : q # o => status'[q] = status[q]
  BY <1>1 DEF create, create_allowed, GraphInv, TypeOK
<1>4. PICK r : r = [by |-> "start", node |-> "encode_goal", state |-> InitialState]
  OBVIOUS
<1>5. /\ r # NoValue /\ r.node \notin StopNodes
      /\ Here(r) = [node |-> "encode_goal", state |-> InitialState]
  BY <1>3, <1>4, FirstPlace DEF Callers
<1>6. /\ run'[o] = r /\ unsaved'[o] = <<Here(r)>>
      /\ \A q \in Operations : q # o => run'[q] = run[q] /\ unsaved'[q] = unsaved[q]
  BY <1>4, <1>5 DEF start, GraphInv, RootTypeOK
<1>7. ckpt[o] = NoValue /\ run[o] = NoValue /\ decided[o] = NoValue /\ unsaved[o] = <<>>
  <2>1. /\ ckpt[o] # NoValue => ckpt[o] \in Places(run[o], ckpt[o], unsaved[o])
        /\ run[o] # NoValue => Here(run[o]) \in Places(run[o], ckpt[o], unsaved[o])
    BY InPlaces
  <2> QED
    BY <1>3, <2>1 DEF GraphInv, PlaceOK, DecidedOK, QueueOK
<1>8. \A q \in Operations : ~ Asks(q)
  BY <1>3 DEF Asks, AwaitingDecision
<1>9. faults \in Nat /\ faults' \in Nat /\ faults <= faults'
  BY <1>1 DEF GraphInv, RootTypeOK
<1>10. StandsNext(o, Here(r))
  BY <1>5, FreePlace DEF StopNodes, DecidedNodes, ExecutionNodes
<1>11. BoundThread(o)
  BY <1>1, <1>3, <1>5, <1>6, <1>7, <1>8, <1>10, BoundBegins
<1>12. ASSUME NEW q \in Operations, q # o PROVE BoundThread(q)
  <2>1. WaitOK(q)'
    BY <1>1, <1>6, <1>8, <1>9, <1>12, WaitKept
  <2> QED
    BY <1>1, <1>3, <1>6, <1>8, <1>12, <2>1, BoundKept
<1> QED
  BY <1>2, <1>9, <1>11, <1>12, BoundStep

\* The checkpointer saves.
LEMMA SaveBound ==
    ASSUME GraphInv, BoundInv, NEW o \in Operations, save_checkpoint(o)
    PROVE  BoundInv'
<1>1. UNCHANGED <<storeVars, run, decided, inflight, boot, todo, faults, setBack>>
  BY DEF save_checkpoint
<1>2. [Next]_storeVars /\ UNCHANGED <<status, workOrders>>
  BY <1>1 DEF storeVars, opVars
<1>3. PICK u \in Seq(Checkpoints) : u = unsaved[o]
  BY DEF GraphInv, RootTypeOK
<1>4. /\ u # <<>> /\ ckpt'[o] = Head(u) /\ unsaved'[o] = Tail(u)
      /\ \A q \in Operations : q # o => ckpt'[q] = ckpt[q] /\ unsaved'[q] = unsaved[q]
  BY <1>3 DEF save_checkpoint, GraphInv, RootTypeOK
<1>5. run[o] # NoValue /\ decided[o] = NoValue
  BY <1>3, <1>4 DEF GraphInv, QueueOK, DecidedOK
<1>6. \A q \in Operations : ~ Asks(q)
  BY <1>2 DEF Asks
<1>7. faults \in Nat /\ faults' \in Nat /\ faults <= faults'
  BY <1>1 DEF GraphInv, RootTypeOK
<1>8. ASSUME NEW q \in Operations, q # o PROVE BoundThread(q)
  <2>1. WaitOK(q)'
    BY <1>1, <1>4, <1>6, <1>7, <1>8, WaitKept
  <2> QED
    BY <1>1, <1>2, <1>4, <1>6, <1>8, <2>1, BoundKept
<1>9. BoundThread(o)
  <2>1. \A p \in Places(run'[o], ckpt'[o], unsaved'[o]) : p \in Places(run[o], ckpt[o], unsaved[o])
    BY <1>1, <1>3, <1>4, PlacesSaved
  <2>2. \A p \in Places(NoValue, ckpt'[o], unsaved'[o]) : p \in Places(NoValue, ckpt[o], unsaved[o])
    BY <1>3, <1>4, PlacesSaved
  <2>3. ckpt'[o].node # "interrupted"
    <3>1. \A i \in 1..Len(u) : u[i].node # "interrupted"
      BY <1>3 DEF GraphInv, QueueOK
    <3>2. Head(u) = u[1] /\ 1 \in 1..Len(u)
      BY <1>4
    <3> QED
      BY <1>4, <3>1, <3>2
  <2>4. LeftOK(run[o], ckpt[o], unsaved[o])
    BY DEF BoundInv
  <2>5. LeftOK(run'[o], ckpt'[o], unsaved'[o])
    BY <1>1, <2>2, <2>3, <2>4 DEF LeftOK
  <2>6. WaitOK(o)'
    BY <1>1, <1>5 DEF WaitOK
  <2>7. ASSUME NEW p \in Places(run'[o], ckpt'[o], unsaved'[o]) PROVE p.node # "interrupted"
    <3>1. Here(run[o]).node # "interrupted"
      BY <1>5, RunningPlace, NodeNames
    <3>2. PICK v : v = Tail(u)
      OBVIOUS
    <3>3. \A i \in 1..Len(v) : v[i].node # "interrupted"
      <4>1. \A i \in 1..Len(u) : u[i].node # "interrupted"
        BY <1>3 DEF GraphInv, QueueOK
      <4>2. \A i \in 1..Len(v) : i + 1 \in 1..Len(u) /\ v[i] = u[i + 1]
        BY <1>4, <3>2
      <4> QED
        BY <4>1, <4>2
    <3> QED
      BY <1>1, <1>4, <2>3, <3>1, <3>2, <3>3 DEF Places
  <2>8. \A p \in Places(run'[o], ckpt'[o], unsaved'[o]) : CountsNext(o, p) => Counts(o, p)
    BY <1>1, <2>7 DEF CountsNext, Counts
  <2> QED
    BY <1>1, <1>2, <1>5, <1>6, <2>1, <2>5, <2>6, <2>8 DEF BoundThread
<1> QED
  BY <1>2, <1>7, <1>8, <1>9, BoundStep

\* A delayed write is of a plan that may be written, or never happens.
LEMMA LateWriteBound ==
    ASSUME GraphInv, BoundInv, NEW o \in Operations, late_write(o)
    PROVE  BoundInv'
<1>1. PICK x : x = inflight[o]
  OBVIOUS
<1>2. /\ x \in Plans /\ x # NoValue
      /\ create_or_get(o, x) \/ UNCHANGED storeVars
      /\ UNCHANGED <<run, ckpt, unsaved, decided, boot, todo, faults, setBack>>
      /\ inflight' = [inflight EXCEPT ![o] = NoValue]
  BY <1>1 DEF late_write, GraphInv, RootTypeOK
<1>3. [Next]_storeVars
  BY <1>2 DEF Next, ExecutionNext
<1>4. UNCHANGED <<status, snapshot, cycle, approvals>>
  BY <1>2 DEF create_or_get, storeVars, opVars
<1>5. \A q \in Operations : ~ Asks(q)
  BY <1>4 DEF Asks
<1>6. faults \in Nat /\ faults' \in Nat /\ faults <= faults'
  BY <1>2 DEF GraphInv, RootTypeOK
<1>7. \A q \in Operations : WaitOK(q)'
  BY <1>2, <1>5, <1>6, WaitKept
<1>8. ASSUME NEW q \in Operations, q # o PROVE BoundThread(q)
  <2>1. inflight'[q] = inflight[q]
    BY <1>2, <1>8 DEF GraphInv, RootTypeOK
  <2>2. \A w \in workOrders' : w.op = q => w \in workOrders
    BY <1>2, <1>8 DEF create_or_get, storeVars
  <2> QED
    BY <1>2, <1>5, <1>7, <2>1, <2>2, BoundKept
<1>9. BoundThread(o)
  <2>1. PlanNext(o, x)
    BY <1>1, <1>2, <1>4 DEF BoundInv, PlanNext
  <2>2. ASSUME NEW w \in workOrders', w.op = o
        PROVE  w \in workOrders \/ (Approved(o)' /\ PlanNext(o, w.payload))
    <3>1. CASE UNCHANGED storeVars
      BY <3>1 DEF storeVars
    <3>2. CASE create_or_get(o, x)
      <4>1. w \in workOrders \/ w.payload = x
        BY <3>2 DEF create_or_get
      <4>2. Approved(o)'
        BY <3>2 DEF create_or_get, write_authorized, Approved, current_approval
      <4> QED
        BY <1>4, <2>1, <4>1, <4>2
    <3> QED
      BY <1>2, <3>1, <3>2
  <2>3. LeftOK(run'[o], ckpt'[o], unsaved'[o])
    BY <1>2 DEF BoundInv
  <2>4. decided'[o] # NoValue /\ o \notin setBack' => decided'[o].binding = ckpt'[o].state.binding
    BY <1>2 DEF BoundInv
  <2>5. inflight'[o] = NoValue
    BY <1>2 DEF GraphInv, RootTypeOK
  <2>6. \A p : CountsNext(o, p) => Counts(o, p)
    BY <1>2 DEF CountsNext, Counts
  <2> QED
    BY <1>2, <1>5, <1>7, <2>2, <2>3, <2>4, <2>5, <2>6 DEF BoundThread
<1> QED
  BY <1>3, <1>6, <1>8, <1>9, BoundStep

\* A failure asks for no decision.
LEMMA FailureAsksNothing ==
    ASSUME GraphInv, NEW o \in Operations,
           (\E e \in Errors : mark_failed(o, e)) \/ UNCHANGED storeVars
    PROVE  \A q \in Operations : ~ Asks(q)
BY DEF mark_failed, transition, Asks, AwaitingDecision, GraphInv, TypeOK, storeVars, opVars

\* The checkpointer fails under a run.
LEMMA DiesBound ==
    ASSUME GraphInv, BoundInv, NEW o \in Operations, run_dies(o)
    PROVE  BoundInv'
<1>1. [Next]_storeVars /\ workOrders' = workOrders
  BY StartFailedIsStoreStep DEF run_dies, storeVars
<1>2. (\E e \in Errors : mark_failed(o, e)) \/ UNCHANGED storeVars
  BY DEF run_dies, mark_start_failed
<1>3. \A q \in Operations : ~ Asks(q)
  BY <1>2, FailureAsksNothing
<1>4. /\ run'[o] = NoValue /\ unsaved'[o] = <<>>
      /\ \A q \in Operations : q # o => run'[q] = run[q] /\ unsaved'[q] = unsaved[q]
      /\ UNCHANGED <<ckpt, decided, inflight, boot, todo>>
      /\ faults' = faults + 1
  BY DEF run_dies, GraphInv, RootTypeOK
<1>5. faults' \in Nat /\ faults <= faults' /\ faults' # 0
  BY <1>4 DEF GraphInv, RootTypeOK
<1>s. setBack' = setBack \cup ({o} \cap far_behind)
  BY DEF run_dies
<1>6. \A q \in Operations : WaitOK(q)'
  BY <1>5 DEF WaitOK
<1>7. ASSUME NEW q \in Operations, q # o PROVE BoundThread(q)
  BY <1>1, <1>3, <1>4, <1>s, <1>6, <1>7, BoundKept
<1>8. BoundThread(o)
  <2>1. \A p \in Places(run'[o], ckpt'[o], unsaved'[o]) : p \in Places(run[o], ckpt[o], unsaved[o])
    BY <1>4 DEF Places
  <2>2. LeftOK(run'[o], ckpt'[o], unsaved'[o])
    BY <1>4 DEF LeftOK
  <2>3. decided'[o] # NoValue /\ o \notin setBack' => decided'[o].binding = ckpt'[o].state.binding
    BY <1>4, <1>s DEF BoundInv
  <2>4. \A p : CountsNext(o, p) => Counts(o, p)
    <3>1. o \notin setBack' => o \notin setBack /\ Len(unsaved[o]) <= 2
      BY <1>s DEF far_behind, GraphInv, RootTypeOK
    <3> QED
      BY <3>1 DEF CountsNext, Counts
  <2> QED
    BY <1>1, <1>3, <1>4, <1>s, <1>6, <2>1, <2>2, <2>3, <2>4 DEF BoundThread
<1> QED
  BY <1>1, <1>5, <1>7, <1>8, BoundStep

\* start records the trace.
LEMMA CaptureBound ==
    ASSUME GraphInv, BoundInv, NEW o \in Operations, capture(o)
    PROVE  BoundInv'
<1>1. (\E e \in Errors : mark_failed(o, e)) \/ UNCHANGED storeVars
  BY DEF capture, mark_start_failed
<1>2. [Next]_storeVars /\ workOrders' = workOrders
  BY <1>1 DEF Next, ExecutionNext, mark_failed, transition, storeVars
<1>3. \A q \in Operations : ~ Asks(q)
  BY <1>1, FailureAsksNothing
<1>4. UNCHANGED <<run, ckpt, unsaved, decided, inflight, boot, todo, setBack>>
  BY DEF capture
<1>5. faults \in Nat /\ faults' \in Nat /\ faults <= faults'
  BY DEF capture, GraphInv, RootTypeOK
<1>6. \A q \in Operations : WaitOK(q)'
  BY <1>3, <1>4, <1>5, WaitKept
<1> QED
  BY <1>2, <1>3, <1>4, <1>5, <1>6, QuietBound

\* The checkpoint of an interrupted graph shows the binding of the row, or
\* one approved before.
LEMMA InterruptedBinding ==
    ASSUME GraphInv, BoundInv, NEW o \in Operations, interrupted(o), run[o] = NoValue
    PROVE  /\ cycle[o] > 0
           /\ Consented(o, ckpt[o].state.binding, snapshot[o].binding, approvals)
           /\ o \notin setBack => ckpt[o].state.binding = snapshot[o].binding
<1>1. ckpt[o] # NoValue /\ ckpt[o].node = "interrupted"
  BY DEF interrupted
<1>2. ckpt[o] \in Places(run[o], ckpt[o], unsaved[o])
  BY <1>1, InPlaces
<1>3. o \notin setBack => Counts(o, ckpt[o])
  <2>1. unsaved[o] = <<>> /\ Len(<<>>) = 0
    BY DEF GraphInv, QueueOK
  <2> QED
    BY <2>1 DEF Counts
<1>4. /\ KeptOK(o, ckpt[o], status[o], snapshot[o].binding, cycle[o], approvals, faults)
      /\ o \notin setBack => FreshOK(ckpt[o], snapshot[o].binding)
  BY <1>2, <1>3 DEF BoundInv
<1> QED
  BY <1>1, <1>4 DEF KeptOK, FreshOK, StopNodes

\* submit_approval: the decision is about the binding in the graph's state,
\* unless the thread has been set back.
LEMMA SubmitBound ==
    ASSUME GraphInv, BoundInv, NEW o \in Operations, submit_approval(o)
    PROVE  BoundInv'
<1>1. /\ interrupted(o) /\ run[o] = NoValue
      /\ UNCHANGED <<run, ckpt, unsaved, inflight, boot, todo, faults, setBack>>
  BY DEF submit_approval
<1>2. now \in 0..now
  BY DEF GraphInv, TypeOK
<1>3. faults \in Nat /\ faults' \in Nat /\ faults <= faults'
  BY <1>1 DEF GraphInv, RootTypeOK
<1>4. CASE submit_bound_once_expired(o, now) /\ UNCHANGED decided
  <2>1. [Next]_storeVars /\ workOrders' = workOrders
    BY <1>2, <1>4 DEF Next, DecisionNext, submit_bound_once_expired
  <2>2. \A q \in Operations : ~ Asks(q)
    BY <1>4 DEF submit_bound_once_expired, Asks, AwaitingDecision, GraphInv, TypeOK
  <2>3. \A q \in Operations : WaitOK(q)'
    BY <1>1, <1>3, <2>2, WaitKept
  <2> QED
    BY <1>1, <1>3, <1>4, <2>1, <2>2, <2>3, QuietBound
<1>5. CASE \E r \in Approvers, d \in Decisions, b \in Bindings :
            /\ submit_bound_once(o, r, d, b, now)
            /\ decided' = [decided EXCEPT ![o] =
                              [op |-> o, cycle |-> cycle[o], approver |-> r,
                               decision |-> d, binding |-> b, at |-> now]]
  <2>1. PICK r \in Approvers, d \in Decisions, b \in Bindings :
            /\ submit_bound_once(o, r, d, b, now)
            /\ decided' = [decided EXCEPT ![o] =
                              [op |-> o, cycle |-> cycle[o], approver |-> r,
                               decision |-> d, binding |-> b, at |-> now]]
    BY <1>5
  <2>2. [Next]_storeVars /\ workOrders' = workOrders
    BY <1>2, <2>1 DEF Next, DecisionNext, submit_bound_once
  <2>3. \A q \in Operations : ~ Asks(q)
    BY <2>1 DEF submit_bound_once, Asks, AwaitingDecision, GraphInv, TypeOK
  <2>4. \A q \in Operations : WaitOK(q)'
    BY <1>1, <1>3, <2>3, WaitKept
  <2>5. b = snapshot[o].binding
    BY <2>1 DEF submit_bound_once
  <2>6. decided'[o].binding = b /\ \A q \in Operations : q # o => decided'[q] = decided[q]
    BY <2>1 DEF GraphInv, RootTypeOK
  <2>7. o \notin setBack' => decided'[o].binding = ckpt'[o].state.binding
    BY <1>1, <2>5, <2>6, InterruptedBinding
  <2>8. ASSUME NEW q \in Operations, q # o PROVE BoundThread(q)
    BY <1>1, <2>2, <2>3, <2>4, <2>6, <2>8, BoundKept
  <2>9. BoundThread(o)
    <3>1. LeftOK(run'[o], ckpt'[o], unsaved'[o])
      BY <1>1 DEF BoundInv
    <3>2. \A p : CountsNext(o, p) => Counts(o, p)
      BY <1>1 DEF CountsNext, Counts
    <3> QED
      BY <1>1, <2>2, <2>3, <2>4, <2>7, <3>1, <3>2 DEF BoundThread
  <2> QED
    BY <1>3, <2>2, <2>8, <2>9, BoundStep
<1> QED
  BY <1>4, <1>5 DEF submit_approval

\* A graph is resumed with a decision about the binding in its state, unless
\* its thread has been set back.
LEMMA ResumeBound ==
    ASSUME GraphInv, BoundInv, NEW o \in Operations, interrupted(o), run[o] = NoValue,
           NEW a \in ApprovalRows, NEW by \in Callers, resume(o, a, by),
           o \notin setBack => a.binding = ckpt[o].state.binding,
           UNCHANGED <<storeVars, ckpt, inflight, boot, faults, setBack>>,
           decided'[o] = NoValue,
           \A q \in Operations : q # o =>
               decided'[q] \in {decided[q], NoValue} /\ (q \in todo => q \in todo')
    PROVE  BoundInv'
<1>1. [Next]_storeVars /\ UNCHANGED <<status, snapshot, cycle, approvals, workOrders>>
  BY DEF storeVars, opVars
<1>2. \A q \in Operations : ~ Asks(q)
  BY <1>1 DEF Asks
<1>3. faults \in Nat /\ faults' \in Nat /\ faults <= faults'
  BY DEF GraphInv, RootTypeOK
<1>4. /\ run'[o] # NoValue
      /\ run'[o].node \in {"refresh_and_verify", "mark_rejected"}
      /\ run'[o].state = [ckpt[o].state EXCEPT !.approval = a]
      /\ ckpt[o] \in Checkpoints
      /\ unsaved'[o] = <<Here(run'[o])>>
      /\ \A q \in Operations : q # o => run'[q] = run[q] /\ unsaved'[q] = unsaved[q]
  BY ResumedPlace
<1>5. PICK st, s : st = ckpt[o].state /\ s = run'[o].state
  OBVIOUS
<1>6. st \in GraphStates
  BY <1>4, <1>5 DEF Checkpoints
<1>7. s.approval = a /\ s.binding = st.binding
  BY <1>4, <1>5, <1>6 DEF GraphStates
<1>8. StandsNext(o, Here(run'[o]))
  <2>1. KeptNext(o, Here(run'[o]))
    BY <1>1, <1>4, <1>5, <1>7, InterruptedBinding DEF KeptNext, KeptOK, Here, Place, ExecutionNodes
  <2>2. o \notin setBack => FreshOK(Here(run'[o]), snapshot'[o].binding)
    BY <1>4, <1>5, <1>7 DEF FreshOK, Here, Place, StopNodes, ExecutionNodes
  <2> QED
    BY <2>1, <2>2 DEF StandsNext, CountsNext
<1>9. BoundThread(o)
  <2>1. run'[o].node \notin StopNodes
    BY <1>4 DEF StopNodes
  <2>2. unsaved[o] = <<>>
    BY DEF GraphInv, QueueOK
  <2> QED
    BY <1>1, <1>2, <1>4, <1>8, <2>1, <2>2, BoundBegins DEF interrupted
<1>10. ASSUME NEW q \in Operations, q # o PROVE BoundThread(q)
  <2>1. WaitOK(q)'
    BY <1>2, <1>3, <1>4, <1>10, WaitKept
  <2> QED
    BY <1>1, <1>2, <1>4, <1>10, <2>1, BoundKept
<1> QED
  BY <1>1, <1>3, <1>9, <1>10, BoundStep

\* The rest of submit_approval.
LEMMA SubmitResumeBound ==
    ASSUME GraphInv, BoundInv, NEW o \in Operations, submit_approval_resume(o)
    PROVE  BoundInv'
<1>1. /\ decided[o] # NoValue /\ decided' = [decided EXCEPT ![o] = NoValue]
      /\ UNCHANGED <<storeVars, ckpt, inflight, boot, todo, setBack>>
  BY DEF submit_approval_resume
<1>2. /\ interrupted(o) /\ run[o] = NoValue /\ decided[o] \in ApprovalRows
      /\ o \notin setBack => decided[o].binding = ckpt[o].state.binding
  BY <1>1 DEF GraphInv, BoundInv, DecidedOK, interrupted, RootTypeOK
<1>3. decided'[o] = NoValue /\ \A q \in Operations : q # o => decided'[q] = decided[q]
  BY <1>1 DEF GraphInv, RootTypeOK
<1>4. CASE resume(o, decided[o], "submit") /\ UNCHANGED faults
  BY <1>1, <1>2, <1>3, <1>4, ResumeBound DEF Callers
<1>5. CASE faults < MaxFaults /\ faults' = faults + 1 /\ UNCHANGED <<run, unsaved>>
  <2>1. [Next]_storeVars /\ UNCHANGED <<status, workOrders>>
    BY <1>1 DEF storeVars, opVars
  <2>2. faults' \in Nat /\ faults <= faults' /\ faults' # 0
    BY <1>5 DEF GraphInv, RootTypeOK
  <2>3. \A q \in Operations : ~ Asks(q) /\ WaitOK(q)'
    BY <2>1, <2>2 DEF Asks, WaitOK
  <2>4. \A q \in Operations : decided'[q] \in {decided[q], NoValue}
    BY <1>3
  <2> QED
    BY <1>1, <1>5, <2>1, <2>2, <2>3, <2>4, QuietBound
<1> QED
  BY <1>4, <1>5 DEF submit_approval_resume

\* The process dies.
LEMMA CrashBound ==
    ASSUME GraphInv, BoundInv, crash
    PROVE  BoundInv'
<1>1. UNCHANGED <<storeVars, ckpt, inflight, faults>> /\ boot' = "down"
  BY DEF crash
<1>2. [Next]_storeVars /\ UNCHANGED <<status, workOrders>>
  BY <1>1 DEF storeVars, opVars
<1>3. faults' \in Nat /\ faults <= faults'
  BY <1>1 DEF GraphInv, RootTypeOK
<1>s. setBack' = setBack \cup far_behind
  BY DEF crash
<1>4. ASSUME NEW q \in Operations PROVE BoundThread(q)
  <2>1. run'[q] = NoValue /\ unsaved'[q] = <<>> /\ decided'[q] = NoValue
    BY DEF crash
  <2>2. \A p \in Places(run'[q], ckpt'[q], unsaved'[q]) : p \in Places(run[q], ckpt[q], unsaved[q])
    BY <1>1, <2>1 DEF Places
  <2>3. LeftOK(run'[q], ckpt'[q], unsaved'[q]) /\ WaitOK(q)' /\ ~ Asks(q)
    BY <1>1, <1>2, <2>1 DEF LeftOK, WaitOK, Asks
  <2>4. \A p : CountsNext(q, p) => Counts(q, p)
    <3>1. q \notin setBack' => q \notin setBack /\ Len(unsaved[q]) <= 2
      BY <1>s DEF far_behind, GraphInv, RootTypeOK
    <3> QED
      BY <3>1 DEF CountsNext, Counts
  <2> QED
    BY <1>1, <1>2, <1>s, <2>1, <2>2, <2>3, <2>4 DEF BoundThread
<1> QED
  BY <1>2, <1>3, <1>4, BoundStep

\* The recovery of one operation: what waits keeps waiting in its interrupt,
\* what is decided goes on with the decision of the current cycle.
LEMMA RecoverBound ==
    ASSUME GraphInv, BoundInv, NEW o \in Operations, recover(o)
    PROVE  BoundInv'
<1>1. /\ boot = "recovering" /\ run[o] = NoValue /\ todo' = todo \ {o}
      /\ unsaved[o] = <<>>
      /\ UNCHANGED <<ckpt, decided, inflight, boot, faults, setBack>>
  BY DEF recover, GraphInv, QueueOK
<1>2. \A q \in Operations : decided[q] = NoValue
  BY <1>1 DEF GraphInv, DecidedOK
<1>3. (\E e \in Errors : mark_failed(o, e)) \/ UNCHANGED storeVars
  BY DEF recover
<1>4. [Next]_storeVars /\ workOrders' = workOrders
  BY <1>3 DEF Next, ExecutionNext, mark_failed, transition, storeVars
<1>5. \A q \in Operations : ~ Asks(q)
  BY <1>3, FailureAsksNothing
<1>6. faults \in Nat /\ faults' \in Nat /\ faults <= faults'
  BY <1>1 DEF GraphInv, RootTypeOK
<1>7. ASSUME NEW q \in Operations, q # o, run'[q] = run[q], unsaved'[q] = unsaved[q]
      PROVE  BoundThread(q)
  <2>1. WaitOK(q)'
    BY <1>1, <1>5, <1>6, <1>7, WaitKept
  <2> QED
    BY <1>1, <1>4, <1>5, <1>7, <2>1, BoundKept
<1>8. CASE /\ UNCHANGED <<run, unsaved>>
           /\ \/ recovery_action(o) = "conflict" /\ \E e \in Errors : mark_failed(o, e)
              \/ /\ recovery_action(o) \in {"deferred", "no_op", "keep_waiting"}
                 /\ UNCHANGED storeVars
  <2>1. WaitOK(o)'
    <3>1. CASE \E e \in Errors : mark_failed(o, e)
      BY <3>1 DEF mark_failed, transition, WaitOK, AwaitingDecision, GraphInv, TypeOK
    <3>2. CASE recovery_action(o) \in {"deferred", "no_op", "keep_waiting"} /\ UNCHANGED storeVars
      <4>1. /\ work_order_of(o) # {} => status[o] \notin AwaitingDecision
            /\ status[o] \in Terminal => status[o] \notin AwaitingDecision
        BY DEF GraphInv, AfterExecution, Terminal, AwaitingDecision
      <4>2. status[o] \in AwaitingDecision => interrupted(o)
        BY <3>2, <4>1 DEF recovery_action
      <4>3. status' = status
        BY <3>2 DEF storeVars, opVars
      <4> QED
        BY <1>1, <4>2, <4>3 DEF WaitOK, interrupted
    <3> QED
      BY <1>8, <3>1, <3>2
  <2>2. BoundThread(o)
    BY <1>1, <1>4, <1>5, <1>8, <2>1, BoundKept
  <2> QED
    BY <1>4, <1>6, <1>7, <1>8, <2>2, BoundStep
<1>9. CASE /\ recovery_action(o) = "rebuild"
           /\ run' = [run EXCEPT ![o] =
                         [by |-> "recover", node |-> "encode_goal", state |-> InitialState]]
           /\ unsaved' = [unsaved EXCEPT ![o] =
                             <<[node |-> "encode_goal", state |-> InitialState]>>]
  <2>1. ckpt[o] = NoValue /\ status[o] = "received"
    BY <1>9 DEF recovery_action
  <2>2. PICK r : r = [by |-> "recover", node |-> "encode_goal", state |-> InitialState]
    OBVIOUS
  <2>3. /\ r # NoValue /\ r.node \notin StopNodes
        /\ Here(r) = [node |-> "encode_goal", state |-> InitialState]
    BY <2>1, <2>2, FirstPlace DEF Callers
  <2>4. /\ run'[o] = r /\ unsaved'[o] = <<Here(r)>>
        /\ \A q \in Operations : q # o => run'[q] = run[q] /\ unsaved'[q] = unsaved[q]
    BY <1>9, <2>2, <2>3 DEF GraphInv, RootTypeOK
  <2>5. StandsNext(o, Here(r))
    BY <2>3, FreePlace DEF StopNodes, DecidedNodes, ExecutionNodes
  <2>6. BoundThread(o)
    BY <1>1, <1>2, <1>4, <1>5, <2>1, <2>3, <2>4, <2>5, BoundBegins
  <2> QED
    BY <1>4, <1>6, <1>7, <2>4, <2>6, BoundStep
<1>10. CASE /\ recovery_action(o) = "resume_decision"
            /\ \E a \in detail_approval(o) : resume(o, a, "recover")
            /\ UNCHANGED storeVars
  <2>1. PICK a \in detail_approval(o) : resume(o, a, "recover")
    BY <1>10
  <2>2. interrupted(o)
    BY <1>10 DEF recovery_action
  <2>3. a \in ApprovalRows /\ a.binding = snapshot[o].binding
    BY DEF detail_approval, GraphInv, TypeOK, DecisionInv, DecisionBindsSnapshot, current_approval
  <2>4. o \notin setBack => a.binding = ckpt[o].state.binding
    BY <1>1, <2>2, <2>3, InterruptedBinding
  <2> QED
    BY <1>1, <1>2, <1>10, <2>1, <2>2, <2>3, <2>4, ResumeBound DEF Callers
<1>11. CASE /\ recovery_action(o) = "continue_checkpoint"
            /\ run' = [run EXCEPT ![o] =
                          [by |-> "recover", node |-> ckpt[o].node, state |-> ckpt[o].state]]
            /\ UNCHANGED unsaved
  <2>1. ckpt[o] # NoValue /\ ckpt[o].node # "interrupted" /\ unsaved[o] = <<>>
    BY <1>1, <1>11 DEF recovery_action, interrupted, GraphInv, QueueOK
  <2>2. /\ ckpt[o] \in Checkpoints /\ ckpt[o].node \in Nodes /\ ckpt[o].state \in GraphStates
        /\ ckpt[o] = Place(ckpt[o].node, ckpt[o].state)
    BY <2>1 DEF GraphInv, RootTypeOK, Checkpoints, Place
  <2>3. PICK r : r = [by |-> "recover", node |-> ckpt[o].node, state |-> ckpt[o].state]
    OBVIOUS
  <2>4. r \in Runs /\ Here(r) = ckpt[o] /\ r.node = ckpt[o].node
    BY <2>2, <2>3 DEF Runs, Callers, Here
  <2>5. r # NoValue
    BY <2>4, NoThreadAssumption
  <2>6. run'[o] = r /\ \A q \in Operations : q # o => run'[q] = run[q]
    BY <1>11, <2>3 DEF GraphInv, RootTypeOK
  <2>7. \A p \in Places(run'[o], ckpt'[o], unsaved'[o]) : p \in Places(run[o], ckpt[o], unsaved[o])
    BY <1>1, <1>11, <2>1, <2>4, <2>6 DEF Places
  <2>8. \A p \in Places(NoValue, ckpt'[o], unsaved'[o]) : p = ckpt[o]
    BY <1>1, <1>11, <2>1 DEF Places
  <2>9. LeftOK(run'[o], ckpt'[o], unsaved'[o]) /\ WaitOK(o)'
    BY <1>1, <2>1, <2>4, <2>5, <2>6, <2>8 DEF LeftOK, WaitOK
  <2>10. BoundThread(o)
    <3>1. \A p : CountsNext(o, p) => Counts(o, p)
      BY <1>1, <1>11 DEF CountsNext, Counts
    <3> QED
      BY <1>1, <1>2, <1>4, <1>5, <2>7, <2>9, <3>1 DEF BoundThread
  <2> QED
    BY <1>4, <1>6, <1>7, <1>11, <2>6, <2>10, BoundStep
<1> QED
  BY <1>8, <1>9, <1>10, <1>11 DEF recover

\* The rest of the startup, the scans and the clock.
LEMMA AroundBound ==
    ASSUME GraphInv, BoundInv,
           \/ restart \/ (\E o \in Operations : expire_due(o)) \/ list_recoverable \/ serve
           \/ Environment \/ Clock \/ UNCHANGED rootVars
    PROVE  BoundInv'
<1>1. UNCHANGED <<run, ckpt, unsaved, decided, inflight, faults, setBack>>
  BY DEF restart, expire_due, list_recoverable, serve, Environment, Clock, procVars, rootVars
<1>2. faults \in Nat /\ faults' \in Nat /\ faults <= faults'
  BY <1>1 DEF GraphInv, RootTypeOK
<1>3. [Next]_storeVars /\ workOrders' = workOrders
  <2>1. CASE restart \/ list_recoverable \/ UNCHANGED rootVars
    BY <2>1 DEF restart, list_recoverable, rootVars, storeVars
  <2>2. CASE \E o \in Operations : expire_due(o)
    <3>1. now \in 0..now
      BY DEF GraphInv, TypeOK
    <3> QED
      BY <2>2, <3>1 DEF expire_due, Next, DecisionNext, mark_expired, transition
  <2>3. CASE serve \/ Environment \/ Clock
    BY <2>3 DEF serve, Environment, Clock, Next, SignalNext, reconcile_terminal_links,
                upsert_detected, create_successor, Tick
  <2> QED
    BY <2>1, <2>2, <2>3
<1>4. \A q \in Operations : status'[q] \in AwaitingDecision => status[q] \in AwaitingDecision
  <2>1. CASE \E o \in Operations : expire_due(o)
    BY <2>1 DEF expire_due, mark_expired, transition, AwaitingDecision, GraphInv, TypeOK
  <2>2. CASE restart \/ list_recoverable \/ serve \/ Environment \/ Clock \/ UNCHANGED rootVars
    <3>1. status' = status
      BY <2>2 DEF restart, list_recoverable, serve, Environment, Clock, rootVars, storeVars, opVars,
                  reconcile_terminal_links, upsert_detected, create_successor, Tick
    <3> QED
      BY <3>1
  <2> QED
    BY <2>1, <2>2
<1>5. \A q \in Operations : ~ Asks(q)
  BY <1>4 DEF Asks
<1>6. ASSUME NEW q \in Operations PROVE WaitOK(q)'
  <2>1. CASE restart
    BY <2>1 DEF restart, WaitOK
  <2>2. CASE list_recoverable
    BY <1>4, <2>2 DEF list_recoverable, WaitOK, AwaitingDecision, Active, storeVars, opVars
  <2>3. CASE serve
    <3>1. boot = "recovering" /\ q \notin todo
      BY <2>3 DEF serve
    <3>2. WaitOK(q)
      BY DEF BoundInv
    <3> QED
      BY <1>1, <1>4, <3>1, <3>2 DEF WaitOK, interrupted
  <2>4. CASE (\E o \in Operations : expire_due(o)) \/ Environment \/ Clock \/ UNCHANGED rootVars
    <3>1. boot' = boot /\ todo' = todo
      BY <2>4 DEF expire_due, Environment, Clock, rootVars, procVars
    <3> QED
      BY <1>1, <1>2, <1>5, <3>1, WaitKept
  <2> QED
    BY <2>1, <2>2, <2>3, <2>4
<1> QED
  BY <1>1, <1>2, <1>3, <1>5, <1>6, QuietBound

\* Every step of the root graph preserves the second invariant.
LEMMA RootNextBound ==
    ASSUME GraphInv, BoundInv, [RootNext]_rootVars
    PROVE  BoundInv'
<1>1. CASE \E o \in Operations :
            \/ \E req \in Requests : start(o, req)
            \/ GraphStep(o) \/ save_checkpoint(o) \/ late_write(o) \/ run_dies(o)
            \/ capture(o) \/ submit_approval(o) \/ submit_approval_resume(o)
  BY <1>1, StartBound, GraphBound, SaveBound, LateWriteBound, DiesBound, CaptureBound,
     SubmitBound, SubmitResumeBound
<1>2. CASE Startup
  BY <1>2, AroundBound, RecoverBound DEF Startup
<1> QED
  BY <1>1, <1>2, CrashBound, AroundBound DEF RootNext

\* The second invariant holds initially.
LEMMA RootInitBound == RootInit => BoundInv
<1> SUFFICES ASSUME RootInit, NEW o \in Operations
             PROVE  /\ EventOK(o)
                    /\ \A p \in Places(run[o], ckpt[o], unsaved[o]) :
                        /\ KeptOK(o, p, status[o], snapshot[o].binding, cycle[o], approvals,
                                  faults)
                        /\ FreshOK(p, snapshot[o].binding)
                    /\ LeftOK(run[o], ckpt[o], unsaved[o])
                    /\ decided[o] = NoValue /\ inflight[o] = NoValue
                    /\ work_order_of(o) = {}
                    /\ WaitOK(o)
  BY DEF BoundInv
<1>1. /\ run[o] = NoValue /\ ckpt[o] = NoValue /\ unsaved[o] = <<>> /\ decided[o] = NoValue
      /\ inflight[o] = NoValue
  BY DEF RootInit
<1>2. status[o] = "absent" /\ work_order_of(o) = {}
  BY DEF RootInit, Init, work_order_of
<1>3. Places(run[o], ckpt[o], unsaved[o]) = {}
  BY <1>1 DEF Places
<1>4. EventOK(o) /\ LeftOK(run[o], ckpt[o], unsaved[o]) /\ WaitOK(o)
  BY <1>1, <1>2 DEF EventOK, LeftOK, WaitOK, AwaitingDecision
<1> QED
  BY <1>1, <1>2, <1>3, <1>4

\* Both invariants in every behaviour of the root graph.
LEMMA RootBoundInv == RootSpec => [](GraphInv /\ BoundInv)
<1>1. GraphInv /\ BoundInv /\ [RootNext]_rootVars => (GraphInv /\ BoundInv)'
  BY RootNextKeeps, RootNextBound
<1>2. RootInit => GraphInv /\ BoundInv
  BY RootInitInv, RootInitBound
<1> QED
  BY <1>1, <1>2, PTL DEF RootSpec

\* A work order is of a plan approved before for its operation, and of that
\* of the row unless the thread has been set back.
approved_before(w) ==
    \E a \in approvals : a.op = w.op /\ a.decision = "approved" /\ a.binding.plan = w.payload
OrdersApproved ==
    \A w \in workOrders :
        /\ approved_before(w)
        /\ w.op \notin setBack => w.payload = snapshot[w.op].binding.plan

\* What the second invariant says of a work order.
LEMMA OrderPlan ==
    ASSUME GraphInv, BoundInv, NEW w \in workOrders
    PROVE  /\ w.op \in Operations /\ Approved(w.op)
           /\ w.op \notin setBack => w.payload = snapshot[w.op].binding.plan
           /\ approved_before(w)
<1>1. PICK o \in Operations : o = w.op
  BY DEF GraphInv, TypeOK, WorkOrderRows
<1>2. Approved(o) /\ PlanOK(o, w.payload, snapshot[o].binding, approvals, setBack)
  BY <1>1 DEF BoundInv, work_order_of
<1>3. PICK x \in Bindings : Consented(o, x, snapshot[o].binding, approvals) /\ w.payload = x.plan
  BY <1>2 DEF PlanOK
<1>4. \E a \in approvals : a.op = o /\ a.decision = "approved" /\ a.binding = x
  BY <1>2, <1>3, ApprovedConsent DEF GraphInv
<1> QED
  BY <1>1, <1>2, <1>3, <1>4 DEF PlanOK, approved_before

\* Whatever crashes, fails, lags or arrives late, a work order is of a plan
\* that was approved for its operation; and of the one approved in the current
\* cycle, unless the thread has lost three checkpoints at once: up to two, the
\* repeated nodes cannot get behind the interrupt of an earlier cycle.
THEOREM RootWorkOrderIsApproved == RootSpec => []WorkOrderIsApproved
<1>1. GraphInv /\ BoundInv => WorkOrderIsApproved
  <2> SUFFICES ASSUME GraphInv, BoundInv, NEW w \in workOrders
               PROVE  \E a \in approvals :
                          /\ a.op = w.op /\ a.decision = "approved"
                          /\ scenario_work_order_payload(a.binding.plan) = w.payload
                          /\ a.cycle = cycle[w.op] \/ w.op \in setBack
    BY DEF WorkOrderIsApproved
  <2>1. CASE w.op \in setBack
    BY <2>1, OrderPlan DEF approved_before, scenario_work_order_payload
  <2>2. CASE w.op \notin setBack
    <3>1. PICK a \in approvals : current_approval(w.op, a) /\ a.decision = "approved"
      BY OrderPlan DEF Approved
    <3>2. a.op = w.op /\ a.cycle = cycle[w.op] /\ a.binding = snapshot[w.op].binding
      BY <3>1, OrderPlan DEF current_approval, GraphInv, DecisionInv, DecisionBindsSnapshot
    <3> QED
      BY <2>2, <3>1, <3>2, OrderPlan DEF scenario_work_order_payload
  <2> QED
    BY <2>1, <2>2
<1> QED
  BY <1>1, RootBoundInv, PTL

\* Unless a call has failed, an operation that waits while the API serves
\* waits in a graph that the decision can resume; the graph holds the binding
\* that the approver sees, or its thread has been set back and it holds one
\* approved before.
THEOREM RootWaitingIsResumable == RootSpec => []WaitingIsResumable
<1>1. GraphInv /\ BoundInv => WaitingIsResumable
  <2> SUFFICES ASSUME GraphInv, BoundInv, NEW o \in Operations, faults = 0, boot = "serving",
                      status[o] \in AwaitingDecision, run[o] = NoValue
               PROVE  /\ interrupted(o)
                      /\ \/ ckpt[o].state.binding = snapshot[o].binding
                         \/ o \in setBack /\ approval_of(o, ckpt[o].state.binding)
    BY DEF WaitingIsResumable
  <2>1. WaitOK(o)
    BY DEF BoundInv
  <2>2. interrupted(o)
    BY <2>1 DEF WaitOK
  <2> QED
    BY <2>2, InterruptedBinding DEF Consented, approval_of
<1> QED
  BY <1>1, RootBoundInv, PTL

\* What sets a thread back writes nothing, and the API begins to serve by
\* serve alone.
LEMMA SetBackWritesNothing ==
    ASSUME GraphInv, [RootNext]_rootVars
    PROVE  /\ setBack' = setBack \/ workOrders' = workOrders
           /\ boot' = "serving" => boot = "serving" \/ serve
<1>1. CASE crash
  BY <1>1 DEF crash, storeVars
<1>2. CASE \E o \in Operations : run_dies(o)
  BY <1>2, StartFailedIsStoreStep DEF run_dies, storeVars
<1>3. CASE \E o \in Operations : GraphStep(o)
  <2>1. PICK o \in Operations : GraphStep(o)
    BY <1>3
  <2>2. CASE approval_interrupt(o) \/ graph_end(o)
    BY <2>2 DEF approval_interrupt, graph_end
  <2>3. CASE execute_work_order(o) \/ graph_mark_failed(o)
    BY <2>3 DEF execute_work_order, graph_mark_failed, Call
  <2>4. CASE \/ encode_goal(o) \/ investigate(o) \/ refresh_and_verify(o)
             \/ verify_work_order(o)
    BY <2>4 DEF encode_goal, investigate, refresh_and_verify, verify_work_order, ReadOnly
  <2>5. CASE \/ begin_operation(o) \/ persist_record_evidence(o)
             \/ persist_record_validated_plan(o) \/ persist_record_query_assessment(o)
             \/ persist_mark_reporting(o) \/ persist_complete(o)
             \/ persist_mark_awaiting_approval(o) \/ graph_mark_rejected(o)
             \/ graph_mark_needs_reapproval(o) \/ graph_mark_verifier_aborted(o)
             \/ graph_mark_executing(o) \/ graph_mark_verifying(o) \/ graph_mark_completed(o)
    BY <2>5 DEF begin_operation, persist_record_evidence, persist_record_validated_plan,
                persist_record_query_assessment, persist_mark_reporting, persist_complete,
                persist_mark_awaiting_approval, graph_mark_rejected, graph_mark_needs_reapproval,
                graph_mark_verifier_aborted, graph_mark_executing, graph_mark_verifying,
                graph_mark_completed, Call
  <2> QED
    BY <2>1, <2>2, <2>3, <2>4, <2>5 DEF GraphStep
<1>4. CASE \E o \in Operations :
            \/ \E req \in Requests : start(o, req)
            \/ save_checkpoint(o) \/ late_write(o) \/ capture(o) \/ submit_approval(o)
            \/ submit_approval_resume(o)
  BY <1>4 DEF start, save_checkpoint, late_write, capture, submit_approval, submit_approval_resume
<1>5. CASE Startup \/ Environment \/ Clock \/ UNCHANGED rootVars
  BY <1>5 DEF Startup, restart, expire_due, list_recoverable, recover, serve, Environment, Clock,
              procVars, rootVars
<1> QED
  BY <1>1, <1>2, <1>3, <1>4, <1>5 DEF RootNext

\* The root graph implements ApprovedWrite for any number of operations,
\* cycles, crashes, failing calls and unsaved checkpoints: its transactions
\* propose, decide, write and close as the promise allows, and every write is
\* made under an approval in force and of its plan, or of a plan approved
\* before on a thread that has been set back.
THEOREM RootKeepsApprovedWrite == RootSpec => KeepsApprovedWrite
<1>1. RootInit => Promise!Init
  BY PromiseInit DEF RootInit
<1>2. GraphInv /\ BoundInv => OrdersApproved
  BY OrderPlan DEF OrdersApproved
<1>3. /\ GraphInv
      /\ OrdersApproved'
      /\ [RootNext]_rootVars
      => [Promise!Next \/ WritesEarlierPlan(setBack)]_(Promise!promiseVars)
  <2> SUFFICES ASSUME GraphInv, OrdersApproved', [RootNext]_rootVars
               PROVE  [Promise!Next \/ WritesEarlierPlan(setBack)]_(Promise!promiseVars)
    OBVIOUS
  <2>1. PICK S : S = setBack
    OBVIOUS
  <2>2. PromiseReady
    BY DEF GraphInv, PromiseReady, OrdersAfterExecution
  <2>3. OrdersFollowPlan(S)
    <3> SUFFICES ASSUME NEW o \in Operations, NEW w \in work_order_of(o)', w \notin workOrders
                 PROVE  \/ w.payload = snapshot'[o].binding.plan
                        \/ /\ o \in S
                           /\ \E a \in approvals' :
                                  a.op = o /\ a.decision = "approved" /\ a.binding.plan = w.payload
      BY DEF OrdersFollowPlan
    <3>1. w \in workOrders' /\ w.op = o
      BY DEF work_order_of
    <3>2. setBack' = setBack
      BY <3>1, SetBackWritesNothing
    <3> QED
      BY <2>1, <3>1, <3>2 DEF OrdersApproved, approved_before
  <2>4. [Promise!Next \/ WritesEarlierPlan(S)]_(Promise!promiseVars)
    BY <2>2, <2>3, RootNextKeeps, StorePromise
  <2> QED
    BY <2>1, <2>4 DEF WritesEarlierPlan
<1> QED
  BY <1>1, <1>2, <1>3, RootBoundInv, PTL DEF RootSpec, KeepsApprovedWrite

-----------------------------------------------------------------------------
(* The signals across startups *)

\* No node of a graph expires an operation.
LEMMA NodeExpiresNothing ==
    ASSUME GraphInv, NEW o \in Operations, GraphStep(o), NEW q \in Operations,
           status[q] \in AwaitingDecision
    PROVE  status'[q] # "expired"
<1> USE DEF Call, ReadOnly, GraphInv, TypeOK, AwaitingDecision
<1>1. CASE \/ encode_goal(o) \/ investigate(o) \/ approval_interrupt(o) \/ refresh_and_verify(o)
           \/ verify_work_order(o) \/ graph_end(o)
  BY <1>1 DEF encode_goal, investigate, approval_interrupt, refresh_and_verify,
              verify_work_order, graph_end, storeVars, opVars
<1>2. CASE \/ begin_operation(o) \/ persist_record_evidence(o) \/ persist_record_validated_plan(o)
           \/ persist_record_query_assessment(o) \/ persist_mark_reporting(o)
  BY <1>2 DEF begin_operation, persist_record_evidence, persist_record_validated_plan,
              persist_record_query_assessment, persist_mark_reporting, mark_gathering_evidence,
              record_evidence, record_validated_plan, record_query_assessment, mark_reporting,
              transition, storeVars, opVars
<1>3. CASE persist_complete(o) \/ graph_mark_rejected(o) \/ graph_mark_verifier_aborted(o)
  BY <1>3 DEF persist_complete, graph_mark_rejected, graph_mark_verifier_aborted,
              complete_without_replenishment, mark_rejected, mark_verifier_aborted,
              transition, storeVars, opVars
<1>4. CASE \/ graph_mark_executing(o) \/ execute_work_order(o) \/ graph_mark_verifying(o)
           \/ graph_mark_completed(o) \/ graph_mark_failed(o)
  BY <1>4 DEF graph_mark_executing, execute_work_order, graph_mark_verifying,
              graph_mark_completed, graph_mark_failed, mark_executing, create_or_get,
              mark_verifying, mark_completed, mark_failed, transition, storeVars, opVars
<1>5. CASE persist_mark_awaiting_approval(o) \/ graph_mark_needs_reapproval(o)
  BY <1>5 DEF persist_mark_awaiting_approval, graph_mark_needs_reapproval,
              mark_awaiting_approval, mark_needs_reapproval, transition, storeVars, opVars
<1> QED
  BY <1>1, <1>2, <1>3, <1>4, <1>5 DEF GraphStep

\* While the API does not serve, only expire_due expires an operation.
LEMMA ExpiresInStartup ==
    ASSUME GraphInv, [RootNext]_rootVars, boot # "serving", NEW q \in Operations,
           status[q] \in AwaitingDecision, status'[q] = "expired"
    PROVE  expire_due(q)
<1> USE DEF AwaitingDecision
<1>1. CASE \E o \in Operations : GraphStep(o)
  BY <1>1, NodeExpiresNothing
<1>2. ASSUME NEW o \in Operations, (\E e \in Errors : mark_failed(o, e)) \/ UNCHANGED storeVars
      PROVE  FALSE
  BY <1>2 DEF mark_failed, transition, GraphInv, TypeOK, storeVars, opVars
<1>3. CASE \E o \in Operations : run_dies(o) \/ capture(o) \/ recover(o)
  BY <1>2, <1>3 DEF run_dies, capture, recover, mark_start_failed, storeVars
<1>4. CASE \E o \in Operations : \/ \E req \in Requests : start(o, req)
                                \/ submit_approval(o)
  BY <1>4 DEF start, submit_approval
<1>5. CASE \E o \in Operations : save_checkpoint(o) \/ submit_approval_resume(o) \/ late_write(o)
  BY <1>5 DEF save_checkpoint, submit_approval_resume, late_write, create_or_get, storeVars, opVars
<1>6. CASE \E o \in Operations : expire_due(o)
  BY <1>6 DEF expire_due, mark_expired, transition, GraphInv, TypeOK
<1>7. CASE \/ crash \/ restart \/ list_recoverable \/ serve \/ Environment \/ Clock
           \/ UNCHANGED rootVars
  BY <1>7 DEF crash, restart, list_recoverable, serve, Environment, Clock, rootVars, storeVars,
              opVars, reconcile_terminal_links, upsert_detected, create_successor, Tick
<1> QED
  BY <1>1, <1>3, <1>4, <1>5, <1>6, <1>7 DEF RootNext, Startup

\* However often the process crashes and whatever fails, the expiries of a
\* startup settle the signals of their operations, and the API does not serve
\* again before the signals left behind by late decisions are settled too.
THEOREM RootStartupSettlesSignals == RootSpec => StartupSettlesSignals
<1>1. GraphInv /\ SignalInv /\ [RootNext]_rootVars
      => [\A s \in Signals : left_behind(s)' =>
            /\ left_behind(s) \/ boot = "serving"
            /\ boot' = "serving" => boot = "serving"]_rootVars
  <2> SUFFICES ASSUME GraphInv, SignalInv, [RootNext]_rootVars, NEW s \in Signals, left_behind(s)',
                      boot # "serving"
               PROVE  left_behind(s) /\ boot' # "serving"
    OBVIOUS
  <2>1. [Next]_storeVars /\ TypeOK
    BY RootNextKeeps DEF GraphInv
  <2>2. left_behind(s)
    <3> SUFFICES ASSUME NEW t \in 0..now, submit_bound_once_expired(signals[s].op, t)
                 PROVE  left_behind(s)
      BY <2>1, LeftBehindStep
    <3>1. PICK o : o = signals[s].op
      OBVIOUS
    <3>2. /\ signals'[s] = signals[s] /\ o \in Operations
          /\ status[o] \in AwaitingDecision /\ status'[o] = "expired"
      <4>1. signals' = signals
        BY DEF submit_bound_once_expired
      <4>2. o \in Operations
        BY <3>1, <4>1 DEF left_behind, GraphInv, TypeOK, SignalRows
      <4> QED
        BY <3>1, <4>1, <4>2 DEF submit_bound_once_expired, decision_open, GraphInv, TypeOK
    <3>3. expire_due(o)
      BY <3>2, ExpiresInStartup
    <3>4. update_linked_signal(o, "expired")
      BY <3>3 DEF expire_due, mark_expired, transition
    <3>5. signals'[s].status # "investigating"
      BY <3>1, <3>4 DEF update_linked_signal, signal_status_for_operation_terminal, Terminal,
                        GraphInv, TypeOK, SignalRows
    <3> QED
      BY <3>5 DEF left_behind
  <2>3. ~ serve
    <3> SUFFICES ASSUME serve PROVE FALSE
      OBVIOUS
    <3>1. terminal_link(s) /\ status[signals[s].op] = "expired"
      BY <2>2 DEF left_behind, terminal_link, Terminal
    <3>2. signals'[s] = [signals[s] EXCEPT !.status = "attention_required"]
      BY <3>1 DEF serve, reconcile_terminal_links, signal_status_for_operation_terminal
    <3>3. signals'[s].status = "attention_required"
      BY <2>1, <3>2 DEF TypeOK, SignalRows
    <3> QED
      BY <3>3 DEF left_behind
  <2> QED
    BY <2>2, <2>3, SetBackWritesNothing
<1>2. RootSpec => [](TypeOK /\ SignalInv)
  BY RootImplementsStore, StoreTypes, StoreSignalInv, PTL
<1> QED
  BY <1>1, <1>2, RootGraphInv, PTL DEF RootSpec, StartupSettlesSignals
=============================================================================
