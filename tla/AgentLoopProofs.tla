--------------------------- MODULE AgentLoopProofs ---------------------------
(***************************************************************************)
(* Theorems about AgentLoop, for every set of tools, every budget and any  *)
(* number of crashes, whatever the model asks for.                         *)
(***************************************************************************)
EXTENDS AgentLoop, SequenceTheorems, FiniteSetTheorems, TLAPS

-----------------------------------------------------------------------------
(* The inductive invariant *)

\* A history of calls that ToolPolicy let through: expected ones, each
\* identifier and each tool at most once.
Sound(calls) ==
    /\ \A n \in DOMAIN calls : expected_call(calls[n])
    /\ \A m, n \in DOMAIN calls : calls[m].id = calls[n].id \/ calls[m].tool = calls[n].tool => m = n

IdsOf(st) == {st.authorized[n].id : n \in DOMAIN st.authorized}

SuccessfulIn(st) ==
    {st.authorized[n].tool : n \in {m \in DOMAIN st.authorized :
        st.observed[st.authorized[m].id] = "ok"}}

\* What holds of the running state and of the saved one alike.  The counts say
\* that a turn of the model is paid for by the goal, by the final analysis or
\* by a tool that was authorized and can never be asked for again.
StateInv(st) ==
    /\ Sound(st.authorized)
    /\ DOMAIN st.observed \subseteq IdsOf(st)
    /\ st.node = "authorize_tools" => st.turn \in ToolDecisions
    /\ st.node = "encode_goal" => st.model_call_count = 0
    /\ st.node \in {"begin_operation", "model_decide", "execute_read_tools"} =>
           st.model_call_count <= Len(st.authorized) + 1
    /\ st.node = "authorize_tools" => st.model_call_count <= Len(st.authorized) + 2
    /\ st.node \in {"calculate_policy", "persist_policy_result"} => Required \subseteq SuccessfulIn(st)
    /\ MaxModelCalls >= Cardinality(Offered) + 2 => st.error # "model_budget_exceeded"

Abandoned == {"mark_failed", "raised"}

\* What a run in state st may have cost once cr crashes have happened: its own
\* calls, on top of those of the runs that a crash has ended.
Spend(st, sp, rd, cr) ==
    /\ st.node \notin Abandoned =>
           /\ sp <= MaxModelCalls * cr + st.model_call_count
           /\ rd <= Cardinality(Offered) * cr + Cardinality(DOMAIN st.observed)
    /\ sp <= MaxModelCalls * (cr + 1)
    /\ rd <= Cardinality(Offered) * (cr + 1)

SpendInv == Spend(state, spent, reads, crashes)

LoopInv == LoopTypeOK /\ StateInv(state) /\ StateInv(ckpt) /\ SpendInv

-----------------------------------------------------------------------------
(* What the tool policy guarantees *)

\* A turn that authorize_all accepts keeps the history sound.
LEMMA AuthorizedIsSound ==
    ASSUME NEW prior \in Seq(Calls), NEW calls \in Seq(Calls), Sound(prior),
           authorize_all(calls, prior)
    PROVE  Sound(prior \o calls)
<1> DEFINE s == prior \o calls
           L == Len(prior)
<1>1. /\ L \in Nat /\ Len(calls) \in Nat
      /\ DOMAIN prior = 1..L /\ DOMAIN calls = 1..Len(calls)
      /\ \A n \in 1..L : prior[n] \in Calls
      /\ \A n \in 1..Len(calls) : calls[n] \in Calls
  OBVIOUS
<1>2. /\ s \in Seq(Calls)
      /\ Len(s) = L + Len(calls)
      /\ DOMAIN s = 1..(L + Len(calls))
      /\ \A n \in 1..L : s[n] = prior[n]
      /\ \A n \in (L + 1)..(L + Len(calls)) : s[n] = calls[n - L] /\ n - L \in 1..Len(calls)
  BY <1>1, ConcatProperties
<1> HIDE DEF s
<1>3. ASSUME NEW n \in (L + 1)..(L + Len(calls)), NEW m \in 1..(n - 1)
      PROVE  s[m].id # s[n].id /\ ~ (s[m].tool = s[n].tool /\ s[m].arguments = s[n].arguments)
  <2>1. PICK k : k = n - L
    OBVIOUS
  <2>2. k \in 1..Len(calls) /\ s[n] = calls[k]
    BY <1>1, <1>2, <2>1
  <2>3. PICK before : before = SubSeq(calls, 1, k - 1)
    OBVIOUS
  <2>4. /\ before \in Seq(Calls) /\ Len(before) = k - 1
        /\ \A j \in 1..(k - 1) : before[j] = calls[j]
    <3>1. PICK one \in Int : one = 1
      OBVIOUS
    <3>2. PICK last \in Int : last = k - 1
      BY <2>2
    <3>3. \A j \in one..last : calls[j] \in Calls
      BY <1>1, <2>2, <3>1, <3>2
    <3>4. /\ SubSeq(calls, one, last) \in Seq(Calls)
          /\ Len(SubSeq(calls, one, last)) = IF one <= last THEN last - one + 1 ELSE 0
          /\ \A j \in 1 .. last - one + 1 : SubSeq(calls, one, last)[j] = calls[one + j - 1]
      BY <3>3, SubSeqProperties
    <3>5. Len(before) = k - 1
      BY <2>2, <2>3, <3>1, <3>2, <3>4
    <3>6. ASSUME NEW j \in 1..(k - 1) PROVE before[j] = calls[j]
      <4>1. j \in 1 .. last - one + 1 /\ one + j - 1 = j
        BY <2>2, <3>1, <3>2
      <4>2. SubSeq(calls, one, last)[j] = calls[one + j - 1]
        BY <3>4, <4>1
      <4> QED
        BY <2>3, <3>1, <3>2, <4>1, <4>2, Zenon
    <3> QED
      BY <2>3, <3>1, <3>2, <3>4, <3>5, <3>6
  <2>5. PICK t : t = prior \o before
    OBVIOUS
  <2>6. /\ DOMAIN t = 1..(n - 1)
        /\ \A j \in 1..L : t[j] = prior[j]
        /\ \A j \in (L + 1)..(n - 1) : t[j] = before[j - L]
    BY <1>1, <2>1, <2>2, <2>4, <2>5, ConcatProperties
  <2>7. t[m] = s[m]
    <3>1. CASE m \in 1..L
      BY <1>2, <2>6, <3>1
    <3>2. CASE m \in (L + 1)..(n - 1)
      <4>1. m \in (L + 1)..(L + Len(calls)) /\ m - L \in 1..(k - 1)
        BY <1>1, <2>1, <2>2, <3>2
      <4> QED
        BY <1>2, <2>4, <2>6, <3>2, <4>1
    <3> QED
      BY <1>1, <3>1, <3>2
  <2>8. ~ duplicate_call(calls[k], t)
    BY <1>1, <2>2, <2>3, <2>5 DEF authorize_all, authorize
  <2> QED
    BY <2>2, <2>6, <2>7, <2>8 DEF duplicate_call
<1>4. \A n \in DOMAIN s : expected_call(s[n])
  <2> SUFFICES ASSUME NEW n \in 1..(L + Len(calls))
               PROVE  expected_call(s[n])
    BY <1>2
  <2>1. CASE n \in 1..L
    BY <1>1, <1>2, <2>1 DEF Sound
  <2>2. CASE n \in (L + 1)..(L + Len(calls))
    BY <1>1, <1>2, <2>2 DEF authorize_all, authorize
  <2> QED
    BY <1>1, <2>1, <2>2
<1>5. ASSUME NEW m \in DOMAIN s, NEW n \in DOMAIN s, m < n,
             s[m].id = s[n].id \/ s[m].tool = s[n].tool
      PROVE  FALSE
  <2>1. s[m].arguments = "expected" /\ s[n].arguments = "expected"
    BY <1>4 DEF expected_call
  <2>2. CASE n \in 1..L
    BY <1>1, <1>2, <1>5, <2>2 DEF Sound
  <2>3. CASE n \in (L + 1)..(L + Len(calls))
    <3>1. m \in 1..(n - 1)
      BY <1>1, <1>2, <1>5
    <3> QED
      BY <1>3, <1>5, <2>1, <2>3, <3>1
  <2> QED
    BY <1>1, <1>2, <2>2, <2>3
<1>6. \A m, n \in DOMAIN s : m < n \/ n < m \/ m = n
  BY <1>1, <1>2
<1> QED
  BY <1>4, <1>5, <1>6 DEF Sound, s

\* There are no more sound calls than tools, and no more identifiers than calls.
LEMMA SoundIsBounded ==
    ASSUME NEW calls \in Seq(Calls), Sound(calls)
    PROVE  LET ids == {calls[n].id : n \in DOMAIN calls} IN
           /\ Cardinality(Offered) \in Nat
           /\ Len(calls) \in Nat /\ Len(calls) <= Cardinality(Offered)
           /\ IsFiniteSet(ids) /\ Cardinality(ids) \in Nat /\ Cardinality(ids) <= Len(calls)
<1> DEFINE ids == {calls[n].id : n \in DOMAIN calls}
<1>1. DOMAIN calls = 1..Len(calls) /\ Len(calls) \in Nat /\ IsFiniteSet(Offered)
  BY ToolPolicyAssumption
<1>2. IsFiniteSet(1..Len(calls)) /\ Cardinality(1..Len(calls)) = Len(calls)
  <2>1. PICK one \in Int : one = 1
    OBVIOUS
  <2>2. PICK len \in Nat : len = Len(calls)
    BY <1>1
  <2> len \in Int
    OBVIOUS
  <2>3. IsFiniteSet(one..len) /\ Cardinality(one..len) = IF one > len THEN 0 ELSE len - one + 1
    BY FS_Interval
  <2> QED
    BY <1>1, <2>1, <2>2, <2>3
<1>3. PICK f : f = [n \in 1..Len(calls) |-> calls[n].tool]
  OBVIOUS
<1>4. f \in Injection(1..Len(calls), Offered)
  BY <1>1, <1>3 DEF Sound, expected_call, Injection, IsInjective
<1>5. Len(calls) <= Cardinality(Offered) /\ Cardinality(Offered) \in Nat
  BY <1>1, <1>2, <1>4, FS_Injection, FS_CardinalityType
<1>6. PICK g : g = [n \in 1..Len(calls) |-> calls[n].id]
  OBVIOUS
<1>7. g \in Surjection(1..Len(calls), ids)
  BY <1>1, <1>6 DEF Surjection
<1> HIDE DEF ids
<1>8. IsFiniteSet(ids) /\ Cardinality(ids) <= Len(calls) /\ Cardinality(ids) \in Nat
  BY <1>2, <1>7, FS_Surjection, FS_CardinalityType
<1> QED
  BY <1>1, <1>5, <1>8 DEF ids

\* The observations of a state answer authorized calls: there are at most as
\* many as tools, and the open calls are the others.
LEMMA ObservationsAreBounded ==
    ASSUME NEW st \in States, StateInv(st)
    PROVE  LET ids == IdsOf(st)
               seen == Cardinality(DOMAIN st.observed)
               open == ids \ DOMAIN st.observed IN
           /\ Cardinality(Offered) \in Nat
           /\ Len(st.authorized) \in Nat /\ Len(st.authorized) <= Cardinality(Offered)
           /\ Cardinality(ids) \in Nat /\ Cardinality(ids) <= Len(st.authorized)
           /\ seen \in Nat /\ seen <= Cardinality(ids)
           /\ Cardinality(open) \in Nat /\ seen + Cardinality(open) = Cardinality(ids)
<1> DEFINE ids == IdsOf(st)
           dom == DOMAIN st.observed
<1>1. st.authorized \in Seq(Calls) /\ Sound(st.authorized) /\ dom \subseteq ids
  BY DEF States, StateInv
<1>2. ids = {st.authorized[n].id : n \in DOMAIN st.authorized}
  BY DEF IdsOf
<1>3. /\ Cardinality(Offered) \in Nat
      /\ Len(st.authorized) \in Nat /\ Len(st.authorized) <= Cardinality(Offered)
      /\ IsFiniteSet(ids) /\ Cardinality(ids) \in Nat /\ Cardinality(ids) <= Len(st.authorized)
  BY <1>1, <1>2, SoundIsBounded
<1> HIDE DEF ids, dom
<1>4. IsFiniteSet(dom) /\ Cardinality(dom) <= Cardinality(ids) /\ Cardinality(dom) \in Nat
  BY <1>1, <1>3, FS_Subset, FS_CardinalityType
<1>5. ids \cap dom = dom
  BY <1>1
<1>6. /\ IsFiniteSet(ids \ dom) /\ Cardinality(ids \ dom) \in Nat
      /\ Cardinality(ids \ dom) = Cardinality(ids) - Cardinality(dom)
  <2>1. IsFiniteSet(ids \ dom) /\ Cardinality(ids \ dom) = Cardinality(ids) - Cardinality(ids \cap dom)
    BY <1>3, FS_Difference
  <2> QED
    BY <1>5, <2>1, FS_CardinalityType
<1>7. Cardinality(dom) + Cardinality(ids \ dom) = Cardinality(ids)
  BY <1>3, <1>4, <1>6
<1> QED
  BY <1>3, <1>4, <1>6, <1>7 DEF ids, dom

\* The bounds of one more crash.
LEMMA OneMoreRun ==
    ASSUME NEW a \in Nat, NEW n \in Nat
    PROVE  a * n \in Nat /\ a * (n + 1) = a * n + a
OBVIOUS

-----------------------------------------------------------------------------
(* How a node ends *)

\* A node that finishes in a good state at a bounded cost keeps the invariant,
\* whether that state is saved or not.
LEMMA FinishKeeps ==
    ASSUME LoopInv, NEW nx \in States, StateInv(nx), finish(nx),
           spent' \in Nat, reads' \in Nat, crashes' = crashes,
           Spend(nx, spent', reads', crashes)
    PROVE  LoopInv'
<1>1. state' = nx /\ ckpt' \in {ckpt, nx}
  BY DEF finish
<1>2. LoopTypeOK'
  BY <1>1 DEF LoopInv, LoopTypeOK
<1>3. StateInv(state') /\ StateInv(ckpt')
  BY <1>1 DEF LoopInv
<1>4. Spend(state', spent', reads', crashes')
  BY <1>1
<1> QED
  BY <1>2, <1>3, <1>4 DEF LoopInv, SpendInv

\* The initial state is a state of the graph.
LEMMA InitialIsState == initial_state \in States
<1>1. 0 \in 0 .. MaxModelCalls /\ <<>> \in Seq(Calls) /\ "encode_goal" \in Nodes \cup Outcomes
  BY ToolPolicyAssumption DEF Nodes, Outcomes
<1>2. <<>> \in Observations
  <2>1. PICK empty : empty = <<>>
    OBVIOUS
  <2>2. empty \in [{} -> {"ok", "error"}]
    BY <2>1
  <2> QED
    BY <2>1, <2>2 DEF Observations
<1>3. "none" \in ErrorCodes
  BY DEF ErrorCodes
<1> QED
  BY <1>1, <1>2, <1>3 DEF initial_state, States

\* A state in which nothing was asked and nothing was read is a good one, unless
\* it failed for want of model calls that the budget should have had.
LEMMA BlankIsGood ==
    ASSUME NEW st, st.node \in {"encode_goal", "mark_failed", "raised"},
           st.model_call_count = 0, st.authorized = <<>>, st.observed = <<>>,
           MaxModelCalls >= Cardinality(Offered) + 2 => st.error # "model_budget_exceeded"
    PROVE  StateInv(st)
<1>1. DOMAIN st.observed = {} /\ Sound(st.authorized)
  BY DEF Sound
<1> QED
  BY <1>1 DEF StateInv

\* A failure keeps the invariant if its cost is bounded.
LEMMA FailKeeps ==
    ASSUME LoopInv, NEW code \in ErrorCodes, fail(code),
           MaxModelCalls >= Cardinality(Offered) + 2 => code # "model_budget_exceeded",
           spent' \in Nat, reads' \in Nat, crashes' = crashes,
           spent' <= MaxModelCalls * (crashes + 1),
           reads' <= Cardinality(Offered) * (crashes + 1)
    PROVE  LoopInv'
<1>1. PICK nx : nx = [initial_state EXCEPT !.node = "mark_failed", !.error = code]
  OBVIOUS
<1>2. nx \in States
  BY <1>1, InitialIsState DEF States, Outcomes
<1>3. finish(nx)
  BY <1>1 DEF fail
<1>4. /\ nx.node = "mark_failed" /\ nx.error = code /\ nx.model_call_count = 0
      /\ nx.authorized = <<>> /\ nx.observed = <<>>
  BY <1>1 DEF initial_state
<1>6. StateInv(nx)
  BY <1>4, BlankIsGood
<1>5. Spend(nx, spent', reads', crashes)
  BY <1>4 DEF Spend, Abandoned
<1> QED
  BY <1>2, <1>3, <1>5, <1>6, FinishKeeps

\* So does an exception.
LEMMA RaisedKeeps ==
    ASSUME LoopInv, raised, spent' \in Nat, reads' \in Nat, crashes' = crashes,
           spent' <= MaxModelCalls * (crashes + 1),
           reads' <= Cardinality(Offered) * (crashes + 1)
    PROVE  LoopInv'
<1>1. PICK nx : nx = [initial_state EXCEPT !.node = "raised"]
  OBVIOUS
<1>2. nx \in States
  BY <1>1, InitialIsState DEF States, Outcomes
<1>3. finish(nx)
  BY <1>1 DEF raised, finish
<1>4. /\ nx.node = "raised" /\ nx.error = "none" /\ nx.model_call_count = 0
      /\ nx.authorized = <<>> /\ nx.observed = <<>>
  BY <1>1 DEF initial_state
<1>5. StateInv(nx)
  BY <1>4, BlankIsGood
<1>6. Spend(nx, spent', reads', crashes)
  BY <1>4 DEF Spend, Abandoned
<1> QED
  BY <1>2, <1>3, <1>5, <1>6, FinishKeeps

\* The numbers of a run that goes on: what it may still cost.
LEMMA Numbers ==
    ASSUME LoopInv
    PROVE  /\ MaxModelCalls \in Nat /\ MaxModelCalls >= 1 /\ Cardinality(Offered) \in Nat
           /\ spent \in Nat /\ reads \in Nat /\ crashes \in Nat
           /\ MaxModelCalls * crashes \in Nat /\ Cardinality(Offered) * crashes \in Nat
           /\ MaxModelCalls * (crashes + 1) = MaxModelCalls * crashes + MaxModelCalls
           /\ Cardinality(Offered) * (crashes + 1) = Cardinality(Offered) * crashes + Cardinality(Offered)
           /\ state \in States /\ StateInv(state)
           /\ state.model_call_count \in 0 .. MaxModelCalls
           /\ spent <= MaxModelCalls * (crashes + 1)
           /\ reads <= Cardinality(Offered) * (crashes + 1)
<1>1. /\ state \in States /\ StateInv(state)
      /\ spent \in Nat /\ reads \in Nat /\ crashes \in Nat
  BY LoopAssumption DEF LoopInv, LoopTypeOK
<1>2. Cardinality(Offered) \in Nat
  BY <1>1, ObservationsAreBounded
<1>3. MaxModelCalls \in Nat /\ MaxModelCalls >= 1
  BY ToolPolicyAssumption
<1>4. state.model_call_count \in 0 .. MaxModelCalls
  BY <1>1 DEF States
<1>5. spent <= MaxModelCalls * (crashes + 1) /\ reads <= Cardinality(Offered) * (crashes + 1)
  BY DEF LoopInv, SpendInv, Spend
<1> QED
  BY <1>1, <1>2, <1>3, <1>4, <1>5, OneMoreRun

\* The same, of the counts of the running state.
LEMMA Counts ==
    ASSUME LoopInv
    PROVE  /\ state \in States /\ StateInv(state)
           /\ state.model_call_count \in Nat /\ state.model_call_count <= MaxModelCalls
           /\ MaxModelCalls \in Nat /\ Cardinality(Offered) \in Nat
           /\ Len(state.authorized) \in Nat /\ Len(state.authorized) <= Cardinality(Offered)
           /\ Cardinality(IdsOf(state)) \in Nat /\ Cardinality(IdsOf(state)) <= Len(state.authorized)
           /\ Cardinality(DOMAIN state.observed) \in Nat
           /\ Cardinality(DOMAIN state.observed) <= Cardinality(IdsOf(state))
           /\ Cardinality(IdsOf(state) \ DOMAIN state.observed) \in Nat
           /\ Cardinality(DOMAIN state.observed) + Cardinality(IdsOf(state) \ DOMAIN state.observed)
                = Cardinality(IdsOf(state))
<1>1. state \in States /\ StateInv(state) /\ state.model_call_count \in 0 .. MaxModelCalls
  BY Numbers
<1>2. MaxModelCalls \in Nat
  BY Numbers
<1>3. PICK st \in States : st = state /\ StateInv(st)
  BY <1>1
<1>4. /\ Cardinality(Offered) \in Nat
      /\ Len(st.authorized) \in Nat /\ Len(st.authorized) <= Cardinality(Offered)
      /\ Cardinality(IdsOf(st)) \in Nat /\ Cardinality(IdsOf(st)) <= Len(st.authorized)
      /\ Cardinality(DOMAIN st.observed) \in Nat
      /\ Cardinality(DOMAIN st.observed) <= Cardinality(IdsOf(st))
      /\ Cardinality(IdsOf(st) \ DOMAIN st.observed) \in Nat
      /\ Cardinality(DOMAIN st.observed) + Cardinality(IdsOf(st) \ DOMAIN st.observed)
           = Cardinality(IdsOf(st))
  BY <1>3, ObservationsAreBounded
<1>5. state.model_call_count \in Nat /\ state.model_call_count <= MaxModelCalls
  BY <1>1, <1>2
<1> QED
  BY <1>1, <1>2, <1>3, <1>4, <1>5

-----------------------------------------------------------------------------
(* One lemma per node *)

\* The goal costs the run its first model call.
LEMMA GoalStep ==
    ASSUME LoopInv, encode_goal
    PROVE  LoopInv'
<1>1. /\ state.node = "encode_goal" /\ spent' = spent + 1 /\ reads' = reads /\ crashes' = crashes
  BY DEF encode_goal
<1>2. state.model_call_count = 0
  BY <1>1, Numbers DEF StateInv
<1>3. /\ spent <= MaxModelCalls * crashes
      /\ reads <= Cardinality(Offered) * crashes + Cardinality(DOMAIN state.observed)
  BY <1>1, <1>2, Numbers DEF LoopInv, SpendInv, Spend, Abandoned
<1>4. /\ spent' \in Nat /\ reads' \in Nat
      /\ spent' <= MaxModelCalls * crashes + 1
      /\ spent' <= MaxModelCalls * (crashes + 1)
      /\ reads' <= Cardinality(Offered) * (crashes + 1)
  BY <1>1, <1>3, Numbers
<1>5. CASE finish([state EXCEPT !.node = "begin_operation", !.model_call_count = 1])
  <2>1. PICK nx : nx = [state EXCEPT !.node = "begin_operation", !.model_call_count = 1]
    OBVIOUS
  <2>2. nx \in States
    <3>1. 1 \in 0 .. MaxModelCalls
      BY Numbers
    <3> QED
      BY <2>1, <3>1, Numbers DEF States, Nodes
  <2>3. /\ nx.node = "begin_operation" /\ nx.model_call_count = 1 /\ nx.authorized = state.authorized
        /\ nx.observed = state.observed /\ nx.error = state.error
    BY <2>1, Numbers DEF States
  <2>4. IdsOf(nx) = IdsOf(state)
    BY <2>3 DEF IdsOf
  <2>5. 1 <= Len(nx.authorized) + 1
    BY <2>3, Numbers, ObservationsAreBounded
  <2>6. StateInv(nx)
    BY <2>3, <2>4, <2>5, Numbers DEF StateInv
  <2>7. Spend(nx, spent', reads', crashes)
    BY <1>1, <1>3, <1>4, <2>3 DEF Spend
  <2> QED
    BY <1>1, <1>4, <1>5, <2>1, <2>2, <2>6, <2>7, FinishKeeps
<1>6. CASE fail("trusted_goal_mismatch")
  <2>1. PICK code \in ErrorCodes : code = "trusted_goal_mismatch"
    BY DEF ErrorCodes
  <2> QED
    BY <1>1, <1>4, <1>6, <2>1, FailKeeps
<1>7. CASE raised
  BY <1>1, <1>4, <1>7, RaisedKeeps
<1> QED
  BY <1>5, <1>6, <1>7 DEF encode_goal

\* Opening the operation costs nothing.
LEMMA BeginStep ==
    ASSUME LoopInv, begin_operation
    PROVE  LoopInv'
<1>1. state.node = "begin_operation" /\ spent' = spent /\ reads' = reads /\ crashes' = crashes
  BY DEF begin_operation
<1>2. CASE finish([state EXCEPT !.node = "model_decide"])
  <2>1. PICK nx : nx = [state EXCEPT !.node = "model_decide"]
    OBVIOUS
  <2>2. nx \in States
    BY <2>1, Numbers DEF States, Nodes
  <2>3. /\ nx.node = "model_decide" /\ nx.model_call_count = state.model_call_count
        /\ nx.authorized = state.authorized /\ nx.observed = state.observed /\ nx.error = state.error
    BY <2>1, Numbers DEF States
  <2>4. IdsOf(nx) = IdsOf(state)
    BY <2>3 DEF IdsOf
  <2>5. StateInv(nx)
    BY <1>1, <2>3, <2>4, Numbers DEF StateInv
  <2>6. Spend(nx, spent', reads', crashes)
    BY <1>1, <2>3 DEF Spend, Abandoned, LoopInv, SpendInv
  <2> QED
    BY <1>1, <1>2, <2>1, <2>2, <2>5, <2>6, Numbers, FinishKeeps
<1>3. CASE fail("dependency_unavailable")
  <2>1. PICK code \in ErrorCodes : code = "dependency_unavailable"
    BY DEF ErrorCodes
  <2> QED
    BY <1>1, <1>3, <2>1, Numbers, FailKeeps
<1> QED
  BY <1>2, <1>3 DEF begin_operation

\* The policy costs nothing and is applied to the evidence it was given.
LEMMA PolicyStep ==
    ASSUME LoopInv, calculate_policy
    PROVE  LoopInv'
<1>1. state.node = "calculate_policy" /\ spent' = spent /\ reads' = reads /\ crashes' = crashes
  BY DEF calculate_policy
<1>2. CASE finish([state EXCEPT !.node = "persist_policy_result"])
  <2>1. PICK nx : nx = [state EXCEPT !.node = "persist_policy_result"]
    OBVIOUS
  <2>2. nx \in States
    BY <2>1, Numbers DEF States, Outcomes
  <2>3. /\ nx.node = "persist_policy_result" /\ nx.model_call_count = state.model_call_count
        /\ nx.authorized = state.authorized /\ nx.observed = state.observed /\ nx.error = state.error
    BY <2>1, Numbers DEF States
  <2>4. IdsOf(nx) = IdsOf(state) /\ SuccessfulIn(nx) = SuccessfulIn(state)
    BY <2>3 DEF IdsOf, SuccessfulIn
  <2>5. StateInv(nx)
    BY <1>1, <2>3, <2>4, Numbers DEF StateInv
  <2>6. Spend(nx, spent', reads', crashes)
    BY <1>1, <2>3 DEF Spend, Abandoned, LoopInv, SpendInv
  <2> QED
    BY <1>1, <1>2, <2>1, <2>2, <2>5, <2>6, Numbers, FinishKeeps
<1>3. CASE fail("policy_guard_failed")
  <2>1. PICK code \in ErrorCodes : code = "policy_guard_failed"
    BY DEF ErrorCodes
  <2> QED
    BY <1>1, <1>3, <2>1, Numbers, FailKeeps
<1> QED
  BY <1>2, <1>3 DEF calculate_policy

\* The final analysis is believed only if every required tool has answered.
LEMMA FinalStep ==
    ASSUME LoopInv, validate_final_analysis
    PROVE  LoopInv'
<1>1. state.node = "validate_final_analysis" /\ spent' = spent /\ reads' = reads /\ crashes' = crashes
  BY DEF validate_final_analysis
<1>2. CASE /\ Required \subseteq successful
           /\ finish([state EXCEPT !.node = "calculate_policy", !.turn = NoTurn])
  <2>1. PICK nx : nx = [state EXCEPT !.node = "calculate_policy", !.turn = NoTurn]
    OBVIOUS
  <2>2. nx \in States
    BY <2>1, Numbers DEF States, Nodes
  <2>3. /\ nx.node = "calculate_policy" /\ nx.model_call_count = state.model_call_count
        /\ nx.authorized = state.authorized /\ nx.observed = state.observed /\ nx.error = state.error
    BY <2>1, Numbers DEF States
  <2>4. IdsOf(nx) = IdsOf(state) /\ SuccessfulIn(nx) = successful
    BY <2>3 DEF IdsOf, SuccessfulIn, successful
  <2>5. StateInv(nx)
    BY <1>1, <1>2, <2>3, <2>4, Numbers DEF StateInv
  <2>6. Spend(nx, spent', reads', crashes)
    BY <1>1, <2>3 DEF Spend, Abandoned, LoopInv, SpendInv
  <2> QED
    BY <1>1, <1>2, <2>1, <2>2, <2>5, <2>6, Numbers, FinishKeeps
<1>3. CASE fail("required_evidence_incomplete")
  <2>1. PICK code \in ErrorCodes : code = "required_evidence_incomplete"
    BY DEF ErrorCodes
  <2> QED
    BY <1>1, <1>3, <2>1, Numbers, FailKeeps
<1> QED
  BY <1>2, <1>3 DEF validate_final_analysis

\* A turn is counted before the model is asked, and a run whose turns are used
\* up had asked for every tool it was offered.
LEMMA TurnStep ==
    ASSUME LoopInv, model_decide
    PROVE  LoopInv'
<1>1. state.node = "model_decide" /\ reads' = reads /\ crashes' = crashes
  BY DEF model_decide
<1>2. PICK count \in Nat : count = state.model_call_count + 1
  BY Numbers
<1>3. /\ Len(state.authorized) \in Nat /\ Len(state.authorized) <= Cardinality(Offered)
      /\ count <= Len(state.authorized) + 2
  <2>1. Len(state.authorized) \in Nat /\ Len(state.authorized) <= Cardinality(Offered)
    BY Counts
  <2>2. state.model_call_count <= Len(state.authorized) + 1
    BY <1>1, Counts DEF StateInv
  <2>3. state.model_call_count \in Nat
    BY Counts
  <2> QED
    BY <1>2, <2>1, <2>2, <2>3
<1>4. /\ spent <= MaxModelCalls * crashes + state.model_call_count
      /\ reads <= Cardinality(Offered) * crashes + Cardinality(DOMAIN state.observed)
  BY <1>1 DEF LoopInv, SpendInv, Spend, Abandoned
<1>5. CASE count > MaxModelCalls /\ fail("model_budget_exceeded") /\ spent' = spent
  <2>1. PICK code \in ErrorCodes : code = "model_budget_exceeded"
    BY DEF ErrorCodes
  <2>2. ~ (MaxModelCalls >= Cardinality(Offered) + 2)
    <3>1. MaxModelCalls \in Nat /\ Cardinality(Offered) \in Nat
      BY Numbers
    <3>2. \A m, c, l, n \in Nat : c > m /\ c <= l + 2 /\ l <= n => ~ (m >= n + 2)
      OBVIOUS
    <3> QED
      BY <1>3, <1>5, <3>1, <3>2
  <2> QED
    BY <1>1, <1>5, <2>1, <2>2, Numbers, FailKeeps
<1>6. ASSUME count <= MaxModelCalls, spent' = spent + 1
      PROVE  /\ spent' \in Nat /\ reads' \in Nat
             /\ spent' <= MaxModelCalls * crashes + count
             /\ spent' <= MaxModelCalls * (crashes + 1)
             /\ reads' <= Cardinality(Offered) * (crashes + 1)
  BY <1>1, <1>2, <1>4, <1>6, Numbers
<1>7. ASSUME count <= MaxModelCalls, spent' = spent + 1,
             NEW node \in {"validate_final_analysis", "authorize_tools"},
             NEW turn \in FinalAnalyses \cup ToolDecisions,
             node = "authorize_tools" => turn \in ToolDecisions,
             finish([state EXCEPT !.node = node, !.turn = turn, !.model_call_count = count])
      PROVE  LoopInv'
  <2>1. PICK nx : nx = [state EXCEPT !.node = node, !.turn = turn, !.model_call_count = count]
    OBVIOUS
  <2>2. nx \in States
    <3>1. count \in 0 .. MaxModelCalls
      BY <1>7, Numbers
    <3> QED
      BY <2>1, <3>1, Numbers DEF States, Nodes
  <2>3. /\ nx.node = node /\ nx.model_call_count = count /\ nx.turn = turn
        /\ nx.authorized = state.authorized /\ nx.observed = state.observed /\ nx.error = state.error
    BY <2>1, Numbers DEF States
  <2>4. IdsOf(nx) = IdsOf(state)
    BY <2>3 DEF IdsOf
  <2>5. StateInv(nx)
    BY <1>3, <1>7, <2>3, <2>4, Numbers DEF StateInv
  <2>6. Spend(nx, spent', reads', crashes)
    BY <1>1, <1>4, <1>6, <1>7, <2>3 DEF Spend
  <2> QED
    BY <1>1, <1>6, <1>7, <2>1, <2>2, <2>5, <2>6, FinishKeeps
<1>8. ASSUME count <= MaxModelCalls, spent' = spent + 1,
             NEW code \in {"tool_budget_exceeded", "model_output_invalid"}, fail(code)
      PROVE  LoopInv'
  <2>1. code \in ErrorCodes /\ code # "model_budget_exceeded"
    BY DEF ErrorCodes
  <2> QED
    BY <1>1, <1>6, <1>8, <2>1, FailKeeps
<1>9. ASSUME count <= MaxModelCalls, spent' = spent + 1, raised
      PROVE  LoopInv'
  BY <1>1, <1>6, <1>9, RaisedKeeps
<1>10. CASE count <= MaxModelCalls /\ spent' = spent + 1
  <2>1. \/ \E turn \in FinalAnalyses :
             finish([state EXCEPT !.node = "validate_final_analysis", !.turn = turn,
                                  !.model_call_count = count])
        \/ \E turn \in ToolDecisions :
             \/ finish([state EXCEPT !.node = "authorize_tools", !.turn = turn,
                                     !.model_call_count = count])
             \/ fail("tool_budget_exceeded")
        \/ fail("model_output_invalid")
        \/ raised
    <3>1. ~ (count > MaxModelCalls)
      BY <1>10, Counts
    <3> QED
      BY <1>2, <3>1 DEF model_decide
  <2>2. ASSUME NEW turn \in FinalAnalyses,
               finish([state EXCEPT !.node = "validate_final_analysis", !.turn = turn,
                                    !.model_call_count = count])
        PROVE  LoopInv'
    BY <1>7, <1>10, <2>2
  <2>3. ASSUME NEW turn \in ToolDecisions,
               finish([state EXCEPT !.node = "authorize_tools", !.turn = turn,
                                    !.model_call_count = count])
        PROVE  LoopInv'
    BY <1>7, <1>10, <2>3
  <2> QED
    BY <1>8, <1>9, <1>10, <2>1, <2>2, <2>3
<1> QED
  BY <1>2, <1>5, <1>10, Numbers DEF model_decide

\* The calls of an authorized turn join the history: each is one more tool that
\* cannot be asked for again.
LEMMA AuthorizeStep ==
    ASSUME LoopInv, authorize_tools
    PROVE  LoopInv'
<1>1. state.node = "authorize_tools" /\ spent' = spent /\ reads' = reads /\ crashes' = crashes
  BY DEF authorize_tools
<1>2. CASE /\ authorize_all(state.turn.calls, state.authorized)
           /\ finish([state EXCEPT !.node = "execute_read_tools",
                                   !.authorized = @ \o state.turn.calls])
  <2>1. PICK nx : nx = [state EXCEPT !.node = "execute_read_tools",
                                     !.authorized = @ \o state.turn.calls]
    OBVIOUS
  <2>2. PICK prior \in Seq(Calls) : prior = state.authorized
    BY Numbers DEF States
  <2>3. PICK calls : calls = state.turn.calls
    OBVIOUS
  <2>4. calls \in Seq(Calls) /\ Len(calls) >= 1
    <3>1. calls \in Turns
      BY <1>1, <2>3, Numbers DEF StateInv, ToolDecisions
    <3>2. PICK n \in 1 .. MaxCallsPerTurn : calls \in [1 .. n -> Calls]
      BY <3>1 DEF Turns
    <3>3. n \in Nat /\ n >= 1
      BY <3>2, ToolPolicyAssumption
    <3> QED
      BY <3>2, <3>3
  <2>5. PICK whole : whole = prior \o calls
    OBVIOUS
  <2>6. /\ whole \in Seq(Calls) /\ Len(whole) = Len(prior) + Len(calls)
        /\ DOMAIN prior \subseteq DOMAIN whole
        /\ \A n \in DOMAIN prior : whole[n] = prior[n]
    BY <2>4, <2>5
  <2>7. Sound(prior)
    BY <2>2, Numbers DEF StateInv
  <2>8. Sound(whole)
    <3>1. authorize_all(calls, prior)
      BY <1>2, <2>2, <2>3
    <3> QED
      BY <2>4, <2>5, <2>7, <3>1, AuthorizedIsSound
  <2>9. nx \in States
    BY <2>1, <2>2, <2>3, <2>5, <2>6, Numbers DEF States, Nodes
  <2>10. /\ nx.node = "execute_read_tools" /\ nx.model_call_count = state.model_call_count
         /\ nx.authorized = whole /\ nx.observed = state.observed /\ nx.error = state.error
    BY <2>1, <2>2, <2>3, <2>5, Numbers DEF States
  <2>11. IdsOf(state) \subseteq IdsOf(nx)
    BY <2>2, <2>6, <2>10 DEF IdsOf
  <2>12. nx.model_call_count <= Len(nx.authorized) + 1
    <3>1. state.model_call_count <= Len(prior) + 2
      BY <1>1, <2>2, Numbers DEF StateInv
    <3>2. Len(prior) \in Nat /\ Len(calls) \in Nat
      BY <2>4
    <3>3. state.model_call_count \in Nat
      BY Counts
    <3> QED
      BY <2>4, <2>6, <2>10, <3>1, <3>2, <3>3
  <2>13. StateInv(nx)
    BY <2>8, <2>10, <2>11, <2>12, Numbers DEF StateInv
  <2>14. Spend(nx, spent', reads', crashes)
    BY <1>1, <2>10 DEF Spend, Abandoned, LoopInv, SpendInv
  <2> QED
    BY <1>1, <1>2, <2>1, <2>9, <2>13, <2>14, Numbers, FinishKeeps
<1>3. CASE fail("tool_policy_violation")
  <2>1. PICK code \in ErrorCodes : code = "tool_policy_violation"
    BY DEF ErrorCodes
  <2> QED
    BY <1>1, <1>3, <2>1, Numbers, FailKeeps
<1> QED
  BY <1>2, <1>3 DEF authorize_tools

\* Only calls without an observation are made, and each leaves one.
LEMMA ReadStep ==
    ASSUME LoopInv, execute_read_tools
    PROVE  LoopInv'
<1> DEFINE ids == IdsOf(state)
           open == ids \ DOMAIN state.observed
<1>1. state.node = "execute_read_tools" /\ spent' = spent /\ crashes' = crashes
  BY DEF execute_read_tools
<1>2. /\ reads' = reads + Cardinality(open)
      /\ \/ \E answers \in [open -> {"ok", "error"}] :
              finish([state EXCEPT !.node = "model_decide", !.turn = NoTurn,
                                   !.observed = [id \in ids |-> IF id \in open THEN answers[id]
                                                                ELSE state.observed[id]]])
         \/ raised
  BY DEF execute_read_tools, IdsOf
<1>3. /\ Cardinality(ids) \in Nat /\ Cardinality(ids) <= Cardinality(Offered)
      /\ Cardinality(DOMAIN state.observed) \in Nat /\ Cardinality(open) \in Nat
      /\ Cardinality(DOMAIN state.observed) + Cardinality(open) = Cardinality(ids)
  <2>1. Cardinality(ids) <= Cardinality(Offered)
    BY Counts
  <2> QED
    BY <2>1, Counts
<1>4. reads <= Cardinality(Offered) * crashes + Cardinality(DOMAIN state.observed)
  BY <1>1 DEF LoopInv, SpendInv, Spend, Abandoned
<1> HIDE DEF ids, open
<1>5. /\ spent' \in Nat /\ reads' \in Nat
      /\ reads' <= Cardinality(Offered) * crashes + Cardinality(ids)
      /\ spent' <= MaxModelCalls * (crashes + 1)
      /\ reads' <= Cardinality(Offered) * (crashes + 1)
  <2>1. PICK bound \in Nat : bound = Cardinality(Offered) * crashes
    BY Numbers
  <2>2. /\ Cardinality(Offered) * (crashes + 1) = bound + Cardinality(Offered)
        /\ spent \in Nat /\ reads \in Nat /\ Cardinality(Offered) \in Nat
        /\ spent <= MaxModelCalls * (crashes + 1)
    BY <2>1, Numbers
  <2>3. reads' \in Nat /\ reads' <= bound + Cardinality(ids) /\ reads' <= bound + Cardinality(Offered)
    <3>1. reads' = reads + Cardinality(open)
      BY <1>2
    <3> QED
      BY <1>3, <1>4, <2>1, <2>2, <3>1
  <2> QED
    BY <1>1, <2>1, <2>2, <2>3
<1>6. ASSUME NEW answers \in [open -> {"ok", "error"}],
             finish([state EXCEPT !.node = "model_decide", !.turn = NoTurn,
                                  !.observed = [id \in ids |-> IF id \in open THEN answers[id]
                                                               ELSE state.observed[id]]])
      PROVE  LoopInv'
  <2>1. PICK seen : seen = [id \in ids |-> IF id \in open THEN answers[id] ELSE state.observed[id]]
    OBVIOUS
  <2>2. PICK nx : nx = [state EXCEPT !.node = "model_decide", !.turn = NoTurn, !.observed = seen]
    OBVIOUS
  <2>3. DOMAIN seen = ids /\ ids \subseteq CallIds
    <3>1. PICK calls \in Seq(Calls) : calls = state.authorized
      BY Counts DEF States
    <3>2. \A n \in DOMAIN state.authorized : state.authorized[n].id \in CallIds
      <4>1. \A n \in DOMAIN calls : calls[n] \in Calls
        OBVIOUS
      <4> QED
        BY <3>1, <4>1 DEF Calls
    <3> QED
      BY <2>1, <3>2 DEF ids, IdsOf
  <2>4. seen \in [ids -> {"ok", "error"}]
    <3>1. state.observed \in [DOMAIN state.observed -> {"ok", "error"}]
      BY Numbers DEF States, Observations
    <3> QED
      BY <2>1, <3>1 DEF open
  <2>5. seen \in Observations
    BY <2>3, <2>4 DEF Observations
  <2>6. nx \in States
    BY <2>2, <2>5, Numbers DEF States, Nodes
  <2>7. /\ nx.node = "model_decide" /\ nx.model_call_count = state.model_call_count
        /\ nx.authorized = state.authorized /\ nx.observed = seen /\ nx.error = state.error
    BY <2>2, Numbers DEF States
  <2>8. DOMAIN nx.observed = ids /\ IdsOf(nx) = ids
    BY <2>3, <2>7 DEF IdsOf, ids
  <2>9. StateInv(nx)
    BY <1>1, <2>7, <2>8, Numbers DEF StateInv
  <2>10. spent' <= MaxModelCalls * crashes + state.model_call_count
    BY <1>1 DEF LoopInv, SpendInv, Spend, Abandoned
  <2>11. Spend(nx, spent', reads', crashes)
    BY <1>5, <2>7, <2>8, <2>10 DEF Spend
  <2> QED
    BY <1>1, <1>5, <1>6, <2>1, <2>2, <2>6, <2>9, <2>11, FinishKeeps
<1>7. CASE raised
  BY <1>1, <1>5, <1>7, RaisedKeeps
<1> QED
  BY <1>2, <1>6, <1>7

\* A crash ends a run whose cost was within one run's bounds.
LEMMA CrashStep ==
    ASSUME LoopInv, crash
    PROVE  LoopInv'
<1>1. /\ state.node \in Nodes /\ crashes < MaxCrashes /\ crashes' = crashes + 1
      /\ state' = ckpt /\ ckpt' = ckpt
  BY DEF crash
<1>2. /\ spent <= MaxModelCalls * crashes + state.model_call_count
      /\ reads <= Cardinality(Offered) * crashes + Cardinality(DOMAIN state.observed)
  BY <1>1 DEF LoopInv, SpendInv, Spend, Abandoned, Nodes
<1>3. /\ Cardinality(DOMAIN state.observed) \in Nat
      /\ Len(state.authorized) \in Nat
      /\ Cardinality(DOMAIN state.observed) <= Len(state.authorized)
      /\ Len(state.authorized) <= Cardinality(Offered)
  <2>1. Cardinality(DOMAIN state.observed) <= Len(state.authorized)
    BY Counts
  <2> QED
    BY <2>1, Counts
<1>4. spent' \in Nat /\ spent' <= MaxModelCalls * (crashes + 1)
  <2>1. \/ spent' = spent
        \/ spent' = spent + 1 /\ state.model_call_count < MaxModelCalls
    BY DEF crash
  <2>2. PICK bound \in Nat : bound = MaxModelCalls * crashes
    BY Numbers
  <2>3. MaxModelCalls * (crashes + 1) = bound + MaxModelCalls /\ spent \in Nat
    BY <2>2, Numbers
  <2> QED
    BY <1>2, <2>1, <2>2, <2>3, Counts
<1>5. reads' \in Nat /\ reads' <= Cardinality(Offered) * (crashes + 1)
  <2>1. \/ reads' = reads
        \/ reads' \in reads .. reads + Len(state.authorized) - Cardinality(DOMAIN state.observed)
    BY DEF crash
  <2>2. PICK bound \in Nat : bound = Cardinality(Offered) * crashes
    BY Numbers
  <2>3. Cardinality(Offered) * (crashes + 1) = bound + Cardinality(Offered) /\ reads \in Nat
    BY <2>2, Numbers
  <2>4. Cardinality(Offered) \in Nat
    BY Counts
  <2> QED
    BY <1>2, <1>3, <2>1, <2>2, <2>3, <2>4
<1>6. ckpt \in States /\ StateInv(ckpt)
  BY DEF LoopInv, LoopTypeOK
<1>7. /\ Cardinality(DOMAIN ckpt.observed) \in Nat /\ ckpt.model_call_count \in Nat
  <2>1. ckpt.model_call_count \in 0 .. MaxModelCalls
    BY <1>6 DEF States
  <2>2. Cardinality(DOMAIN ckpt.observed) \in Nat
    BY <1>6, ObservationsAreBounded
  <2>3. MaxModelCalls \in Nat
    BY Numbers
  <2> QED
    BY <2>1, <2>2, <2>3
<1>8. PICK more \in Nat : more = crashes + 1
  BY Numbers
<1>9. /\ MaxModelCalls * more \in Nat /\ MaxModelCalls * (more + 1) = MaxModelCalls * more + MaxModelCalls
      /\ Cardinality(Offered) * more \in Nat
      /\ Cardinality(Offered) * (more + 1) = Cardinality(Offered) * more + Cardinality(Offered)
  BY Numbers, OneMoreRun
<1>10. spent' <= MaxModelCalls * more /\ reads' <= Cardinality(Offered) * more
  BY <1>4, <1>5, <1>8
<1>11. Spend(ckpt, spent', reads', more)
  BY <1>4, <1>5, <1>7, <1>9, <1>10, Numbers DEF Spend
<1>12. LoopTypeOK'
  BY <1>1, <1>4, <1>5, <1>6, Numbers, LoopAssumption DEF LoopTypeOK
<1> QED
  BY <1>1, <1>6, <1>8, <1>11, <1>12 DEF LoopInv, SpendInv

-----------------------------------------------------------------------------
(* The theorems *)

\* LoopInv holds of the initial state and is kept by every step.
LEMMA LoopInvariant == LoopSpec => []LoopInv
<1>1. ASSUME Init PROVE LoopInv
  <2>1. /\ state = initial_state /\ ckpt = initial_state
        /\ spent = 0 /\ reads = 0 /\ crashes = 0
    BY <1>1 DEF Init
  <2>2. initial_state \in States
    BY InitialIsState
  <2>3. StateInv(initial_state)
    <3>1. PICK st : st = initial_state
      OBVIOUS
    <3>2. /\ st.node = "encode_goal" /\ st.model_call_count = 0 /\ st.authorized = <<>>
          /\ st.observed = <<>> /\ st.error = "none"
      BY <3>1 DEF initial_state
    <3>3. StateInv(st)
      BY <3>2, BlankIsGood
    <3> QED
      BY <3>1, <3>3
  <2>4. /\ Cardinality(Offered) \in Nat /\ Cardinality(DOMAIN initial_state.observed) \in Nat
    BY <2>2, <2>3, ObservationsAreBounded
  <2>5. initial_state.model_call_count = 0 /\ MaxModelCalls \in Nat
    BY ToolPolicyAssumption DEF initial_state
  <2>6. Spend(initial_state, 0, 0, 0)
    <3>1. MaxModelCalls * 0 = 0 /\ Cardinality(Offered) * 0 = 0
      BY <2>4, <2>5
    <3>2. MaxModelCalls * (0 + 1) \in Nat /\ Cardinality(Offered) * (0 + 1) \in Nat
      BY <2>4, <2>5
    <3> QED
      BY <2>4, <2>5, <3>1, <3>2 DEF Spend
  <2>7. LoopTypeOK
    BY <2>1, <2>2, LoopAssumption DEF LoopTypeOK
  <2> QED
    BY <2>1, <2>3, <2>6, <2>7 DEF LoopInv, SpendInv
<1>2. LoopInv /\ [Next]_loopVars => LoopInv'
  <2>1. ASSUME LoopInv, UNCHANGED loopVars PROVE LoopInv'
    BY <2>1 DEF LoopInv, LoopTypeOK, SpendInv, loopVars
  <2> QED
    BY <2>1, GoalStep, BeginStep, TurnStep, AuthorizeStep, ReadStep, FinalStep, PolicyStep, CrashStep
       DEF Next, step
<1> QED
  BY <1>1, <1>2, PTL DEF LoopSpec

\* The running state and the saved one are states of the graph, for every
\* model, every budget and any number of crashes.
THEOREM LoopTypes == LoopSpec => []LoopTypeOK
<1>1. LoopInv => LoopTypeOK
  BY DEF LoopInv
<1> QED
  BY <1>1, LoopInvariant, PTL

\* The policy is only applied to the answers of every required tool, each to an
\* expected call (validate_final_analysis, calculate_policy): the model's word
\* that nothing is missing is never enough, nor is a state resumed after a crash.
THEOREM LoopEvidenceIsComplete == LoopSpec => []EvidenceIsComplete
<1>1. ASSUME LoopInv PROVE EvidenceIsComplete
  <2>1. SuccessfulIn(state) = successful
    BY DEF SuccessfulIn, successful
  <2> QED
    BY <1>1, <2>1 DEF LoopInv, StateInv, Sound, EvidenceIsComplete
<1> QED
  BY <1>1, LoopInvariant, PTL

\* A crash repeats at most one run's worth of model calls and of reads
\* (model_decide, execute_read_tools): no run reads a tool twice.
THEOREM LoopSpendIsBounded == LoopSpec => []SpendIsBounded
<1>1. LoopInv => SpendIsBounded
  BY DEF LoopInv, SpendInv, Spend, SpendIsBounded
<1> QED
  BY <1>1, LoopInvariant, PTL

\* A budget of one model call per offered tool and two more never runs out
\* (model_decide): every turn that is not the goal or the final analysis uses up
\* a tool.
THEOREM LoopBudgetNeverStarves == LoopSpec => []BudgetNeverStarves
<1>1. LoopInv => BudgetNeverStarves
  BY DEF LoopInv, StateInv, BudgetNeverStarves
<1> QED
  BY <1>1, LoopInvariant, PTL

=============================================================================
