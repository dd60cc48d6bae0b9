--------------------------- MODULE AgentTraceProofs ---------------------------
(***************************************************************************)
(* Theorems about AgentTrace, for any number of approval cycles, crashes   *)
(* and failing calls.                                                      *)
(***************************************************************************)
EXTENDS AgentTrace, SequenceTheorems, TLAPS

-----------------------------------------------------------------------------
(* The inductive invariant *)

KeyIn(q, key) == \E i \in DOMAIN q : q[i].key = key

IsExecution(e) == e.key[1] = "execution:operation_terminal"
IsVerification(e) == e.key[1] \in {"model:verification", "guardrail:binding_verification"}

\* The rows of an investigation say nothing about the outcome.
QuietRows ==
    {e \in Rows : e.key[1] \notin {"feedback:operation_terminal", "execution:operation_terminal",
                                   "human:approval", "model:verification",
                                   "guardrail:binding_verification"}}

\* The rows that agree with operation o: what they say can never change in it.
TrueRows(o) ==
    {e \in Rows :
        /\ e.key[1] = "feedback:operation_terminal" => o.status \in Ended /\ e.said = o.status
        /\ e.key[1] = "execution:operation_terminal" => o.status = "completed"
        /\ e.key[1] = "human:approval" =>
              /\ e.key[2] \in Cycles
              /\ o.approvals[e.key[2]] # none /\ e.said = o.approvals[e.key[2]]}

\* A cycle is decided once: it has no decision before it is reached, nor while
\* it waits for one.
OpInv ==
    /\ op.status \in {"absent", "received"} => op.cycle = 0
    /\ op.status \in Waiting => op.cycle \in Cycles /\ op.approvals[op.cycle] = none
    /\ \A c \in Cycles : c > op.cycle => op.approvals[c] = none

TellInv ==
    /\ events \in Seq(TrueRows(op))
    /\ \A c \in captures :
        /\ c.todo \in Seq(TrueRows(op))
        /\ c.phase \in {"start_run", "load_detail", "claim_owner"} => c.todo = <<>>
        /\ c.phase = "investigation" => c.todo \in Seq(QuietRows)
    /\ EventsAreRecordedOnce

\* Every verification of q comes before every execution of q.
Ordered(q) == \A i, j \in DOMAIN q : IsExecution(q[i]) /\ IsVerification(q[j]) => j < i

\* As long as nobody decides during a recording, there is one recording at a
\* time; the one that writes the execution has no verification left to write.
OrderInv ==
    /\ op.status = "completed" => invoking = none
    /\ op.status = "absent" => captures = {} /\ invoking = none
    /\ boot # "serving" => captures = {} /\ invoking = none /\ crashes > 0
    /\ ~ overlapped =>
        /\ \A c, d \in captures : c = d
        /\ invoking # none => captures = {}
        /\ Ordered(events)
        /\ \A c \in captures :
            /\ Ordered(c.todo)
            /\ (\E i \in DOMAIN events : IsExecution(events[i])) =>
                  /\ c.phase \in {"outcome", "claim_owner"}
                  /\ \A i \in DOMAIN c.todo : ~ IsVerification(c.todo[i])

\* The trace shows operation o: its run r has the status that o gives it, and
\* the events q, or those still to be written, hold the row of its outcome.
Shows(o, r, q, todo) ==
    /\ r = capture_outcome_status(o.status)
    /\ o.status \in Waiting =>
          LET key == <<"human:approval_requested", o.cycle>> IN KeyIn(q, key) \/ KeyIn(todo, key)
    /\ o.status \in Ended =>
          LET key == <<"feedback:operation_terminal", 0>> IN KeyIn(q, key) \/ KeyIn(todo, key)

WillShow(c, o, r, q) ==
    \/ c.phase \in {"start_run", "investigation", "load_detail"}
    \/ c.phase = "outcome" /\ Shows(o, c.close, q, c.todo)
    \/ c.phase = "claim_owner" /\ Shows(o, r, q, <<>>)

ReflectInv ==
    faults = 0 /\ ~ overlapped =>
        /\ (/\ boot = "serving" /\ invoking = none
            /\ op.status \in Waiting \/ (op.status \in Ended \ {"expired"} /\ crashes = 0)) =>
              /\ captures = {} => Shows(op, run.status, events, <<>>)
              /\ \A c \in captures : WillShow(c, op, run.status, events)
        /\ crashes = 0 /\ op.status \notin {"absent", "received"} =>
              run.owner = "operator" \/ \E c \in captures : c.by = "start"
        /\ crashes = 0 /\ op.status = "received" /\ invoking # none => invoking = "start"

TraceInv == TraceTypeOK /\ OpInv /\ TellInv /\ OrderInv /\ ReflectInv

-----------------------------------------------------------------------------
(* Sequences of rows *)

\* A sequence over a set is one over every larger set.
LEMMA SeqGrows ==
    ASSUME NEW S, NEW T, S \subseteq T, NEW q \in Seq(S)
    PROVE  q \in Seq(T)
OBVIOUS

\* What is in a concatenation is in one of its parts.
LEMMA ConcatHolds ==
    ASSUME NEW S, NEW p \in Seq(S), NEW q \in Seq(S), NEW key
    PROVE  /\ p \o q \in Seq(S)
           /\ KeyIn(p \o q, key) <=> KeyIn(p, key) \/ KeyIn(q, key)
<1>1. /\ p \o q \in Seq(S) /\ Len(p \o q) = Len(p) + Len(q)
      /\ \A i \in 1 .. Len(p) : (p \o q)[i] = p[i]
      /\ \A i \in 1 .. Len(q) : (p \o q)[Len(p) + i] = q[i]
      /\ Len(p) \in Nat /\ Len(q) \in Nat
      /\ DOMAIN p = 1 .. Len(p) /\ DOMAIN q = 1 .. Len(q)
      /\ DOMAIN (p \o q) = 1 .. Len(p) + Len(q)
  BY ConcatProperties
<1>2. ASSUME KeyIn(p, key) PROVE KeyIn(p \o q, key)
  <2>1. PICK i \in 1 .. Len(p) : p[i].key = key
    BY <1>1, <1>2 DEF KeyIn
  <2>2. i \in DOMAIN (p \o q) /\ (p \o q)[i] = p[i]
    BY <1>1
  <2> QED
    BY <2>1, <2>2 DEF KeyIn
<1>3. ASSUME KeyIn(q, key) PROVE KeyIn(p \o q, key)
  <2>1. PICK i \in 1 .. Len(q) : q[i].key = key
    BY <1>1, <1>3 DEF KeyIn
  <2>2. Len(p) + i \in DOMAIN (p \o q) /\ (p \o q)[Len(p) + i] = q[i]
    BY <1>1
  <2> QED
    BY <2>1, <2>2 DEF KeyIn
<1>4. ASSUME KeyIn(p \o q, key) PROVE KeyIn(p, key) \/ KeyIn(q, key)
  <2>1. PICK i \in 1 .. Len(p) + Len(q) : (p \o q)[i].key = key
    BY <1>1, <1>4 DEF KeyIn
  <2>2. CASE i <= Len(p)
    <3>1. i \in DOMAIN p /\ (p \o q)[i] = p[i]
      BY <1>1, <2>2
    <3> QED
      BY <2>1, <3>1 DEF KeyIn
  <2>3. CASE i > Len(p)
    <3>1. PICK m : m = i - Len(p)
      OBVIOUS
    <3>2. m \in 1 .. Len(q) /\ Len(p) + m = i
      BY <1>1, <2>3, <3>1
    <3>3. q[m] = (p \o q)[i]
      BY <1>1, <3>2
    <3> QED
      BY <1>1, <2>1, <3>2, <3>3 DEF KeyIn
  <2> QED
    BY <1>1, <2>2, <2>3
<1> QED
  BY <1>1, <1>2, <1>3, <1>4

\* Nothing is out of order where there is no execution, or no verification; and
\* rows without a verification may follow any ordered rows.
LEMMA OrderedByParts ==
    ASSUME NEW S, NEW p \in Seq(S), NEW q \in Seq(S), Ordered(p),
           \A i \in DOMAIN q : ~ IsVerification(q[i])
    PROVE  Ordered(p \o q)
<1>1. /\ Len(p) \in Nat /\ Len(q) \in Nat
      /\ DOMAIN p = 1 .. Len(p) /\ DOMAIN q = 1 .. Len(q)
      /\ DOMAIN (p \o q) = 1 .. Len(p) + Len(q)
      /\ \A i \in 1 .. Len(p) : (p \o q)[i] = p[i]
      /\ \A i \in Len(p) + 1 .. Len(p) + Len(q) : (p \o q)[i] = q[i - Len(p)]
  BY ConcatProperties
<1> SUFFICES ASSUME NEW i \in DOMAIN (p \o q), NEW j \in DOMAIN (p \o q),
                    IsExecution((p \o q)[i]), IsVerification((p \o q)[j])
             PROVE  j < i
  BY DEF Ordered
<1>2. j \in 1 .. Len(p)
  <2>1. ASSUME j \in Len(p) + 1 .. Len(p) + Len(q) PROVE FALSE
    <3>1. j - Len(p) \in DOMAIN q /\ (p \o q)[j] = q[j - Len(p)]
      BY <1>1, <2>1
    <3> QED
      BY <3>1
  <2> QED
    BY <1>1, <2>1
<1>3. CASE i \in 1 .. Len(p)
  BY <1>1, <1>2, <1>3 DEF Ordered
<1>4. CASE i \notin 1 .. Len(p)
  BY <1>1, <1>2, <1>4
<1> QED
  BY <1>3, <1>4

\* Taking the first row off.
LEMMA RestOfRows ==
    ASSUME NEW S, NEW q \in Seq(S), q # <<>>
    PROVE  /\ Head(q) \in S /\ Tail(q) \in Seq(S)
           /\ Ordered(q) => Ordered(Tail(q))
           /\ Ordered(q) /\ IsExecution(Head(q)) =>
                 \A i \in DOMAIN Tail(q) : ~ IsVerification(Tail(q)[i])
           /\ (\A i \in DOMAIN q : ~ IsVerification(q[i])) =>
                 /\ ~ IsVerification(Head(q))
                 /\ \A i \in DOMAIN Tail(q) : ~ IsVerification(Tail(q)[i])
           /\ \A key : KeyIn(q, key) => Head(q).key = key \/ KeyIn(Tail(q), key)
<1>1. /\ Head(q) \in S /\ Tail(q) \in Seq(S) /\ Len(Tail(q)) = Len(q) - 1
      /\ \A i \in 1 .. Len(Tail(q)) : Tail(q)[i] = q[i + 1]
      /\ Len(q) \in Nat \ {0} /\ DOMAIN q = 1 .. Len(q) /\ Head(q) = q[1]
  BY HeadTailProperties, EmptySeq
<1>2. DOMAIN Tail(q) = 1 .. Len(q) - 1
  BY <1>1
<1>3. \A i \in DOMAIN Tail(q) : i + 1 \in DOMAIN q /\ Tail(q)[i] = q[i + 1] /\ i \in Nat /\ i >= 1
  BY <1>1, <1>2
<1>4. 1 \in DOMAIN q
  BY <1>1
<1>5. ASSUME Ordered(q) PROVE Ordered(Tail(q))
  BY <1>3, <1>5 DEF Ordered
<1>6. ASSUME Ordered(q), IsExecution(Head(q)), NEW i \in DOMAIN Tail(q), IsVerification(Tail(q)[i])
      PROVE  FALSE
  <2>1. i + 1 < 1
    BY <1>1, <1>3, <1>4, <1>6 DEF Ordered
  <2> QED
    BY <1>3, <2>1
<1>7. ASSUME NEW key, KeyIn(q, key) PROVE Head(q).key = key \/ KeyIn(Tail(q), key)
  <2>1. PICK n \in DOMAIN q : q[n].key = key
    BY <1>7 DEF KeyIn
  <2>2. CASE n = 1
    BY <1>1, <2>1, <2>2
  <2>3. CASE n # 1
    <3>1. PICK m : m = n - 1
      OBVIOUS
    <3>2. m \in 1 .. Len(Tail(q)) /\ m \in DOMAIN Tail(q) /\ m + 1 = n
      BY <1>1, <1>2, <2>3, <3>1
    <3>3. Tail(q)[m] = q[n]
      BY <1>1, <3>2
    <3> QED
      BY <2>1, <3>2, <3>3 DEF KeyIn
  <2> QED
    BY <2>2, <2>3
<1> QED
  BY <1>1, <1>3, <1>4, <1>5, <1>6, <1>7

\* Adding a row at the end.
LEMMA OneMoreRow ==
    ASSUME NEW S, NEW q \in Seq(S), NEW e \in S
    PROVE  /\ Append(q, e) \in Seq(S)
           /\ \A key : KeyIn(Append(q, e), key) <=> KeyIn(q, key) \/ e.key = key
           /\ Len(q) \in Nat /\ DOMAIN q = 1 .. Len(q) /\ DOMAIN Append(q, e) = 1 .. Len(q) + 1
           /\ \A i \in 1 .. Len(q) : Append(q, e)[i] = q[i]
           /\ Append(q, e)[Len(q) + 1] = e
<1>1. /\ Append(q, e) \in Seq(S)
      /\ Len(q) \in Nat /\ DOMAIN q = 1 .. Len(q) /\ DOMAIN Append(q, e) = 1 .. Len(q) + 1
      /\ \A i \in 1 .. Len(q) : Append(q, e)[i] = q[i]
      /\ Append(q, e)[Len(q) + 1] = e
  BY AppendProperties
<1>2. 1 .. Len(q) + 1 = 1 .. Len(q) \cup {Len(q) + 1}
  BY <1>1
<1>3. \A key : KeyIn(Append(q, e), key) <=> KeyIn(q, key) \/ e.key = key
  BY <1>1, <1>2 DEF KeyIn
<1> QED
  BY <1>1, <1>3

-----------------------------------------------------------------------------
(* What is recorded *)

\* Rows of an investigation agree with every operation.
LEMMA QuietIsTrue == \A o : QuietRows \subseteq TrueRows(o)
BY DEF QuietRows, TrueRows

\* An event is a row with its key.
LEMMA EventIsRow ==
    ASSUME NEW name, NEW cycle, NEW said \in Sayings, <<name, cycle>> \in Keys
    PROVE  /\ event(name, cycle, said) \in Rows
           /\ event(name, cycle, said).key = <<name, cycle>>
           /\ event(name, cycle, said).key[1] = name /\ event(name, cycle, said).key[2] = cycle
           /\ event(name, cycle, said).said = said
BY DEF event, Rows

\* The investigation is recorded with rows of its own.
LEMMA InvestigationIsQuiet ==
    ASSUME NEW s \in GraphStates
    PROVE  capture_investigation_events(s) \in Seq(QuietRows)
<1>1. s.progress \in 0 .. 4
  BY DEF GraphStates
<1>2. none \in Sayings
  BY DEF Sayings
<1>3. ASSUME NEW i \in 1 .. s.progress + 1
      PROVE  event(Investigation[i], 0, none) \in QuietRows
  <2>1. i \in {1, 2, 3, 4, 5}
    BY <1>1
  <2>2. /\ DOMAIN Investigation = 1 .. 5
        /\ Investigation[i] \in {"perception:intent", "model:goal", "observation", "model:analysis",
                                 "rule:policy_guard"}
    BY <2>1 DEF Investigation
  <2>3. i \in DOMAIN Investigation
    BY <2>1, <2>2
  <2>4. <<Investigation[i], 0>> \in Keys
    BY <2>3 DEF Keys
  <2> QED
    BY <1>2, <2>2, <2>4, EventIsRow DEF QuietRows
<1>4. /\ event("guardrail:terminal", 0, none) \in QuietRows
      /\ event("feedback:investigation_terminal", 0, none) \in QuietRows
  <2>1. <<"guardrail:terminal", 0>> \in Keys /\ <<"feedback:investigation_terminal", 0>> \in Keys
    BY DEF Keys
  <2> QED
    BY <1>2, <2>1, EventIsRow DEF QuietRows
<1>5. PICK a : a = [i \in 1 .. s.progress + 1 |-> event(Investigation[i], 0, none)]
  OBVIOUS
<1>6. a \in Seq(QuietRows)
  <2>1. s.progress + 1 \in Nat
    BY <1>1
  <2> QED
    BY <1>3, <1>5, <2>1
<1>7. PICK b : b = IF s.status = "failed" THEN <<event("guardrail:terminal", 0, none)>> ELSE <<>>
  OBVIOUS
<1>8. b \in Seq(QuietRows)
  BY <1>4, <1>7
<1>9. PICK c : c = <<event("feedback:investigation_terminal", 0, none)>>
  OBVIOUS
<1>10. c \in Seq(QuietRows)
  BY <1>4, <1>9
<1>11. a \o b \in Seq(QuietRows)
  BY <1>6, <1>8, ConcatHolds
<1>12. (a \o b) \o c \in Seq(QuietRows)
  BY <1>10, <1>11, ConcatHolds
<1> QED
  BY <1>5, <1>7, <1>9, <1>12 DEF capture_investigation_events

\* The outcome is recorded with rows that agree with the operation they were
\* read from, the verification before the execution, and they show it.
LEMMA OutcomeIsTrue ==
    ASSUME NEW o \in Operations, NEW s \in GraphStates
    PROVE  LET q == capture_outcome_events(o, s) IN
           /\ q \in Seq(TrueRows(o)) /\ Ordered(q)
           /\ \A p : Shows(o, capture_outcome_status(o.status), p, q)
<1>1. /\ o.cycle \in 0 .. MaxCycles /\ o.status \in OpStatuses
      /\ \A c \in Cycles : o.approvals[c] \in {none, "approved", "rejected"}
      /\ s.verification \in Routes \cup {none}
  BY DEF Operations, GraphStates
<1>2. {none, "approved", "rejected"} \cup Routes \cup Ended \subseteq Sayings
  BY DEF Sayings
<1>3. PICK A : A = approval_event(o)
  OBVIOUS
<1>4. A \in Seq(TrueRows(o)) /\ \A i \in DOMAIN A : ~ IsExecution(A[i])
  <2>1. CASE o.cycle > 0 /\ o.approvals[o.cycle] # none
    <3>1. o.cycle \in Cycles
      BY <1>1, <2>1, TraceAssumption DEF Cycles
    <3>2. PICK e : e = event("human:approval", o.cycle, o.approvals[o.cycle])
      OBVIOUS
    <3>3. <<"human:approval", o.cycle>> \in Keys /\ o.approvals[o.cycle] \in Sayings
      BY <1>1, <1>2, <3>1 DEF Keys
    <3>4. /\ e \in Rows /\ e.key[1] = "human:approval" /\ e.key[2] = o.cycle
          /\ e.said = o.approvals[o.cycle]
      BY <3>2, <3>3, EventIsRow
    <3>5. e \in TrueRows(o) /\ ~ IsExecution(e)
      BY <2>1, <3>1, <3>4 DEF TrueRows, IsExecution
    <3>6. A = <<e>>
      BY <1>3, <2>1, <3>2 DEF approval_event
    <3> QED
      BY <3>5, <3>6
  <2>2. CASE ~ (o.cycle > 0 /\ o.approvals[o.cycle] # none)
    <3>1. A = <<>>
      BY <1>3, <2>2 DEF approval_event
    <3> QED
      BY <3>1
  <2> QED
    BY <2>1, <2>2
<1>5. PICK V : V = verification_events(o, s)
  OBVIOUS
<1>6. V \in Seq(TrueRows(o)) /\ \A i \in DOMAIN V : ~ IsExecution(V[i])
  <2>1. CASE s.verification = none
    <3>1. V = <<>>
      BY <1>5, <2>1 DEF verification_events
    <3> QED
      BY <3>1
  <2>2. CASE s.verification # none
    <3>1. PICK cycle : cycle = IF o.status = "needs_reapproval" /\ o.cycle > 1
                               THEN o.cycle - 1 ELSE o.cycle
      OBVIOUS
    <3>2. cycle \in 0 .. MaxCycles
      BY <1>1, <3>1, TraceAssumption
    <3>3. /\ <<"model:verification", cycle>> \in Keys
          /\ <<"guardrail:binding_verification", cycle>> \in Keys
          /\ s.verification \in Sayings
      BY <1>1, <1>2, <3>2 DEF Keys
    <3>4. PICK e : e = event("model:verification", cycle, s.verification)
      OBVIOUS
    <3>5. PICK f : f = event("guardrail:binding_verification", cycle, s.verification)
      OBVIOUS
    <3>6. e \in Rows /\ e.key[1] = "model:verification"
      BY <3>3, <3>4, EventIsRow
    <3>7. f \in Rows /\ f.key[1] = "guardrail:binding_verification"
      BY <3>3, <3>5, EventIsRow
    <3>8. {e, f} \subseteq TrueRows(o) /\ ~ IsExecution(e) /\ ~ IsExecution(f)
      BY <3>6, <3>7 DEF TrueRows, IsExecution
    <3>9. V = <<e, f>>
      BY <1>5, <2>2, <3>1, <3>4, <3>5 DEF verification_events
    <3> QED
      BY <3>8, <3>9
  <2> QED
    BY <2>1, <2>2
<1>7. PICK W : W = IF o.status \in Waiting
                   THEN <<event("human:approval_requested", o.cycle, none)>> ELSE <<>>
  OBVIOUS
<1>8. /\ W \in Seq(TrueRows(o)) /\ \A i \in DOMAIN W : ~ IsVerification(W[i])
      /\ o.status \in Waiting => KeyIn(W, <<"human:approval_requested", o.cycle>>)
  <2>1. PICK e : e = event("human:approval_requested", o.cycle, none)
    OBVIOUS
  <2>2. <<"human:approval_requested", o.cycle>> \in Keys /\ none \in Sayings
    BY <1>1, <1>2 DEF Keys
  <2>3. /\ e \in Rows /\ e.key[1] = "human:approval_requested"
        /\ e.key = <<"human:approval_requested", o.cycle>>
    BY <2>1, <2>2, EventIsRow
  <2>4. e \in TrueRows(o) /\ ~ IsVerification(e)
    BY <2>3 DEF TrueRows, IsVerification
  <2>5. W = IF o.status \in Waiting THEN <<e>> ELSE <<>>
    BY <1>7, <2>1
  <2> QED
    BY <2>3, <2>4, <2>5 DEF KeyIn
<1>9. PICK X : X = IF o.status = "completed"
                   THEN <<event("execution:operation_terminal", 0, none)>> ELSE <<>>
  OBVIOUS
<1>10. X \in Seq(TrueRows(o)) /\ \A i \in DOMAIN X : ~ IsVerification(X[i])
  <2>1. PICK e : e = event("execution:operation_terminal", 0, none)
    OBVIOUS
  <2>2. <<"execution:operation_terminal", 0>> \in Keys /\ none \in Sayings
    BY <1>2 DEF Keys
  <2>3. e \in Rows /\ e.key[1] = "execution:operation_terminal"
    BY <2>1, <2>2, EventIsRow
  <2>4. (o.status = "completed" => e \in TrueRows(o)) /\ ~ IsVerification(e)
    BY <2>3 DEF TrueRows, IsVerification
  <2>5. X = IF o.status = "completed" THEN <<e>> ELSE <<>>
    BY <1>9, <2>1
  <2> QED
    BY <2>4, <2>5
<1>11. PICK F : F = IF o.status \in Ended
                    THEN <<event("feedback:operation_terminal", 0, o.status)>> ELSE <<>>
  OBVIOUS
<1>12. /\ F \in Seq(TrueRows(o)) /\ \A i \in DOMAIN F : ~ IsVerification(F[i])
       /\ o.status \in Ended => KeyIn(F, <<"feedback:operation_terminal", 0>>)
  <2>1. CASE o.status \in Ended
    <3>1. PICK e : e = event("feedback:operation_terminal", 0, o.status)
      OBVIOUS
    <3>2. <<"feedback:operation_terminal", 0>> \in Keys /\ o.status \in Sayings
      BY <1>2, <2>1 DEF Keys
    <3>3. /\ e \in Rows /\ e.key[1] = "feedback:operation_terminal" /\ e.said = o.status
          /\ e.key = <<"feedback:operation_terminal", 0>>
      BY <3>1, <3>2, EventIsRow
    <3>4. e \in TrueRows(o) /\ ~ IsVerification(e)
      BY <2>1, <3>3 DEF TrueRows, IsVerification
    <3>5. F = <<e>>
      BY <1>11, <2>1, <3>1
    <3> QED
      BY <3>3, <3>4, <3>5 DEF KeyIn
  <2>2. CASE o.status \notin Ended
    BY <1>11, <2>2
  <2> QED
    BY <2>1, <2>2
<1>13. A \o V \in Seq(TrueRows(o)) /\ Ordered(A \o V)
  <2>1. /\ A \o V \in Seq(TrueRows(o)) /\ Len(A) \in Nat /\ Len(V) \in Nat
        /\ DOMAIN A = 1 .. Len(A) /\ DOMAIN V = 1 .. Len(V)
        /\ DOMAIN (A \o V) = 1 .. Len(A) + Len(V)
        /\ \A i \in 1 .. Len(A) : (A \o V)[i] = A[i]
        /\ \A i \in Len(A) + 1 .. Len(A) + Len(V) : (A \o V)[i] = V[i - Len(A)]
    BY <1>4, <1>6, ConcatProperties
  <2>2. ASSUME NEW i \in 1 .. Len(A) + Len(V) PROVE ~ IsExecution((A \o V)[i])
    <3>1. CASE i \in 1 .. Len(A)
      BY <1>4, <2>1, <3>1
    <3>2. CASE i \in Len(A) + 1 .. Len(A) + Len(V)
      <4>1. i - Len(A) \in DOMAIN V
        BY <2>1, <3>2
      <4> QED
        BY <1>6, <2>1, <3>2, <4>1
    <3> QED
      BY <2>1, <3>1, <3>2
  <2> QED
    BY <2>1, <2>2 DEF Ordered
<1>14. (A \o V) \o W \in Seq(TrueRows(o)) /\ Ordered((A \o V) \o W)
  BY <1>8, <1>13, ConcatHolds, OrderedByParts
<1>15. ((A \o V) \o W) \o X \in Seq(TrueRows(o)) /\ Ordered(((A \o V) \o W) \o X)
  BY <1>10, <1>14, ConcatHolds, OrderedByParts
<1>16. PICK q : q = (((A \o V) \o W) \o X) \o F
  OBVIOUS
<1>17. q \in Seq(TrueRows(o)) /\ Ordered(q)
  BY <1>12, <1>15, <1>16, ConcatHolds, OrderedByParts
<1>18. q = capture_outcome_events(o, s)
  BY <1>3, <1>5, <1>7, <1>9, <1>11, <1>16 DEF capture_outcome_events
<1>19. o.status \in Waiting => KeyIn(q, <<"human:approval_requested", o.cycle>>)
  <2>1. PICK key : key = <<"human:approval_requested", o.cycle>>
    OBVIOUS
  <2>2. KeyIn(W, key) => KeyIn((A \o V) \o W, key)
    BY <1>8, <1>13, ConcatHolds
  <2>3. KeyIn((A \o V) \o W, key) => KeyIn(((A \o V) \o W) \o X, key)
    BY <1>10, <1>14, ConcatHolds
  <2>4. KeyIn(((A \o V) \o W) \o X, key) => KeyIn(q, key)
    BY <1>12, <1>15, <1>16, ConcatHolds
  <2> QED
    BY <1>8, <2>1, <2>2, <2>3, <2>4
<1>20. o.status \in Ended => KeyIn(q, <<"feedback:operation_terminal", 0>>)
  BY <1>12, <1>15, <1>16, ConcatHolds
<1>21. \A p : Shows(o, capture_outcome_status(o.status), p, q)
  BY <1>19, <1>20 DEF Shows
<1> QED
  BY <1>17, <1>18, <1>21

-----------------------------------------------------------------------------
(* Steps of the operation *)

\* The operation moves on without unsaying anything: an outcome is final, and a
\* decision stays.
Follows(o, p) ==
    /\ o.status \in Ended => p.status = o.status
    /\ \A c \in Cycles : o.approvals[c] # none => p.approvals[c] = o.approvals[c]

\* What agreed with the operation still does.
LEMMA TruthStays ==
    ASSUME NEW o, NEW p, Follows(o, p)
    PROVE  TrueRows(o) \subseteq TrueRows(p)
<1>1. "completed" \in Ended
  BY DEF Ended
<1> QED
  BY <1>1 DEF Follows, TrueRows

\* A step that records nothing keeps TellInv.
LEMMA TellKeeps ==
    ASSUME TraceInv, Follows(op, op'), events' = events,
           \A c \in captures' : c \in captures \/ (c.phase = "start_run" /\ c.todo = <<>>)
    PROVE  TellInv'
<1>1. PICK after : after = op'
  OBVIOUS
<1>2. TrueRows(op) \subseteq TrueRows(after)
  BY <1>1, TruthStays
<1>3. events' \in Seq(TrueRows(after))
  <2>1. events \in Seq(TrueRows(op))
    BY DEF TraceInv, TellInv
  <2> QED
    BY <1>2, <2>1, SeqGrows
<1>4. ASSUME NEW c \in captures'
      PROVE  /\ c.todo \in Seq(TrueRows(after))
             /\ c.phase \in {"start_run", "load_detail", "claim_owner"} => c.todo = <<>>
             /\ c.phase = "investigation" => c.todo \in Seq(QuietRows)
  <2>1. CASE c \in captures
    <3>1. /\ c.todo \in Seq(TrueRows(op))
          /\ c.phase \in {"start_run", "load_detail", "claim_owner"} => c.todo = <<>>
          /\ c.phase = "investigation" => c.todo \in Seq(QuietRows)
      BY <2>1 DEF TraceInv, TellInv
    <3> QED
      BY <1>2, <3>1, SeqGrows
  <2>2. CASE c.phase = "start_run" /\ c.todo = <<>>
    BY <2>2
  <2> QED
    BY <1>4, <2>1, <2>2
<1>5. EventsAreRecordedOnce'
  BY DEF TraceInv, TellInv, EventsAreRecordedOnce
<1> QED
  BY <1>1, <1>3, <1>4, <1>5 DEF TellInv

\* An execution is recorded only for a completed operation.
LEMMA ExecutedIsCompleted ==
    ASSUME TraceInv, op.status # "completed", NEW i \in DOMAIN events, IsExecution(events[i])
    PROVE  FALSE
<1>1. events[i] \in TrueRows(op)
  BY DEF TraceInv, TellInv
<1> QED
  BY <1>1 DEF TrueRows, IsExecution

\* The recording that a caller begins.
LEMMA CaptureBegins ==
    ASSUME NEW by \in Callers, NEW cycle \in 0 .. MaxCycles, NEW s \in GraphStates
    PROVE  /\ capture(by, cycle, s) \in Captures
           /\ capture(by, cycle, s).phase = "start_run" /\ capture(by, cycle, s).todo = <<>>
           /\ capture(by, cycle, s).by = by
<1>1. <<>> \in Seq(Rows) /\ "running" \in RunStatuses
  BY DEF RunStatuses
<1> QED
  BY <1>1 DEF capture, Captures

\* The request that starts an operation.
LEMMA StartStep ==
    ASSUME TraceInv, NEW action \in {"query", "create_work_order"}, start(action)
    PROVE  TraceInv'
<1>1. /\ op.status = "absent" /\ boot = "serving" /\ invoking' = "start"
      /\ op' = [op EXCEPT !.action = action, !.status = "received"]
      /\ UNCHANGED <<graph, verdict, run, events, captures, boot, faults, crashes, overlapped>>
  BY DEF start
<1>2. /\ op \in Operations /\ op.cycle = 0 /\ captures = {} /\ run \in [status : RunStatuses \cup {none}, owner : {none, "operator"}]
  BY <1>1 DEF TraceInv, TraceTypeOK, OpInv, OrderInv
<1>3. /\ op' \in Operations /\ op'.status = "received" /\ op'.cycle = op.cycle
      /\ op'.approvals = op.approvals
  BY <1>1, <1>2 DEF Operations, OpStatuses
<1>4. TraceTypeOK'
  BY <1>1, <1>3 DEF TraceInv, TraceTypeOK, Callers
<1>5. OpInv'
  BY <1>2, <1>3 DEF TraceInv, OpInv, Waiting
<1>6. Follows(op, op')
  BY <1>1, <1>3 DEF Follows, Ended
<1>7. TellInv'
  BY <1>1, <1>6, TellKeeps
<1>8. OrderInv'
  BY <1>1, <1>2, <1>3 DEF TraceInv, OrderInv, Ordered
<1>9. ReflectInv'
  BY <1>1, <1>2, <1>3 DEF ReflectInv, none
<1> QED
  BY <1>4, <1>5, <1>7, <1>8, <1>9 DEF TraceInv

\* The graph returns, with an operation and a state of its own.
LEMMA ReturnsKeeps ==
    ASSUME TraceInv, NEW o \in Operations, NEW s \in GraphStates, returns(o, s),
           invoking # none, op.status \in {"received", "resuming", "failed"},
           Follows(op, o), o.status \notin {"absent", "received"},
           o.status \in Waiting => o.cycle \in Cycles /\ o.approvals[o.cycle] = none,
           \A c \in Cycles : c > o.cycle => o.approvals[c] = none,
           verdict' \in [Cycles -> Routes \cup {none}], faults' = faults
    PROVE  TraceInv'
<1>1. PICK new : new = capture(invoking, op.cycle, s)
  OBVIOUS
<1>2. /\ op' = o /\ graph' = s /\ captures' = captures \cup {new} /\ invoking' = none
      /\ UNCHANGED <<run, events, boot, crashes, overlapped, faults>>
  BY <1>1 DEF returns
<1>3. invoking \in Callers /\ op.cycle \in 0 .. MaxCycles /\ boot = "serving"
  BY DEF TraceInv, TraceTypeOK, Operations, OrderInv
<1>4. new \in Captures /\ new.phase = "start_run" /\ new.todo = <<>> /\ new.by = invoking
  BY <1>1, <1>3, CaptureBegins
<1>5. TraceTypeOK'
  BY <1>2, <1>4 DEF TraceInv, TraceTypeOK
<1>6. OpInv'
  BY <1>2 DEF OpInv
<1>7. TellInv'
  BY <1>2, <1>4, TellKeeps
<1>8. ~ \E i \in DOMAIN events : IsExecution(events[i])
  BY ExecutedIsCompleted
<1>9. Ordered(new.todo)
  BY <1>4 DEF Ordered
<1>10. ~ overlapped => captures' = {new}
  BY <1>2 DEF TraceInv, OrderInv
<1>11. OrderInv'
  <2>1. /\ op'.status = "completed" => invoking' = none
        /\ op'.status # "absent" /\ boot' = "serving"
    BY <1>2, <1>3
  <2>2. ASSUME ~ overlapped'
        PROVE  /\ \A c, d \in captures' : c = d
               /\ invoking' = none
               /\ Ordered(events')
               /\ ~ \E i \in DOMAIN events' : IsExecution(events'[i])
               /\ \A c \in captures' : Ordered(c.todo)
    BY <1>2, <1>8, <1>9, <1>10, <2>2 DEF TraceInv, OrderInv
  <2> QED
    BY <2>1, <2>2 DEF OrderInv
<1>12. ReflectInv'
  <2>1. ASSUME faults = 0, ~ overlapped, crashes = 0
        PROVE  run.owner = "operator" \/ \E c \in captures' : c.by = "start"
    <3>1. CASE op.status = "received"
      BY <1>2, <1>4, <2>1, <3>1 DEF TraceInv, ReflectInv
    <3>2. CASE op.status # "received"
      BY <1>2, <2>1, <3>2 DEF TraceInv, ReflectInv
    <3> QED
      BY <3>1, <3>2
  <2>2. ASSUME ~ overlapped, NEW c \in captures'
        PROVE  WillShow(c, op', run'.status, events')
    BY <1>4, <1>10, <2>2 DEF WillShow
  <2>3. captures' # {}
    BY <1>2
  <2> QED
    BY <1>2, <2>1, <2>2, <2>3 DEF ReflectInv
<1> QED
  BY <1>5, <1>6, <1>7, <1>11, <1>12 DEF TraceInv

\* The investigation of a new operation.
LEMMA InvestigateStep ==
    ASSUME TraceInv, investigate
    PROVE  TraceInv'
<1>1. /\ invoking # none /\ op.status = "received" /\ verdict' = verdict /\ faults' = faults
  BY DEF investigate
<1>2. /\ op \in Operations /\ graph \in GraphStates /\ op.cycle = 0
      /\ verdict \in [Cycles -> Routes \cup {none}]
      /\ \A c \in Cycles : op.approvals[c] = none
  <2>1. op \in Operations /\ graph \in GraphStates /\ verdict \in [Cycles -> Routes \cup {none}]
    BY DEF TraceInv, TraceTypeOK
  <2>2. op.cycle = 0 /\ \A c \in Cycles : c > op.cycle => op.approvals[c] = none
    BY <1>1 DEF TraceInv, OpInv
  <2>3. \A c \in Cycles : c > 0
    BY TraceAssumption DEF Cycles
  <2> QED
    BY <2>1, <2>2, <2>3
<1>3. 1 \in Cycles /\ 1 \in 0 .. MaxCycles
  BY TraceAssumption DEF Cycles
<1>4. op \in Operations
  BY <1>2
<1>5. {"completed", "awaiting_approval", "failed"} \subseteq OpStatuses
  BY DEF OpStatuses, Ended, Waiting
<1>6. graph \in GraphStates /\ 4 \in 0 .. 4
  BY <1>2
<1>7. {"completed", "awaiting_approval", "failed"} \subseteq
           {"running"} \cup Waiting \cup (Ended \ {"expired"})
  BY DEF Waiting, Ended
<1>8. ASSUME NEW o \in Operations, NEW s \in GraphStates, returns(o, s),
             o.status \in {"completed", "awaiting_approval", "failed"}, o.approvals = op.approvals,
             o.status = "awaiting_approval" => o.cycle = 1
      PROVE  TraceInv'
  <2>1. Follows(op, o)
    BY <1>1, <1>8 DEF Follows, Ended
  <2>2. o.status \in Waiting => o.cycle \in Cycles /\ o.approvals[o.cycle] = none
    BY <1>2, <1>3, <1>8 DEF Waiting
  <2> QED
    BY <1>1, <1>2, <1>8, <2>1, <2>2, ReturnsKeeps
<1>9. CASE returns([op EXCEPT !.status = "completed"],
                   [graph EXCEPT !.status = "completed", !.progress = 4])
  <2>1. PICK o : o = [op EXCEPT !.status = "completed"]
    OBVIOUS
  <2>2. PICK s : s = [graph EXCEPT !.status = "completed", !.progress = 4]
    OBVIOUS
  <2>3. o \in Operations /\ o.status = "completed" /\ o.approvals = op.approvals
    BY <1>4, <1>5, <2>1 DEF Operations
  <2>4. s \in GraphStates
    BY <1>6, <1>7, <2>2 DEF GraphStates
  <2> QED
    BY <1>8, <1>9, <2>1, <2>2, <2>3, <2>4
<1>10. CASE returns([op EXCEPT !.status = "awaiting_approval", !.cycle = 1],
                   [graph EXCEPT !.status = "awaiting_approval", !.progress = 4])
  <2>1. PICK o : o = [op EXCEPT !.status = "awaiting_approval", !.cycle = 1]
    OBVIOUS
  <2>2. PICK s : s = [graph EXCEPT !.status = "awaiting_approval", !.progress = 4]
    OBVIOUS
  <2>3. /\ o \in Operations /\ o.status = "awaiting_approval" /\ o.approvals = op.approvals
        /\ o.cycle = 1
    BY <1>4, <1>5, <1>3, <2>1 DEF Operations
  <2>4. s \in GraphStates
    BY <1>6, <1>7, <2>2 DEF GraphStates
  <2> QED
    BY <1>8, <1>10, <2>1, <2>2, <2>3, <2>4
<1>11. ASSUME NEW p \in 0 .. 4,
             returns([op EXCEPT !.status = "failed"],
                     [graph EXCEPT !.status = "failed", !.progress = p])
      PROVE  TraceInv'
  <2>1. PICK o : o = [op EXCEPT !.status = "failed"]
    OBVIOUS
  <2>2. PICK s : s = [graph EXCEPT !.status = "failed", !.progress = p]
    OBVIOUS
  <2>3. o \in Operations /\ o.status = "failed" /\ o.approvals = op.approvals
    BY <1>4, <1>5, <2>1 DEF Operations
  <2>4. s \in GraphStates
    BY <1>6, <1>7, <2>2 DEF GraphStates
  <2> QED
    BY <1>8, <1>11, <2>1, <2>2, <2>3, <2>4
<1> QED
  BY <1>9, <1>10, <1>11 DEF investigate

\* The graph goes on with a decision: to an outcome, or to the next cycle.
LEMMA ResumeStep ==
    ASSUME TraceInv, resume
    PROVE  TraceInv'
<1>1. invoking # none /\ op.status \in {"resuming", "failed"} /\ faults' = faults
  BY DEF resume
<1>2. /\ op \in Operations /\ graph \in GraphStates
      /\ verdict \in [Cycles -> Routes \cup {none}]
      /\ \A c \in Cycles : c > op.cycle => op.approvals[c] = none
      /\ op.cycle \in 0 .. MaxCycles
  BY DEF TraceInv, TraceTypeOK, OpInv, Operations
<1>3. ASSUME NEW status \in {"rejected", "failed", "completed", "aborted"},
             NEW route \in Routes \cup {none},
             NEW s, s \in {[graph EXCEPT !.status = status],
                           [graph EXCEPT !.status = status, !.verification = route]},
             returns([op EXCEPT !.status = status], s),
             op.status = "resuming" \/ status = "failed",
             verdict' \in [Cycles -> Routes \cup {none}]
      PROVE  TraceInv'
  <2>1. PICK o : o = [op EXCEPT !.status = status]
    OBVIOUS
  <2>2. /\ o \in Operations /\ o.status = status /\ o.approvals = op.approvals /\ o.cycle = op.cycle
    BY <1>2, <2>1 DEF Operations, OpStatuses, Ended
  <2>3. s \in GraphStates
    BY <1>2, <1>3 DEF GraphStates, Ended
  <2>4. Follows(op, o)
    BY <1>1, <1>3, <2>2 DEF Follows, Ended
  <2>5. o.status \notin Waiting /\ o.status \notin {"absent", "received"}
    BY <2>2 DEF Waiting
  <2>6. \A c \in Cycles : c > o.cycle => o.approvals[c] = none
    BY <1>2, <2>2
  <2>7. op.status \in {"received", "resuming", "failed"}
    BY <1>1
  <2>8. returns(o, s)
    BY <1>3, <2>1
  <2>9. verdict' \in [Cycles -> Routes \cup {none}]
    BY <1>3
  <2> QED
    BY <1>1, <2>2, <2>3, <2>4, <2>5, <2>6, <2>7, <2>8, <2>9, ReturnsKeeps
<1>4. ASSUME NEW route \in Routes
      PROVE  [verdict EXCEPT ![op.cycle] = route] \in [Cycles -> Routes \cup {none}]
  BY <1>2
<1>5. none \in Routes \cup {none}
  OBVIOUS
<1>6. CASE /\ op.status = "resuming" /\ verdict' = verdict
           /\ returns([op EXCEPT !.status = "rejected"], [graph EXCEPT !.status = "rejected"])
  BY <1>2, <1>3, <1>5, <1>6
<1>7. CASE /\ verdict' = verdict
           /\ returns([op EXCEPT !.status = "failed"], [graph EXCEPT !.status = "failed"])
  BY <1>2, <1>3, <1>5, <1>7
<1>8. ASSUME NEW route \in Routes, verdict' = [verdict EXCEPT ![op.cycle] = route],
             returns([op EXCEPT !.status = "failed"],
                     [graph EXCEPT !.status = "failed", !.verification = route])
      PROVE  TraceInv'
  BY <1>3, <1>4, <1>8
<1>9. ASSUME NEW route \in Routes, verdict' = [verdict EXCEPT ![op.cycle] = route],
             op.status = "resuming",
             NEW status \in {"completed", "aborted"},
             returns([op EXCEPT !.status = status],
                     [graph EXCEPT !.status = status, !.verification = route])
      PROVE  TraceInv'
  BY <1>3, <1>4, <1>9
<1>10. ASSUME NEW route \in Routes, verdict' = [verdict EXCEPT ![op.cycle] = route],
              op.status = "resuming", op.cycle < MaxCycles,
              returns([op EXCEPT !.status = "needs_reapproval", !.cycle = @ + 1],
                      [graph EXCEPT !.status = "needs_reapproval", !.verification = route])
       PROVE  TraceInv'
  <2>1. PICK o : o = [op EXCEPT !.status = "needs_reapproval", !.cycle = @ + 1]
    OBVIOUS
  <2>2. PICK s : s = [graph EXCEPT !.status = "needs_reapproval", !.verification = route]
    OBVIOUS
  <2>3. op.cycle + 1 \in 0 .. MaxCycles /\ op.cycle + 1 \in Cycles /\ op.cycle + 1 > op.cycle
    BY <1>2, <1>10, TraceAssumption DEF Cycles
  <2>4. /\ o \in Operations /\ o.status = "needs_reapproval" /\ o.approvals = op.approvals
        /\ o.cycle = op.cycle + 1
    BY <1>2, <2>1, <2>3 DEF Operations, OpStatuses, Waiting
  <2>5. s \in GraphStates
    BY <1>2, <2>2 DEF GraphStates, Waiting
  <2>6. Follows(op, o)
    BY <1>10, <2>4 DEF Follows, Ended
  <2>7. o.approvals[o.cycle] = none /\ o.cycle \in Cycles
    BY <1>2, <2>3, <2>4
  <2>8. \A c \in Cycles : c > o.cycle => o.approvals[c] = none
    <3>1. ASSUME NEW c \in Cycles, c > o.cycle PROVE c > op.cycle
      BY <1>2, <2>4, <3>1, TraceAssumption DEF Cycles
    <3> QED
      BY <1>2, <2>4, <3>1
  <2>9. verdict' \in [Cycles -> Routes \cup {none}]
    BY <1>4, <1>10
  <2>10. op.status \in {"received", "resuming", "failed"} /\ o.status \notin {"absent", "received"}
    BY <1>10, <2>4
  <2> QED
    BY <1>1, <1>10, <2>1, <2>2, <2>4, <2>5, <2>6, <2>7, <2>8, <2>9, <2>10, ReturnsKeeps
<1> QED
  BY <1>6, <1>7, <1>8, <1>9, <1>10 DEF resume

\* An operation of which only the status changes.
LEMMA StatusOnly ==
    ASSUME NEW o \in Operations, NEW status \in OpStatuses
    PROVE  /\ [o EXCEPT !.status = status] \in Operations
           /\ [o EXCEPT !.status = status].status = status
           /\ [o EXCEPT !.status = status].cycle = o.cycle
           /\ [o EXCEPT !.status = status].approvals = o.approvals
BY DEF Operations

\* Running the graph of a new operation raises.
LEMMA StartFailsStep ==
    ASSUME TraceInv, start_fails
    PROVE  TraceInv'
<1>1. PICK status : status = IF op.status \in Ended THEN op.status ELSE "failed"
  OBVIOUS
<1>2. /\ invoking = "start" /\ invoking' = none /\ faults < MaxFaults /\ faults' = faults + 1
      /\ op' = [op EXCEPT !.status = status]
      /\ UNCHANGED <<graph, verdict, run, events, captures, boot, crashes, overlapped>>
  BY <1>1 DEF start_fails
<1>3. op \in Operations /\ op.status \in OpStatuses /\ faults \in 0 .. MaxFaults
  BY DEF TraceInv, TraceTypeOK, Operations
<1>4. status \in Ended /\ status \in OpStatuses /\ status \notin Waiting /\ status # "absent"
  BY <1>1 DEF Ended, OpStatuses, Waiting
<1>5. /\ op' \in Operations /\ op'.status = status /\ op'.cycle = op.cycle
      /\ op'.approvals = op.approvals
  BY <1>2, <1>3, <1>4, StatusOnly
<1>6. faults' \in 0 .. MaxFaults /\ faults' # 0
  BY <1>2, <1>3, TraceAssumption
<1>7. TraceTypeOK'
  BY <1>2, <1>5, <1>6 DEF TraceInv, TraceTypeOK
<1>8. OpInv'
  BY <1>4, <1>5 DEF TraceInv, OpInv, Ended
<1>9. Follows(op, op')
  BY <1>1, <1>5 DEF Follows
<1>10. TellInv'
  BY <1>2, <1>9, TellKeeps
<1>11. OrderInv'
  BY <1>2, <1>4, <1>5 DEF TraceInv, OrderInv, Ordered
<1>12. ReflectInv'
  BY <1>6 DEF ReflectInv
<1> QED
  BY <1>7, <1>8, <1>10, <1>11, <1>12 DEF TraceInv

\* A decision on the cycle that waits.
LEMMA SubmitStep ==
    ASSUME TraceInv, NEW decision \in {"approved", "rejected"}, submit_approval(decision)
    PROVE  TraceInv'
<1>1. /\ boot = "serving" /\ invoking = none /\ op.status \in Waiting /\ invoking' = "submit"
      /\ op' = [op EXCEPT !.status = "resuming", !.approvals[op.cycle] = decision]
      /\ overlapped' = (overlapped \/ captures # {})
      /\ UNCHANGED <<graph, verdict, run, events, captures, boot, faults, crashes>>
  BY DEF submit_approval, approver_may_act
<1>2. /\ op \in Operations /\ op.cycle \in Cycles /\ op.approvals[op.cycle] = none
      /\ \A c \in Cycles : c > op.cycle => op.approvals[c] = none
      /\ op.approvals \in [Cycles -> {none, "approved", "rejected"}]
  BY <1>1 DEF TraceInv, TraceTypeOK, OpInv, Operations
<1>3. "resuming" \in OpStatuses /\ op.status \notin Ended \cup {"absent", "received", "completed"}
  BY <1>1 DEF OpStatuses, Waiting, Ended
<1>4. PICK approvals : approvals = [op.approvals EXCEPT ![op.cycle] = decision]
  OBVIOUS
<1>5. /\ approvals \in [Cycles -> {none, "approved", "rejected"}]
      /\ \A c \in Cycles : c # op.cycle => approvals[c] = op.approvals[c]
  BY <1>2, <1>4
<1>6. /\ op' \in Operations /\ op'.status = "resuming" /\ op'.cycle = op.cycle
      /\ op'.approvals = approvals
  BY <1>1, <1>2, <1>3, <1>4, <1>5 DEF Operations
<1>7. TraceTypeOK'
  BY <1>1, <1>6 DEF TraceInv, TraceTypeOK, Callers
<1>8. OpInv'
  <2>1. \A c \in Cycles : c > op.cycle => c # op.cycle
    BY <1>2, TraceAssumption DEF Cycles
  <2> QED
    BY <1>2, <1>5, <1>6, <2>1 DEF OpInv, Waiting
<1>9. Follows(op, op')
  BY <1>2, <1>3, <1>5, <1>6 DEF Follows
<1>10. TellInv'
  BY <1>1, <1>9, TellKeeps
<1>11. OrderInv'
  BY <1>1, <1>6 DEF TraceInv, OrderInv, Ordered
<1>12. ReflectInv'
  BY <1>1, <1>3, <1>6 DEF TraceInv, ReflectInv, none
<1> QED
  BY <1>7, <1>8, <1>10, <1>11, <1>12 DEF TraceInv

\* A decision that comes after the deadline.
LEMMA SubmitExpiredStep ==
    ASSUME TraceInv, submit_approval_expired
    PROVE  TraceInv'
<1>1. /\ boot = "serving" /\ invoking = none /\ op.status \in Waiting
      /\ op' = [op EXCEPT !.status = "expired"]
      /\ overlapped' = (overlapped \/ captures # {})
      /\ UNCHANGED <<graph, verdict, invoking, run, events, captures, boot, faults, crashes>>
  BY DEF submit_approval_expired, approver_may_act
<1>2. op \in Operations
  BY DEF TraceInv, TraceTypeOK
<1>3. "expired" \in OpStatuses /\ op.status \notin Ended \cup {"absent", "received", "completed"}
  BY <1>1 DEF OpStatuses, Waiting, Ended
<1>4. /\ op' \in Operations /\ op'.status = "expired" /\ op'.cycle = op.cycle
      /\ op'.approvals = op.approvals
  BY <1>1, <1>2, <1>3, StatusOnly
<1>5. TraceTypeOK'
  BY <1>1, <1>4 DEF TraceInv, TraceTypeOK
<1>6. OpInv'
  BY <1>4 DEF TraceInv, OpInv, Waiting
<1>7. Follows(op, op')
  BY <1>3, <1>4 DEF Follows
<1>8. TellInv'
  BY <1>1, <1>7, TellKeeps
<1>9. OrderInv'
  BY <1>1, <1>4 DEF TraceInv, OrderInv, Ordered
<1>10. ReflectInv'
  BY <1>1, <1>3, <1>4 DEF TraceInv, ReflectInv, Waiting
<1> QED
  BY <1>5, <1>6, <1>8, <1>9, <1>10 DEF TraceInv

\* The process dies, and every recording with it.
LEMMA CrashStep ==
    ASSUME TraceInv, crash
    PROVE  TraceInv'
<1>1. /\ crashes < MaxCrashes /\ crashes' = crashes + 1
      /\ boot' = "down" /\ invoking' = none /\ captures' = {}
      /\ UNCHANGED <<op, graph, verdict, run, events, faults, overlapped>>
  BY DEF crash
<1>2. crashes' \in 0 .. MaxCrashes /\ crashes' > 0
  BY <1>1, TraceAssumption DEF TraceInv, TraceTypeOK
<1>3. TraceTypeOK'
  BY <1>1, <1>2 DEF TraceInv, TraceTypeOK
<1>4. OpInv'
  BY <1>1 DEF TraceInv, OpInv
<1>5. TellInv'
  BY <1>1, TellKeeps DEF Follows
<1>6. OrderInv'
  BY <1>1, <1>2 DEF TraceInv, OrderInv, Ordered
<1>7. ReflectInv'
  BY <1>1, <1>2 DEF ReflectInv
<1> QED
  BY <1>3, <1>4, <1>5, <1>6, <1>7 DEF TraceInv

\* The startup expires what is overdue.
LEMMA ExpireDueStep ==
    ASSUME TraceInv, expire_due
    PROVE  TraceInv'
<1>1. /\ boot = "down" /\ boot' = "recovering"
      /\ UNCHANGED <<graph, verdict, invoking, run, events, captures, faults, crashes, overlapped>>
  BY DEF expire_due
<1>2. captures = {} /\ invoking = none /\ crashes > 0 /\ crashes # 0
  BY <1>1 DEF TraceInv, OrderInv
<1>3. /\ op' \in Operations /\ op'.cycle = op.cycle /\ op'.approvals = op.approvals
      /\ op'.status = op.status \/ (op.status \in Waiting /\ op'.status = "expired")
  <2>1. op \in Operations
    BY DEF TraceInv, TraceTypeOK
  <2>2. "expired" \in OpStatuses
    BY DEF OpStatuses, Ended
  <2>3. CASE op' = op
    BY <2>1, <2>3
  <2>4. CASE op.status \in Waiting /\ op' = [op EXCEPT !.status = "expired"]
    BY <2>1, <2>2, <2>4, StatusOnly
  <2> QED
    BY <2>3, <2>4 DEF expire_due
<1>4. TraceTypeOK'
  BY <1>1, <1>3 DEF TraceInv, TraceTypeOK
<1>5. OpInv'
  BY <1>3 DEF TraceInv, OpInv, Waiting
<1>6. Follows(op, op')
  BY <1>3 DEF Follows, Waiting, Ended
<1>7. TellInv'
  BY <1>1, <1>6, TellKeeps
<1>8. OrderInv'
  BY <1>1, <1>2, <1>3 DEF TraceInv, OrderInv, Ordered
<1>9. ReflectInv'
  BY <1>1, <1>2 DEF ReflectInv
<1> QED
  BY <1>4, <1>5, <1>7, <1>8, <1>9 DEF TraceInv

\* The recovery goes on with what is not over.
LEMMA RecoverStep ==
    ASSUME TraceInv, recover
    PROVE  TraceInv'
<1>1. /\ boot = "recovering" /\ boot' = "serving"
      /\ UNCHANGED <<graph, verdict, run, events, crashes, overlapped>>
  BY DEF recover
<1>2. /\ captures = {} /\ invoking = none /\ crashes > 0 /\ crashes # 0
      /\ op \in Operations /\ graph \in GraphStates /\ op.cycle \in 0 .. MaxCycles
      /\ faults \in 0 .. MaxFaults
  BY <1>1 DEF TraceInv, TraceTypeOK, OrderInv, Operations
<1>3. CASE /\ op.status \in Ended \cup {"absent"}
           /\ UNCHANGED <<op, invoking, captures, faults>>
  <2>1. TraceTypeOK' /\ OpInv'
    BY <1>1, <1>3 DEF TraceInv, TraceTypeOK, OpInv
  <2>2. TellInv'
    BY <1>1, <1>3, TellKeeps DEF Follows
  <2>3. OrderInv'
    BY <1>1, <1>2, <1>3 DEF TraceInv, OrderInv, Ordered
  <2>4. ReflectInv'
    <3>1. op'.status \notin Waiting
      BY <1>3 DEF Waiting, Ended
    <3> QED
      BY <1>1, <1>2, <3>1 DEF ReflectInv
  <2> QED
    BY <2>1, <2>2, <2>3, <2>4 DEF TraceInv
<1>4. CASE /\ op.status \in Waiting
           /\ captures' = {capture("recover", op.cycle, graph)}
           /\ UNCHANGED <<op, invoking, faults>>
  <2>1. PICK new : new = capture("recover", op.cycle, graph)
    OBVIOUS
  <2>2. new \in Captures /\ new.phase = "start_run" /\ new.todo = <<>>
    BY <1>2, <2>1, CaptureBegins DEF Callers
  <2>3. captures' = {new}
    BY <1>4, <2>1
  <2>4. TraceTypeOK' /\ OpInv'
    BY <1>1, <1>4, <2>2, <2>3 DEF TraceInv, TraceTypeOK, OpInv
  <2>5. TellInv'
    BY <1>1, <1>4, <2>2, <2>3, TellKeeps DEF Follows
  <2>6. op.status # "completed" /\ op.status # "absent"
    BY <1>4 DEF Waiting
  <2>7. ~ \E i \in DOMAIN events : IsExecution(events[i])
    BY <2>6, ExecutedIsCompleted
  <2>8. OrderInv'
    <3>1. Ordered(new.todo)
      BY <2>2 DEF Ordered
    <3>2. /\ op'.status # "completed" /\ op'.status # "absent" /\ boot' = "serving"
          /\ invoking' = none /\ \A c, d \in captures' : c = d
          /\ ~ \E i \in DOMAIN events' : IsExecution(events'[i])
          /\ \A c \in captures' : Ordered(c.todo)
      BY <1>1, <1>2, <1>4, <2>3, <2>6, <2>7, <3>1
    <3>3. ~ overlapped' => Ordered(events')
      BY <1>1 DEF TraceInv, OrderInv
    <3> QED
      BY <3>2, <3>3 DEF OrderInv
  <2>9. ReflectInv'
    <3>1. \A c \in captures' : WillShow(c, op', run'.status, events')
      BY <2>2, <2>3 DEF WillShow
    <3> QED
      BY <1>1, <1>2, <2>3, <3>1 DEF ReflectInv
  <2> QED
    BY <2>4, <2>5, <2>8, <2>9 DEF TraceInv
<1>5. CASE /\ op.status \in {"received", "resuming"}
           /\ invoking' = "recover" /\ UNCHANGED <<op, captures, faults>>
  <2>1. TraceTypeOK' /\ OpInv'
    BY <1>1, <1>5 DEF TraceInv, TraceTypeOK, OpInv, Callers
  <2>2. TellInv'
    BY <1>1, <1>5, TellKeeps DEF Follows
  <2>3. OrderInv'
    BY <1>1, <1>2, <1>5 DEF TraceInv, OrderInv, Ordered
  <2>4. ReflectInv'
    BY <1>1, <1>2, <1>5 DEF ReflectInv, none
  <2> QED
    BY <2>1, <2>2, <2>3, <2>4 DEF TraceInv
<1>6. CASE /\ op.status \notin Ended \cup {"absent"}
           /\ faults < MaxFaults /\ faults' = faults + 1
           /\ \/ UNCHANGED op
              \/ op.status # "received" /\ op' = [op EXCEPT !.status = "failed"]
           /\ UNCHANGED <<invoking, captures>>
  <2>1. faults' \in 0 .. MaxFaults /\ faults' # 0
    BY <1>2, <1>6, TraceAssumption
  <2>2. /\ op' \in Operations /\ op'.cycle = op.cycle /\ op'.approvals = op.approvals
        /\ op'.status = op.status \/ op'.status = "failed"
    <3>1. "failed" \in OpStatuses
      BY DEF OpStatuses, Ended
    <3>2. CASE op' = op
      BY <1>2, <3>2
    <3>3. CASE op' = [op EXCEPT !.status = "failed"]
      BY <1>2, <3>1, <3>3, StatusOnly
    <3> QED
      BY <1>6, <3>2, <3>3
  <2>3. TraceTypeOK'
    BY <1>1, <1>6, <2>1, <2>2 DEF TraceInv, TraceTypeOK
  <2>4. OpInv'
    BY <2>2 DEF TraceInv, OpInv, Waiting
  <2>5. Follows(op, op')
    BY <1>6, <2>2 DEF Follows
  <2>6. TellInv'
    BY <1>1, <1>6, <2>5, TellKeeps
  <2>7. OrderInv'
    BY <1>1, <1>2, <1>6, <2>2 DEF TraceInv, OrderInv, Ordered
  <2>8. ReflectInv'
    BY <2>1 DEF ReflectInv
  <2> QED
    BY <2>3, <2>4, <2>6, <2>7, <2>8 DEF TraceInv
<1> QED
  BY <1>3, <1>4, <1>5, <1>6 DEF recover

-----------------------------------------------------------------------------
(* Steps of a recording *)

Runs == [status : RunStatuses \cup {none}, owner : {none, "operator"}]

\* The execution is among the rows q.
Executed(q) == \E i \in DOMAIN q : IsExecution(q[i])
NoVerification(q) == \A i \in DOMAIN q : ~ IsVerification(q[i])

\* A recording runs in a serving process; while nobody decided during one, it
\* is the only one, and nobody runs the graph.
LEMMA Recording ==
    ASSUME TraceInv, NEW c \in captures
    PROVE  /\ c \in Captures /\ boot = "serving" /\ op.status # "absent"
           /\ op \in Operations /\ run \in Runs /\ events \in Seq(TrueRows(op))
           /\ c.todo \in Seq(TrueRows(op))
           /\ c.phase \in {"start_run", "load_detail", "claim_owner"} => c.todo = <<>>
           /\ c.phase = "investigation" => c.todo \in Seq(QuietRows)
           /\ ~ overlapped =>
                 /\ captures = {c} /\ invoking = none /\ Ordered(events) /\ Ordered(c.todo)
                 /\ Executed(events) => c.phase \in {"outcome", "claim_owner"} /\ NoVerification(c.todo)
<1>1. /\ c \in Captures /\ op \in Operations /\ run \in Runs
  BY DEF TraceInv, TraceTypeOK, Runs
<1>2. boot = "serving" /\ op.status # "absent"
  BY DEF TraceInv, OrderInv
<1>3. /\ events \in Seq(TrueRows(op)) /\ c.todo \in Seq(TrueRows(op))
      /\ c.phase \in {"start_run", "load_detail", "claim_owner"} => c.todo = <<>>
      /\ c.phase = "investigation" => c.todo \in Seq(QuietRows)
  BY DEF TraceInv, TellInv
<1>4. ASSUME ~ overlapped
      PROVE  /\ captures = {c} /\ invoking = none /\ Ordered(events) /\ Ordered(c.todo)
             /\ Executed(events) => c.phase \in {"outcome", "claim_owner"} /\ NoVerification(c.todo)
  <2>1. \A d \in captures : d = c
    BY <1>4 DEF TraceInv, OrderInv
  <2>2. captures = {c}
    BY <2>1
  <2>3. invoking = none /\ Ordered(events) /\ Ordered(c.todo)
    BY <1>4 DEF TraceInv, OrderInv
  <2>4. Executed(events) => c.phase \in {"outcome", "claim_owner"} /\ NoVerification(c.todo)
    BY <1>4 DEF TraceInv, OrderInv, Executed, NoVerification
  <2> QED
    BY <2>2, <2>3, <2>4
<1> QED
  BY <1>1, <1>2, <1>3, <1>4

\* A recording c goes on as d.
LEMMA GoesOn ==
    ASSUME TraceInv, NEW c \in captures, NEW d \in Captures, becomes(c, d),
           UNCHANGED <<op, graph, verdict, invoking, boot, faults, crashes, overlapped>>,
           run' \in Runs, run'.owner = run.owner, d.by = c.by,
           events' \in Seq(TrueRows(op)), EventsAreRecordedOnce',
           d.todo \in Seq(TrueRows(op)),
           d.phase \in {"start_run", "load_detail", "claim_owner"} => d.todo = <<>>,
           d.phase = "investigation" => d.todo \in Seq(QuietRows),
           ~ overlapped =>
              /\ Ordered(events') /\ Ordered(d.todo)
              /\ Executed(events') => d.phase \in {"outcome", "claim_owner"} /\ NoVerification(d.todo),
           WillShow(c, op, run.status, events) => WillShow(d, op, run'.status, events')
    PROVE  TraceInv'
<1>1. captures' = (captures \ {c}) \cup {d}
  BY DEF becomes
<1>2. /\ boot = "serving" /\ op.status # "absent"
      /\ ~ overlapped => captures = {c} /\ invoking = none
  BY Recording
<1>3. ~ overlapped => captures' = {d}
  BY <1>1, <1>2
<1>4. TraceTypeOK'
  <2>1. TrueRows(op) \subseteq Rows
    BY DEF TrueRows
  <2>2. events' \in Seq(Rows)
    BY <2>1, SeqGrows
  <2> QED
    BY <1>1, <2>2 DEF TraceInv, TraceTypeOK, Runs
<1>5. OpInv'
  BY DEF TraceInv, OpInv
<1>6. TellInv'
  <2>1. ASSUME NEW x \in captures'
        PROVE  /\ x.todo \in Seq(TrueRows(op))
               /\ x.phase \in {"start_run", "load_detail", "claim_owner"} => x.todo = <<>>
               /\ x.phase = "investigation" => x.todo \in Seq(QuietRows)
    <3>1. CASE x = d
      BY <3>1
    <3>2. CASE x \in captures
      BY <3>2, Recording
    <3> QED
      BY <1>1, <2>1, <3>1, <3>2
  <2> QED
    BY <2>1 DEF TellInv
<1>7. OrderInv'
  <2>1. /\ op'.status = "completed" => invoking' = none
        /\ boot' = "serving" /\ op'.status # "absent"
    BY <1>2 DEF TraceInv, OrderInv
  <2>2. ASSUME ~ overlapped'
        PROVE  /\ \A x, y \in captures' : x = y
               /\ invoking' = none /\ Ordered(events')
               /\ \A x \in captures' :
                     /\ Ordered(x.todo)
                     /\ Executed(events') =>
                           x.phase \in {"outcome", "claim_owner"} /\ NoVerification(x.todo)
    BY <1>2, <1>3, <2>2
  <2> QED
    BY <2>1, <2>2 DEF OrderInv, Executed, NoVerification
<1>8. ReflectInv'
  <2>1. SUFFICES ASSUME faults = 0, ~ overlapped
                 PROVE  ReflectInv'
    BY DEF ReflectInv
  <2>2. captures' = {d} /\ captures = {c} /\ invoking = none /\ captures' # {}
    BY <1>2, <1>3, <2>1
  <2>3. ASSUME boot = "serving", invoking = none,
               op.status \in Waiting \/ (op.status \in Ended \ {"expired"} /\ crashes = 0)
        PROVE  WillShow(d, op, run'.status, events')
    BY <2>1, <2>2, <2>3 DEF TraceInv, ReflectInv
  <2>4. ASSUME crashes = 0, op.status \notin {"absent", "received"}
        PROVE  run'.owner = "operator" \/ \E x \in captures' : x.by = "start"
    <3>1. run.owner = "operator" \/ c.by = "start"
      BY <2>1, <2>2, <2>4 DEF TraceInv, ReflectInv
    <3> QED
      BY <2>2, <3>1
  <2> QED
    BY <2>2, <2>3, <2>4 DEF ReflectInv
<1> QED
  BY <1>4, <1>5, <1>6, <1>7, <1>8 DEF TraceInv

\* A recording c ends.
LEMMA Leaves ==
    ASSUME TraceInv, NEW c \in captures, captures' = captures \ {c},
           UNCHANGED <<op, graph, verdict, invoking, events, boot, faults, crashes, overlapped>>,
           run' \in Runs,
           run'.owner = "operator" \/ (c.by # "start" /\ run'.owner = run.owner),
           WillShow(c, op, run.status, events) => Shows(op, run'.status, events, <<>>)
    PROVE  TraceInv'
<1>1. /\ boot = "serving" /\ op.status # "absent"
      /\ ~ overlapped => captures = {c} /\ invoking = none
  BY Recording
<1>2. TraceTypeOK' /\ OpInv'
  BY DEF TraceInv, TraceTypeOK, OpInv, Runs
<1>3. TellInv'
  BY TellKeeps DEF Follows
<1>4. OrderInv'
  <2>1. /\ op'.status = "completed" => invoking' = none
        /\ boot' = "serving" /\ op'.status # "absent"
    BY <1>1 DEF TraceInv, OrderInv
  <2>2. ~ overlapped' => captures' = {} /\ Ordered(events') /\ invoking' = none
    BY <1>1 DEF TraceInv, OrderInv
  <2> QED
    BY <2>1, <2>2 DEF OrderInv
<1>5. ReflectInv'
  <2>1. SUFFICES ASSUME faults = 0, ~ overlapped
                 PROVE  ReflectInv'
    BY DEF ReflectInv
  <2>2. captures' = {} /\ captures = {c} /\ invoking = none
    BY <1>1, <2>1
  <2>3. ASSUME boot = "serving", invoking = none,
               op.status \in Waiting \/ (op.status \in Ended \ {"expired"} /\ crashes = 0)
        PROVE  Shows(op, run'.status, events, <<>>)
    BY <2>1, <2>2, <2>3 DEF TraceInv, ReflectInv
  <2>4. ASSUME crashes = 0, op.status \notin {"absent", "received"}
        PROVE  run'.owner = "operator"
    BY <2>1, <2>2, <2>4 DEF TraceInv, ReflectInv
  <2> QED
    BY <2>2, <2>3, <2>4 DEF ReflectInv
<1> QED
  BY <1>2, <1>3, <1>4, <1>5 DEF TraceInv

\* The row of the run is inserted, and the investigation is laid out.
LEMMA StartRunStep ==
    ASSUME TraceInv, NEW c \in captures, start_run(c)
    PROVE  TraceInv'
<1>1. PICK todo : todo = capture_investigation_events(c.state)
  OBVIOUS
<1>2. PICK close : close = capture_investigation_status(op, c.state)
  OBVIOUS
<1>3. PICK d : d = [c EXCEPT !.phase = "investigation", !.todo = todo, !.close = close]
  OBVIOUS
<1>4. /\ c.phase = "start_run" /\ becomes(c, d)
      /\ run' = IF run.status = none THEN [run EXCEPT !.status = "running"] ELSE run
      /\ UNCHANGED <<op, graph, verdict, invoking, events, boot, faults, crashes, overlapped>>
  BY <1>1, <1>2, <1>3 DEF start_run
<1>5. /\ c \in Captures /\ run \in Runs /\ events \in Seq(TrueRows(op))
      /\ ~ overlapped => Ordered(events) /\ ~ Executed(events)
  BY <1>4, Recording
<1>6. todo \in Seq(QuietRows)
  BY <1>1, <1>5, InvestigationIsQuiet DEF Captures
<1>7. QuietRows \subseteq TrueRows(op) /\ QuietRows \subseteq Rows
  BY QuietIsTrue DEF QuietRows
<1>8. todo \in Seq(TrueRows(op)) /\ todo \in Seq(Rows)
  BY <1>6, <1>7, SeqGrows
<1>9. close \in RunStatuses
  BY <1>2 DEF capture_investigation_status, RunStatuses
<1>10. /\ d \in Captures /\ d.phase = "investigation" /\ d.todo = todo /\ d.by = c.by
  BY <1>3, <1>5, <1>8, <1>9 DEF Captures
<1>11. run' \in Runs /\ run'.owner = run.owner
  BY <1>4, <1>5 DEF Runs, RunStatuses
<1>12. Ordered(todo)
  BY <1>6 DEF Ordered, QuietRows, IsExecution
<1>13. EventsAreRecordedOnce'
  BY <1>4 DEF TraceInv, TellInv, EventsAreRecordedOnce
<1>14. WillShow(d, op, run'.status, events')
  BY <1>10 DEF WillShow
<1>15. events' = events
  BY <1>4
<1>16. ~ overlapped => /\ Ordered(events') /\ Ordered(d.todo)
                       /\ ~ Executed(events')
  BY <1>5, <1>10, <1>12, <1>15
<1> QED
  BY <1>4, <1>5, <1>6, <1>8, <1>10, <1>11, <1>13, <1>14, <1>15, <1>16, GoesOn

\* One more row keeps the order, unless it is a verification after an execution.
LEMMA OrderedAppend ==
    ASSUME NEW S, NEW q \in Seq(S), NEW e \in S, Ordered(q), ~ (Executed(q) /\ IsVerification(e)),
           ~ (IsExecution(e) /\ IsVerification(e))
    PROVE  Ordered(Append(q, e))
<1>1. /\ Len(q) \in Nat /\ DOMAIN q = 1 .. Len(q) /\ DOMAIN Append(q, e) = 1 .. Len(q) + 1
      /\ \A i \in 1 .. Len(q) : Append(q, e)[i] = q[i]
      /\ Append(q, e)[Len(q) + 1] = e
  BY OneMoreRow
<1>2. PICK p : p = Append(q, e)
  OBVIOUS
<1>3. SUFFICES ASSUME NEW i \in 1 .. Len(q) + 1, NEW j \in 1 .. Len(q) + 1,
                      IsExecution(p[i]), IsVerification(p[j])
               PROVE  j < i
  BY <1>1, <1>2 DEF Ordered
<1>4. CASE j \in 1 .. Len(q) /\ i \in 1 .. Len(q)
  BY <1>1, <1>2, <1>3, <1>4 DEF Ordered
<1>5. CASE j \in 1 .. Len(q) /\ i = Len(q) + 1
  BY <1>1, <1>5
<1>6. CASE j = Len(q) + 1
  <2>1. IsVerification(e)
    BY <1>1, <1>2, <1>3, <1>6
  <2>2. i \in 1 .. Len(q)
    BY <1>1, <1>2, <1>3, <2>1
  <2>3. Executed(q)
    BY <1>1, <1>2, <1>3, <2>2 DEF Executed
  <2> QED
    BY <2>1, <2>3
<1> QED
  BY <1>1, <1>3, <1>4, <1>5, <1>6

\* The next row is written, unless its key is there already.
LEMMA AppendEventStep ==
    ASSUME TraceInv, NEW c \in captures, append_event(c)
    PROVE  TraceInv'
<1>1. PICK e : e = Head(c.todo)
  OBVIOUS
<1>2. PICK rest : rest = Tail(c.todo)
  OBVIOUS
<1>3. PICK d : d = [c EXCEPT !.todo = rest]
  OBVIOUS
<1>4. /\ c.todo # <<>> /\ becomes(c, d)
      /\ UNCHANGED <<op, graph, verdict, invoking, run, boot, faults, crashes, overlapped>>
  BY <1>2, <1>3 DEF append_event
<1>5. \/ recorded(e.key) /\ events' = events
      \/ ~ recorded(e.key) /\ events' = Append(events, e)
  BY <1>1 DEF append_event
<1>6. /\ c \in Captures /\ run \in Runs /\ events \in Seq(TrueRows(op))
      /\ c.todo \in Seq(TrueRows(op)) /\ c.phase \in {"investigation", "outcome"}
      /\ c.phase = "investigation" => c.todo \in Seq(QuietRows)
      /\ ~ overlapped =>
            /\ Ordered(events) /\ Ordered(c.todo)
            /\ Executed(events) => c.phase = "outcome" /\ NoVerification(c.todo)
  <2>1. c \in Captures
    BY Recording
  <2>2. c.phase \in {"start_run", "investigation", "load_detail", "outcome", "claim_owner"}
    BY <2>1 DEF Captures
  <2> QED
    BY <1>4, <2>2, Recording
<1>7. e \in TrueRows(op) /\ rest \in Seq(TrueRows(op))
  BY <1>1, <1>2, <1>4, <1>6, RestOfRows
<1>8. c.phase = "investigation" => e \in QuietRows /\ rest \in Seq(QuietRows)
  BY <1>1, <1>2, <1>4, <1>6, RestOfRows
<1>9. TrueRows(op) \subseteq Rows
  BY DEF TrueRows
<1>10. rest \in Seq(Rows)
  BY <1>7, <1>9, SeqGrows
<1>11. d \in Captures /\ d.phase = c.phase /\ d.todo = rest /\ d.by = c.by /\ d.close = c.close
  BY <1>3, <1>6, <1>10 DEF Captures
<1>12. events' \in Seq(TrueRows(op))
  BY <1>5, <1>6, <1>7, OneMoreRow
<1>13. EventsAreRecordedOnce'
  <2>1. \A i, j \in DOMAIN events : events[i].key = events[j].key => i = j
    BY DEF TraceInv, TellInv, EventsAreRecordedOnce
  <2>2. CASE events' = events
    BY <2>1, <2>2 DEF EventsAreRecordedOnce
  <2>3. CASE ~ recorded(e.key) /\ events' = Append(events, e)
    <3>1. /\ Len(events) \in Nat /\ DOMAIN events = 1 .. Len(events)
          /\ DOMAIN events' = 1 .. Len(events) + 1
          /\ \A i \in 1 .. Len(events) : events'[i] = events[i]
          /\ events'[Len(events) + 1] = e
      BY <1>6, <1>7, <2>3, OneMoreRow
    <3>2. \A i \in 1 .. Len(events) : events[i].key # e.key
      BY <2>3, <3>1 DEF recorded
    <3>3. \A i \in 1 .. Len(events) + 1 : i \in 1 .. Len(events) \/ i = Len(events) + 1
      BY <3>1
    <3> QED
      BY <2>1, <3>1, <3>2, <3>3 DEF EventsAreRecordedOnce
  <2> QED
    BY <1>5, <2>2, <2>3
<1>14. ASSUME ~ overlapped
       PROVE  /\ Ordered(events') /\ Ordered(rest)
              /\ Executed(events') => c.phase \in {"outcome", "claim_owner"} /\ NoVerification(rest)
  <2>1. /\ Ordered(events) /\ Ordered(c.todo)
        /\ Executed(events) => c.phase = "outcome" /\ NoVerification(c.todo)
    BY <1>6, <1>14
  <2>2. /\ Ordered(rest)
        /\ IsExecution(e) => NoVerification(rest)
        /\ NoVerification(c.todo) => ~ IsVerification(e) /\ NoVerification(rest)
    BY <1>1, <1>2, <1>4, <1>6, <2>1, RestOfRows DEF NoVerification
  <2>3. IsExecution(e) => c.phase = "outcome" /\ ~ IsVerification(e)
    BY <1>6, <1>8 DEF QuietRows, IsExecution, IsVerification
  <2>4. Ordered(events')
    BY <1>5, <1>6, <1>7, <2>1, <2>2, <2>3, OrderedAppend
  <2>5. Executed(events') => Executed(events) \/ IsExecution(e)
    <3>1. CASE events' = events
      BY <3>1
    <3>2. CASE events' = Append(events, e)
      <4>1. /\ Len(events) \in Nat /\ DOMAIN events = 1 .. Len(events)
            /\ DOMAIN events' = 1 .. Len(events) + 1
            /\ \A i \in 1 .. Len(events) : events'[i] = events[i]
            /\ events'[Len(events) + 1] = e
        BY <1>6, <1>7, <3>2, OneMoreRow
      <4>2. \A i \in 1 .. Len(events) + 1 : i \in 1 .. Len(events) \/ i = Len(events) + 1
        BY <4>1
      <4> QED
        BY <4>1, <4>2 DEF Executed
    <3> QED
      BY <1>5, <3>1, <3>2
  <2> QED
    BY <2>1, <2>2, <2>3, <2>4, <2>5
<1>15. ASSUME NEW key, KeyIn(events, key) \/ KeyIn(c.todo, key)
       PROVE  KeyIn(events', key) \/ KeyIn(rest, key)
  <2>1. KeyIn(c.todo, key) => e.key = key \/ KeyIn(rest, key)
    BY <1>1, <1>2, <1>4, <1>6, RestOfRows
  <2>2. CASE recorded(e.key) /\ events' = events
    BY <1>15, <2>1, <2>2 DEF KeyIn, recorded
  <2>3. CASE events' = Append(events, e)
    BY <1>6, <1>7, <1>15, <2>1, <2>3, OneMoreRow
  <2> QED
    BY <1>5, <2>2, <2>3
<1>16. WillShow(c, op, run.status, events) => WillShow(d, op, run'.status, events')
  <2>1. CASE c.phase = "investigation"
    BY <1>11, <2>1 DEF WillShow
  <2>2. CASE c.phase = "outcome"
    <3>1. SUFFICES ASSUME Shows(op, c.close, events, c.todo)
                   PROVE  Shows(op, c.close, events', rest)
      BY <1>11, <2>2 DEF WillShow
    <3> QED
      BY <1>15, <3>1 DEF Shows
  <2> QED
    BY <1>6, <2>1, <2>2
<1>17. run' \in Runs /\ run'.owner = run.owner
  BY <1>4, <1>6
<1> QED
  BY <1>4, <1>6, <1>7, <1>8, <1>11, <1>12, <1>13, <1>14, <1>16, <1>17, GoesOn

\* The status of the run is written.
LEMMA FinishRunStep ==
    ASSUME TraceInv, NEW c \in captures, finish_run(c)
    PROVE  TraceInv'
<1>1. /\ c.phase \in {"investigation", "outcome"} /\ c.todo = <<>>
      /\ run' = [run EXCEPT !.status = c.close]
      /\ UNCHANGED <<op, graph, verdict, invoking, events, boot, faults, crashes, overlapped>>
  BY DEF finish_run
<1>2. /\ c \in Captures /\ run \in Runs /\ events \in Seq(TrueRows(op))
      /\ ~ overlapped => Ordered(events) /\ (Executed(events) => c.phase = "outcome")
  BY <1>1, Recording
<1>3. run' \in Runs /\ run'.owner = run.owner /\ run'.status = c.close
  BY <1>1, <1>2 DEF Runs, Captures
<1>4. CASE c.phase = "outcome" /\ c.by # "start"
  <2>1. captures' = captures \ {c}
    BY <1>4 DEF finish_run
  <2>2. WillShow(c, op, run.status, events) => Shows(op, run'.status, events, <<>>)
    BY <1>1, <1>3, <1>4 DEF WillShow
  <2> QED
    BY <1>1, <1>3, <1>4, <2>1, <2>2, Leaves
<1>5. CASE ~ (c.phase = "outcome" /\ c.by # "start")
  <2>1. PICK phase : phase = IF c.phase = "investigation" THEN "load_detail" ELSE "claim_owner"
    OBVIOUS
  <2>2. PICK d : d = [c EXCEPT !.phase = phase]
    OBVIOUS
  <2>3. becomes(c, d)
    BY <1>5, <2>1, <2>2 DEF finish_run
  <2>4. phase \in {"load_detail", "claim_owner"} /\ (c.phase = "outcome" => phase = "claim_owner")
    BY <2>1
  <2>5. d \in Captures /\ d.phase = phase /\ d.todo = <<>> /\ d.by = c.by
    BY <1>1, <1>2, <2>2, <2>4 DEF Captures
  <2>6. EventsAreRecordedOnce'
    BY <1>1 DEF TraceInv, TellInv, EventsAreRecordedOnce
  <2>7. events' = events /\ Ordered(<<>>) /\ NoVerification(<<>>)
    BY <1>1 DEF Ordered, NoVerification
  <2>8. WillShow(c, op, run.status, events) => WillShow(d, op, run'.status, events')
    BY <1>1, <1>3, <2>1, <2>5, <2>7 DEF WillShow
  <2>9. ~ overlapped =>
            /\ Ordered(events') /\ Ordered(d.todo)
            /\ Executed(events') => d.phase \in {"outcome", "claim_owner"} /\ NoVerification(d.todo)
    BY <1>2, <2>4, <2>5, <2>7
  <2>10. /\ events' \in Seq(TrueRows(op)) /\ d.todo \in Seq(TrueRows(op))
         /\ d.phase # "investigation"
    BY <1>2, <2>4, <2>5, <2>7
  <2> QED
    BY <1>1, <1>3, <2>3, <2>5, <2>6, <2>8, <2>9, <2>10, GoesOn
<1> QED
  BY <1>4, <1>5

\* The outcome is laid out from the operation as it is by now.
LEMMA LoadDetailStep ==
    ASSUME TraceInv, NEW c \in captures, load_detail(c)
    PROVE  TraceInv'
<1>1. PICK todo : todo = capture_outcome_events(op, c.state)
  OBVIOUS
<1>2. PICK close : close = capture_outcome_status(op.status)
  OBVIOUS
<1>3. PICK d : d = [c EXCEPT !.phase = "outcome", !.todo = todo, !.close = close]
  OBVIOUS
<1>4. /\ c.phase = "load_detail" /\ becomes(c, d)
      /\ UNCHANGED <<op, graph, verdict, invoking, run, events, boot, faults, crashes, overlapped>>
  BY <1>1, <1>2, <1>3 DEF load_detail
<1>5. /\ c \in Captures /\ op \in Operations /\ run \in Runs /\ events \in Seq(TrueRows(op))
      /\ ~ overlapped => Ordered(events) /\ ~ Executed(events)
  BY <1>4, Recording
<1>6. c.state \in GraphStates
  BY <1>5 DEF Captures
<1>7. /\ todo \in Seq(TrueRows(op)) /\ Ordered(todo)
      /\ \A p : Shows(op, close, p, todo)
  BY <1>1, <1>2, <1>5, <1>6, OutcomeIsTrue
<1>8. TrueRows(op) \subseteq Rows
  BY DEF TrueRows
<1>9. todo \in Seq(Rows)
  BY <1>7, <1>8, SeqGrows
<1>10. close \in RunStatuses
  BY <1>2 DEF capture_outcome_status, RunStatuses
<1>11. d \in Captures /\ d.phase = "outcome" /\ d.todo = todo /\ d.by = c.by /\ d.close = close
  BY <1>3, <1>5, <1>9, <1>10 DEF Captures
<1>12. EventsAreRecordedOnce'
  BY <1>4 DEF TraceInv, TellInv, EventsAreRecordedOnce
<1>13. WillShow(d, op, run'.status, events')
  BY <1>7, <1>11 DEF WillShow
<1>14. events' = events /\ run' = run
  BY <1>4
<1>15. ~ overlapped => Ordered(events') /\ Ordered(d.todo) /\ ~ Executed(events')
  BY <1>5, <1>7, <1>11, <1>14
<1> QED
  BY <1>4, <1>5, <1>7, <1>11, <1>12, <1>13, <1>14, <1>15, GoesOn

\* The request that started the operation claims the run for its operator.
LEMMA ClaimOwnerStep ==
    ASSUME TraceInv, NEW c \in captures, claim_owner(c)
    PROVE  TraceInv'
<1>1. /\ c.phase = "claim_owner" /\ captures' = captures \ {c}
      /\ run' = IF run.owner = none THEN [run EXCEPT !.owner = "operator"] ELSE run
      /\ UNCHANGED <<op, graph, verdict, invoking, events, boot, faults, crashes, overlapped>>
  BY DEF claim_owner
<1>2. run \in Runs
  BY Recording
<1>3. run' \in Runs /\ run'.owner = "operator" /\ run'.status = run.status
  BY <1>1, <1>2 DEF Runs
<1>4. WillShow(c, op, run.status, events) => Shows(op, run'.status, events, <<>>)
  BY <1>1, <1>3 DEF WillShow
<1> QED
  BY <1>1, <1>3, <1>4, Leaves

\* A transaction of the recording fails.
LEMMA CaptureFailsStep ==
    ASSUME TraceInv, NEW c \in captures, capture_fails(c)
    PROVE  TraceInv'
<1>1. /\ faults < MaxFaults /\ faults' = faults + 1 /\ captures' = captures \ {c}
      /\ UNCHANGED <<graph, verdict, invoking, run, events, boot, crashes, overlapped>>
  BY DEF capture_fails
<1>2. /\ op \in Operations /\ faults \in 0 .. MaxFaults /\ boot = "serving" /\ op.status # "absent"
      /\ ~ overlapped => captures = {c}
  BY Recording DEF TraceInv, TraceTypeOK
<1>3. /\ op' \in Operations /\ op'.cycle = op.cycle /\ op'.approvals = op.approvals
      /\ op'.status = op.status \/ (op.status \notin Ended /\ op'.status = "failed")
  <2>1. "failed" \in OpStatuses
    BY DEF OpStatuses, Ended
  <2>2. CASE op' = op
    BY <1>2, <2>2
  <2>3. CASE op.status \notin Ended /\ op' = [op EXCEPT !.status = "failed"]
    BY <1>2, <2>1, <2>3, StatusOnly
  <2> QED
    BY <2>2, <2>3 DEF capture_fails
<1>4. faults' \in 0 .. MaxFaults /\ faults' # 0
  BY <1>1, <1>2, TraceAssumption
<1>5. TraceTypeOK'
  BY <1>1, <1>3, <1>4 DEF TraceInv, TraceTypeOK
<1>6. OpInv'
  BY <1>3 DEF TraceInv, OpInv, Waiting
<1>7. Follows(op, op')
  BY <1>3 DEF Follows
<1>8. TellInv'
  BY <1>1, <1>7, TellKeeps
<1>9. OrderInv'
  <2>1. /\ op'.status = "completed" => invoking' = none
        /\ boot' = "serving" /\ op'.status # "absent"
    BY <1>1, <1>2, <1>3 DEF TraceInv, OrderInv
  <2>2. ~ overlapped' => captures' = {} /\ Ordered(events')
    BY <1>1, <1>2 DEF TraceInv, OrderInv
  <2> QED
    BY <2>1, <2>2 DEF OrderInv
<1>10. ReflectInv'
  BY <1>4 DEF ReflectInv
<1> QED
  BY <1>5, <1>6, <1>8, <1>9, <1>10 DEF TraceInv

-----------------------------------------------------------------------------
(* The theorems *)

\* TraceInv is an inductive invariant.
LEMMA TraceInvariant == TraceSpec => []TraceInv
<1>1. Init => TraceInv
  <2> SUFFICES ASSUME Init PROVE TraceInv
    OBVIOUS
  <2>1. /\ op.status = "absent" /\ op.cycle = 0 /\ op.approvals = [c \in Cycles |-> none]
        /\ invoking = none /\ run.status = none /\ events = <<>> /\ captures = {}
        /\ boot = "serving" /\ faults = 0 /\ crashes = 0 /\ overlapped = FALSE
    BY DEF Init
  <2>2. op \in Operations
    <3>1. 0 \in 0 .. MaxCycles /\ "absent" \in OpStatuses
      BY TraceAssumption DEF OpStatuses
    <3> QED
      BY <3>1 DEF Init, Operations
  <2>3. graph \in GraphStates
    <3>1. 0 \in 0 .. 4
      OBVIOUS
    <3> QED
      BY <3>1 DEF Init, GraphStates
  <2>4. verdict \in [Cycles -> Routes \cup {none}]
    BY DEF Init
  <2>5. run \in [status : RunStatuses \cup {none}, owner : {none, "operator"}]
    BY DEF Init
  <2>6. 0 \in 0 .. MaxFaults /\ 0 \in 0 .. MaxCrashes
    BY TraceAssumption
  <2>7. events \in Seq(Rows) /\ captures \subseteq Captures /\ invoking \in Callers \cup {none}
    BY <2>1
  <2>8. faults \in 0 .. MaxFaults /\ crashes \in 0 .. MaxCrashes
    BY <2>1, <2>6
  <2>9. overlapped \in BOOLEAN /\ boot \in {"serving", "down", "recovering"}
    BY <2>1
  <2>10. TraceTypeOK
    BY <2>2, <2>3, <2>4, <2>5, <2>7, <2>8, <2>9 DEF TraceTypeOK
  <2>11. OpInv
    BY <2>1 DEF OpInv, Waiting
  <2>12. TellInv
    BY <2>1 DEF TellInv, EventsAreRecordedOnce
  <2>13. OrderInv
    BY <2>1 DEF OrderInv, Ordered
  <2>14. ReflectInv
    BY <2>1 DEF ReflectInv, Waiting, Ended
  <2> QED
    BY <2>10, <2>11, <2>12, <2>13, <2>14 DEF TraceInv
<1>2. TraceInv /\ [Next]_traceVars => TraceInv'
  <2> SUFFICES ASSUME TraceInv, [Next]_traceVars PROVE TraceInv'
    OBVIOUS
  <2>1. CASE UNCHANGED traceVars
    BY <2>1 DEF traceVars, TraceInv, TraceTypeOK, OpInv, TellInv, EventsAreRecordedOnce, OrderInv,
                Ordered, ReflectInv
  <2>2. ASSUME NEW c \in captures, record(c) PROVE TraceInv'
    BY <2>2, StartRunStep, AppendEventStep, FinishRunStep, LoadDetailStep, ClaimOwnerStep,
       CaptureFailsStep DEF record
  <2> QED
    BY <2>1, <2>2, StartStep, InvestigateStep, StartFailsStep, SubmitStep, SubmitExpiredStep,
       ResumeStep, CrashStep, ExpireDueStep, RecoverStep DEF Next
<1> QED
  BY <1>1, <1>2, PTL DEF TraceSpec

\* Whatever is recorded, the rows of the run and of its events hold what their
\* columns allow.
THEOREM TraceTypes == TraceSpec => []TraceTypeOK
<1>1. TraceInv => TraceTypeOK
  BY DEF TraceInv
<1> QED
  BY <1>1, TraceInvariant, PTL

\* append_event writes an event once, however often its recording is repeated
\* after a crash or raced by another.
THEOREM TraceRecordsOnce == TraceSpec => []EventsAreRecordedOnce
<1>1. TraceInv => EventsAreRecordedOnce
  BY DEF TraceInv, TellInv
<1> QED
  BY <1>1, TraceInvariant, PTL

\* What the trace says of an outcome or of a decision stays true of the
\* operation: recorded rows are never ahead of it, and it never goes back.
THEOREM TraceTellsTruth == TraceSpec => []TraceTellsOutcome
<1>1. TraceInv => TraceTellsOutcome
  <2> SUFFICES ASSUME TraceInv, NEW i \in DOMAIN events
               PROVE  events[i] \in TrueRows(op)
    BY DEF TraceTellsOutcome, TrueRows
  <2> QED
    BY DEF TraceInv, TellInv
<1> QED
  BY <1>1, TraceInvariant, PTL

\* Without failing calls and decisions during a recording, the recorder always
\* catches up: with waiting operations across any number of crashes, with ended
\* ones as long as the process lives.
THEOREM TraceCatchesUp == TraceSpec => []TraceReflectsOperation
<1>1. TraceInv => TraceReflectsOperation
  <2> SUFFICES ASSUME TraceInv, quiet, faults = 0, ~ overlapped
               PROVE  /\ op.status \in Waiting =>
                            /\ run.status = "awaiting_human"
                            /\ recorded(<<"human:approval_requested", op.cycle>>)
                      /\ op.status \in Ended \ {"expired"} /\ crashes = 0 =>
                            /\ run.status = capture_outcome_status(op.status)
                            /\ run.owner = "operator"
                            /\ recorded(<<"feedback:operation_terminal", 0>>)
    BY DEF TraceReflectsOperation
  <2>1. boot = "serving" /\ invoking = none /\ captures = {}
    BY DEF quiet
  <2>2. \A key : ~ KeyIn(<<>>, key)
    BY DEF KeyIn
  <2>3. \A key : KeyIn(events, key) => recorded(key)
    BY DEF KeyIn, recorded
  <2>4. ASSUME op.status \in Waiting
        PROVE  /\ run.status = "awaiting_human"
               /\ recorded(<<"human:approval_requested", op.cycle>>)
    <3>1. Shows(op, run.status, events, <<>>)
      BY <2>1, <2>4 DEF TraceInv, ReflectInv
    <3> QED
      BY <2>2, <2>3, <2>4, <3>1 DEF Shows, capture_outcome_status
  <2>5. ASSUME op.status \in Ended \ {"expired"}, crashes = 0
        PROVE  /\ run.status = capture_outcome_status(op.status)
               /\ run.owner = "operator"
               /\ recorded(<<"feedback:operation_terminal", 0>>)
    <3>1. Shows(op, run.status, events, <<>>)
      BY <2>1, <2>5 DEF TraceInv, ReflectInv
    <3>2. op.status \notin {"absent", "received"}
      BY <2>5 DEF Ended
    <3>3. run.owner = "operator"
      BY <2>1, <2>5, <3>2 DEF TraceInv, ReflectInv
    <3> QED
      BY <2>2, <2>3, <2>5, <3>1, <3>3 DEF Shows
  <2> QED
    BY <2>4, <2>5
<1> QED
  BY <1>1, TraceInvariant, PTL

\* The execution is recorded after the verification that let it through.
THEOREM TraceVerifiesFirst == TraceSpec => []VerificationPrecedesExecution
<1>1. TraceInv => VerificationPrecedesExecution
  <2> SUFFICES ASSUME TraceInv, ~ overlapped, recorded(<<"execution:operation_terminal", 0>>),
                      NEW name \in {"model:verification", "guardrail:binding_verification"},
                      recorded(<<name, op.cycle>>)
               PROVE  position(<<name, op.cycle>>) < position(<<"execution:operation_terminal", 0>>)
    BY DEF VerificationPrecedesExecution
  <2>1. ASSUME NEW key, recorded(key)
        PROVE  position(key) \in DOMAIN events /\ events[position(key)].key = key
    BY <2>1 DEF recorded, position
  <2>2. PICK i \in DOMAIN events : /\ i = position(<<"execution:operation_terminal", 0>>)
                                   /\ events[i].key = <<"execution:operation_terminal", 0>>
    BY <2>1
  <2>3. PICK j \in DOMAIN events : /\ j = position(<<name, op.cycle>>)
                                   /\ events[j].key = <<name, op.cycle>>
    BY <2>1
  <2>4. IsExecution(events[i]) /\ IsVerification(events[j])
    BY <2>2, <2>3 DEF IsExecution, IsVerification
  <2>5. Ordered(events)
    BY DEF TraceInv, OrderInv
  <2>6. j < i
    BY <2>4, <2>5 DEF Ordered
  <2> QED
    BY <2>2, <2>3, <2>6
<1> QED
  BY <1>1, TraceInvariant, PTL

===============================================================================
