--------------------------- MODULE SignalScanProofs ---------------------------
(***************************************************************************)
(* Theorems about SignalScan, for every catalog of valid items and rules,  *)
(* every watchlist and any number of scans side by side.                   *)
(***************************************************************************)
EXTENDS SignalScan, SequenceTheorems, TLAPS

-----------------------------------------------------------------------------
(* What an assessment depends on *)

\* The evidence of item i and rule p of scenario t, read at one time.
at(t, i, p, now) == [kind |-> t, subject |-> [item |-> i, captured_at |-> now],
                     policy |-> [item |-> p, captured_at |-> now]]

\* Valid rules have a positive lifetime of evidence.
LEMMA EvidenceLives ==
    ASSUME NEW t \in Kinds, NEW i, NEW p, ValidSeed(t, i, p)
    PROVE  p.evidence_ttl_seconds \in Nat \ {0}
BY DEF ValidSeed, Kinds, ValidInventoryPolicy, ValidMaintenancePolicy, ValidTaskPolicy

\* Evidence that was read at or after the time of the assessment is not
\* expired, and what is assessed does not depend on when it was read.
LEMMA AssessmentIsOfTheItem ==
    ASSUME NEW t \in Kinds, NEW i, NEW p, ValidSeed(t, i, p),
           NEW now \in Nat, NEW read \in Nat, now <= read
    PROVE  assess(at(t, i, p, read), now) =
             CASE t = "inventory" -> assess_replenishment(at(t, i, p, now), now)
               [] t = "equipment" -> assess_maintenance(at(t, i, p, now), now)
               [] t = "task"      -> assess_task_recovery(at(t, i, p, now), now)
<1>1. ~ expired(at(t, i, p, read), now)
  BY EvidenceLives DEF expired, at
<1>2. /\ assess_replenishment(at(t, i, p, read), now) = assess_replenishment(at(t, i, p, now), now)
      /\ assess_maintenance(at(t, i, p, read), now) = assess_maintenance(at(t, i, p, now), now)
      /\ assess_task_recovery(at(t, i, p, read), now) = assess_task_recovery(at(t, i, p, now), now)
  BY DEF assess_replenishment, assess_maintenance, assess_task_recovery, at
<1>3. at(t, i, p, read).kind = t
  BY DEF at
<1> QED
  BY <1>1, <1>2, <1>3 DEF assess, Kinds

\* A task that needs recovery has the same facts whenever it is assessed.
LEMMA TaskFacts ==
    ASSUME NEW b, NEW now, NEW f, f = assess_task_recovery(b, now), f # NoValue, f.required
    PROVE  LET task == b.subject.item IN
           f = [kind |-> "task", required |-> TRUE, state |-> task.state,
                blocker_code |-> task.blocker_code, retry_count |-> task.retry_count,
                reason |-> IF task.state \in b.policy.item.blocked_states THEN "blocked" ELSE "overdue",
                recovery_action |-> "manual_requeue"]
<1> DEFINE task == b.subject.item
           blocked == task.state \in b.policy.item.blocked_states
           overdue == task.state # "completed" /\ now > task.due_at + b.policy.item.overdue_grace_seconds
           required == blocked \/ overdue
<1>1. f = [kind |-> "task", required |-> required, state |-> task.state,
           blocker_code |-> task.blocker_code, retry_count |-> task.retry_count,
           reason |-> IF blocked THEN "blocked" ELSE IF overdue THEN "overdue" ELSE NoValue,
           recovery_action |-> IF required THEN "manual_requeue" ELSE NoValue]
  BY DEF assess_task_recovery
<1>2. required
  <2>1. f.required <=> required
    BY DEF assess_task_recovery
  <2> QED
    BY <2>1
<1> HIDE DEF blocked, overdue
<1>3. (IF blocked THEN "blocked" ELSE IF overdue THEN "overdue" ELSE NoValue)
        = IF blocked THEN "blocked" ELSE "overdue"
  BY <1>2
<1>4. required = TRUE /\ (IF required THEN "manual_requeue" ELSE NoValue) = "manual_requeue"
  BY <1>2
<1> HIDE DEF required
<1> QED
  BY <1>1, <1>3, <1>4, Zenon DEF blocked

\* The fields of a condition, scenario by scenario.
LEMMA SameCondition ==
    ASSUME NEW t \in Kinds, NEW i, NEW j, \A field \in Conditions[t] : i[field] = j[field]
    PROVE  /\ t = "inventory" => /\ i.on_hand_quantity = j.on_hand_quantity
                                 /\ i.reserved_quantity = j.reserved_quantity
           /\ t = "equipment" => /\ i.state = j.state /\ i.severity = j.severity
                                 /\ i.alert_code = j.alert_code
                                 /\ i.last_heartbeat = j.last_heartbeat
           /\ t = "task" => /\ i.state = j.state /\ i.blocker_code = j.blocker_code
                            /\ i.retry_count = j.retry_count
BY DEF Conditions, Kinds

\* Two assessments of one condition and rule that ask for an action are equal,
\* whenever they are made, unless a heartbeat has become too old in between or
\* the source of a machine has a new version.
LEMMA AssessmentsAgree ==
    ASSUME NEW t \in Kinds, NEW i, NEW j, NEW p, ValidSeed(t, i, p), ValidSeed(t, j, p),
           \A field \in Conditions[t] : i[field] = j[field],
           NEW m \in Nat, NEW n \in Nat,
           NEW f, f = assess(at(t, i, p, m), m), f # NoValue, f.required,
           NEW g, g = assess(at(t, j, p, n), n), g # NoValue, g.required,
           f # g
    PROVE  /\ t = "equipment"
           /\ f.heartbeat_stale # g.heartbeat_stale \/ i.source_version # j.source_version
<1>1. CASE t = "inventory"
  <2>1. /\ f = assess_replenishment(at(t, i, p, m), m)
        /\ g = assess_replenishment(at(t, j, p, n), n)
    BY <1>1, AssessmentIsOfTheItem
  <2> QED
    BY <1>1, <2>1, SameCondition DEF assess_replenishment, at
<1>2. CASE t = "equipment"
  <2>1. /\ f = assess_maintenance(at(t, i, p, m), m)
        /\ g = assess_maintenance(at(t, j, p, n), n)
    BY <1>2, AssessmentIsOfTheItem
  <2> QED
    BY <1>2, <2>1, SameCondition DEF assess_maintenance, at
<1>3. CASE t = "task"
  <2>1. /\ f = assess_task_recovery(at(t, i, p, m), m)
        /\ g = assess_task_recovery(at(t, j, p, n), n)
    BY <1>3, AssessmentIsOfTheItem
  <2> QED
    <3>1. PICK b : b = at(t, i, p, m)
      OBVIOUS
    <3>2. PICK c : c = at(t, j, p, n)
      OBVIOUS
    <3>3. /\ b.subject.item.state = c.subject.item.state
          /\ b.subject.item.blocker_code = c.subject.item.blocker_code
          /\ b.subject.item.retry_count = c.subject.item.retry_count
          /\ b.policy.item = c.policy.item
      BY <1>3, <3>1, <3>2, SameCondition DEF at
    <3>4. f = [kind |-> "task", required |-> TRUE, state |-> b.subject.item.state,
               blocker_code |-> b.subject.item.blocker_code, retry_count |-> b.subject.item.retry_count,
               reason |-> IF b.subject.item.state \in b.policy.item.blocked_states
                          THEN "blocked" ELSE "overdue",
               recovery_action |-> "manual_requeue"]
      BY <2>1, <3>1, TaskFacts
    <3>5. g = [kind |-> "task", required |-> TRUE, state |-> c.subject.item.state,
               blocker_code |-> c.subject.item.blocker_code, retry_count |-> c.subject.item.retry_count,
               reason |-> IF c.subject.item.state \in c.policy.item.blocked_states
                          THEN "blocked" ELSE "overdue",
               recovery_action |-> "manual_requeue"]
      BY <2>1, <3>2, TaskFacts
    <3> QED
      BY <3>3, <3>4, <3>5
<1> QED
  BY <1>1, <1>2, <1>3 DEF Kinds

\* An assessment names its scenario.
LEMMA FactsNameScenario ==
    ASSUME NEW t \in Kinds, NEW i, NEW p, ValidSeed(t, i, p), NEW now \in Nat,
           assess(at(t, i, p, now), now) # NoValue
    PROVE  assess(at(t, i, p, now), now).kind = t
<1>1. CASE t = "inventory"
  <2>1. PICK b : b = at(t, i, p, now)
    OBVIOUS
  <2>2. assess(b, now) = assess_replenishment(b, now)
    BY <1>1, <2>1, AssessmentIsOfTheItem
  <2>3. assess_replenishment(b, now) # NoValue
    BY <2>1, <2>2
  <2>4. assess_replenishment(b, now).kind = "inventory"
    BY <2>3 DEF assess_replenishment
  <2> QED
    BY <1>1, <2>1, <2>2, <2>4
<1>2. CASE t = "equipment"
  <2>1. PICK b : b = at(t, i, p, now)
    OBVIOUS
  <2>2. assess(b, now) = assess_maintenance(b, now)
    BY <1>2, <2>1, AssessmentIsOfTheItem
  <2>3. assess_maintenance(b, now) # NoValue
    BY <2>1, <2>2
  <2>4. assess_maintenance(b, now).kind = "equipment"
    BY <2>3 DEF assess_maintenance
  <2> QED
    BY <1>2, <2>1, <2>2, <2>4
<1>3. CASE t = "task"
  <2>1. PICK b : b = at(t, i, p, now)
    OBVIOUS
  <2>2. assess(b, now) = assess_task_recovery(b, now)
    BY <1>3, <2>1, AssessmentIsOfTheItem
  <2>3. assess_task_recovery(b, now) # NoValue
    BY <2>1, <2>2
  <2>4. assess_task_recovery(b, now).kind = "task"
    BY <2>3 DEF assess_task_recovery
  <2> QED
    BY <1>3, <2>1, <2>2, <2>4
<1> QED
  BY <1>1, <1>2, <1>3 DEF Kinds

-----------------------------------------------------------------------------
(* The inductive invariant *)

Elements(q) == {q[n] : n \in DOMAIN q}

\* A draft says what the policy makes of its item and rule at some time.
Assessed(d, now) ==
    /\ d.target \in Targets /\ d.item \in Items[d.target] /\ d.rule \in Rules[d.target]
    /\ d.facts = assess(at(d.target, d.item, d.rule, now), now)
    /\ d.facts # NoValue /\ d.facts.required

\* A scan r is done with target t: an action that t needed when the scan began
\* has its signal, or t is an issue, or t has changed since.
Dealt(r, t, cat, chg, box) ==
    LET facts == assess(at(t, cat[t].subject, cat[t].policy, r.now), r.now)
    IN (t \notin r.issues /\ chg[t] < r.now /\ facts # NoValue /\ facts.required) =>
           \E d \in box : d.target = t /\ d.facts = facts

\* What a scan offers is what it found for the target it is at.
Offer(r, cat, chg) ==
    LET t == r.draft.target
    IN /\ t = Head(r.rest)
       /\ Assessed(r.draft, r.now)
       /\ chg[t] < r.now => r.draft.item = cat[t].subject /\ r.draft.rule = cat[t].policy

ScanFields == {"phase", "now", "rest", "draft", "issues"}

\* The progress of one scan, against the catalog, the changes, the inbox and
\* the clock.
ScanGood(r, cat, chg, box, clk) ==
    /\ DOMAIN r = ScanFields
    /\ r.phase \in Phases /\ r.issues \subseteq Targets
    /\ r.phase # "upsert" => r.draft = NoValue
    /\ r.phase \in {"detect", "upsert", "done"} =>
           /\ r.now \in 0 .. clk /\ r.rest \in Seq(Targets)
           /\ r.rest = <<>> <=> r.phase = "done"
           /\ \A t \in Targets \ Elements(r.rest) : Dealt(r, t, cat, chg, box)
    /\ r.phase = "upsert" => Offer(r, cat, chg)

\* A key is stored once, with facts that were really assessed.
InboxGood(box) ==
    /\ \A d \in box : \E now \in 0 .. MaxTime : Assessed(d, now)
    /\ \A d, e \in box : derive_signal_dedup_key(d) = derive_signal_dedup_key(e) => d = e

ScanInv ==
    /\ clock \in 0 .. MaxTime
    /\ DOMAIN catalog = Targets
    /\ \A t \in Targets : catalog[t] \in [subject : Items[t], policy : Rules[t]]
    /\ changed_at \in [Targets -> 0 .. MaxTime]
    /\ changes \in 0 .. MaxChanges /\ faults \in 0 .. MaxFaults
    /\ InboxGood(inbox)
    /\ DOMAIN scan = Scans
    /\ \A s \in Scans : ScanGood(scan[s], catalog, changed_at, inbox, clock)

-----------------------------------------------------------------------------
(* What keeps a scan good *)

\* A larger inbox and a later time.
LEMMA GrowKeeps ==
    ASSUME NEW r, NEW cat, NEW chg, NEW box, NEW box2, NEW clk \in Nat, NEW clk2 \in Nat,
           ScanGood(r, cat, chg, box, clk), box \subseteq box2, clk <= clk2
    PROVE  ScanGood(r, cat, chg, box2, clk2)
<1>1. \A t : Dealt(r, t, cat, chg, box) => Dealt(r, t, cat, chg, box2)
  BY DEF Dealt
<1>2. r.now \in 0 .. clk => r.now \in 0 .. clk2
  OBVIOUS
<1> QED
  BY <1>1, <1>2 DEF ScanGood

\* A change of a target: no scan that began before is bound by it any more.
LEMMA ChangeKeeps ==
    ASSUME NEW r, NEW cat, NEW cat2, NEW chg, NEW chg2, NEW box, NEW clk \in Nat, NEW x \in Targets,
           ScanGood(r, cat, chg, box, clk),
           chg2[x] = clk, \A t \in Targets \ {x} : cat2[t] = cat[t] /\ chg2[t] = chg[t]
    PROVE  ScanGood(r, cat2, chg2, box, clk)
<1>1. r.now \in 0 .. clk => ~ (chg2[x] < r.now)
  OBVIOUS
<1>2. ASSUME r.now \in 0 .. clk, NEW t \in Targets, Dealt(r, t, cat, chg, box)
      PROVE  Dealt(r, t, cat2, chg2, box)
  <2>1. CASE t = x
    BY <1>1, <1>2, <2>1 DEF Dealt
  <2>2. CASE t # x
    BY <1>2, <2>2 DEF Dealt
  <2> QED
    BY <2>1, <2>2
<1>3. ASSUME r.now \in 0 .. clk, Offer(r, cat, chg)
      PROVE  Offer(r, cat2, chg2)
  <2>1. r.draft.target \in Targets
    BY <1>3 DEF Offer, Assessed
  <2> QED
    BY <1>1, <1>3, <2>1 DEF Offer
<1> QED
  BY <1>2, <1>3 DEF ScanGood

\* The last element of a queue is its only one.
LEMMA QueueShrinks ==
    ASSUME NEW S, NEW q \in Seq(S), q # <<>>
    PROVE  /\ Head(q) \in S /\ Tail(q) \in Seq(S)
           /\ Tail(q) = <<>> <=> Len(q) = 1
           /\ Elements(q) \subseteq Elements(Tail(q)) \cup {Head(q)}
<1>1. /\ Head(q) \in S /\ Tail(q) \in Seq(S) /\ Len(Tail(q)) = Len(q) - 1
      /\ \A i \in 1 .. Len(Tail(q)) : Tail(q)[i] = q[i + 1]
  BY HeadTailProperties
<1>2. Len(q) \in Nat \ {0} /\ DOMAIN q = 1 .. Len(q)
  BY EmptySeq
<1>3. Tail(q) = <<>> <=> Len(q) = 1
  <2>1. PICK u \in Seq(S) : u = Tail(q)
    BY <1>1
  <2>2. u = <<>> <=> Len(u) = 0
    BY EmptySeq
  <2> QED
    BY <1>1, <1>2, <2>1, <2>2
<1>4. ASSUME NEW n \in DOMAIN q PROVE q[n] \in Elements(Tail(q)) \cup {Head(q)}
  <2>1. CASE n = 1
    BY <2>1
  <2>2. CASE n # 1
    <3>1. PICK m : m = n - 1
      OBVIOUS
    <3>2. m \in 1 .. Len(Tail(q)) /\ m + 1 = n
      BY <1>1, <1>2, <2>2, <3>1
    <3>3. Tail(q)[m] = q[n]
      BY <1>1, <3>2
    <3>4. m \in DOMAIN Tail(q)
      BY <1>1, <3>2
    <3> QED
      BY <3>3, <3>4 DEF Elements
  <2> QED
    BY <2>1, <2>2
<1> QED
  BY <1>1, <1>3, <1>4 DEF Elements

\* The loop goes on once the target it is at is dealt with.
LEMMA AfterTargetIsGood ==
    ASSUME NEW r, NEW cat, NEW chg, NEW box, NEW clk,
           DOMAIN r = ScanFields, r.issues \subseteq Targets, r.now \in 0 .. clk,
           r.rest \in Seq(Targets), r.rest # <<>>,
           \A t \in Targets \ Elements(r.rest) : Dealt(r, t, cat, chg, box),
           Dealt(r, Head(r.rest), cat, chg, box)
    PROVE  ScanGood(after_target(r), cat, chg, box, clk)
<1>1. PICK a : a = after_target(r)
  OBVIOUS
<1>2. /\ DOMAIN a = ScanFields /\ a.issues = r.issues /\ a.now = r.now
      /\ a.rest = Tail(r.rest) /\ a.draft = NoValue
      /\ a.phase = IF Len(r.rest) = 1 THEN "done" ELSE "detect"
  BY <1>1 DEF after_target, ScanFields
<1>3. /\ Tail(r.rest) \in Seq(Targets)
      /\ Tail(r.rest) = <<>> <=> Len(r.rest) = 1
      /\ Elements(r.rest) \subseteq Elements(Tail(r.rest)) \cup {Head(r.rest)}
  BY QueueShrinks
<1>4. \A t \in Targets \ Elements(a.rest) : Dealt(a, t, cat, chg, box)
  <2>1. \A t : Dealt(a, t, cat, chg, box) <=> Dealt(r, t, cat, chg, box)
    BY <1>2 DEF Dealt
  <2> QED
    BY <1>2, <1>3, <2>1
<1>5. a.phase \in {"done", "detect"} /\ (a.rest = <<>> <=> a.phase = "done")
  BY <1>2, <1>3
<1>6. ScanGood(a, cat, chg, box, clk)
  BY <1>2, <1>3, <1>4, <1>5 DEF ScanGood, Phases
<1> QED
  BY <1>1, <1>6

\* A step of one scan that leaves the catalog alone.
LEMMA ScanStepKeeps ==
    ASSUME ScanInv, NEW s \in Scans, NEW r, scan' = [scan EXCEPT ![s] = r],
           UNCHANGED <<clock, catalog, changed_at, changes>>, faults' \in 0 .. MaxFaults,
           inbox \subseteq inbox', InboxGood(inbox'),
           ScanGood(r, catalog, changed_at, inbox', clock)
    PROVE  ScanInv'
<1>1. clock \in Nat
  BY DEF ScanInv
<1>2. ASSUME NEW x \in Scans PROVE ScanGood(scan'[x], catalog, changed_at, inbox', clock)
  <2>1. ScanGood(scan[x], catalog, changed_at, inbox, clock)
    BY DEF ScanInv
  <2>2. ScanGood(scan[x], catalog, changed_at, inbox', clock)
    <3>1. PICK box2 : box2 = inbox'
      OBVIOUS
    <3> QED
      BY <1>1, <2>1, <3>1, GrowKeeps
  <2> QED
    BY <2>2 DEF ScanInv
<1>3. DOMAIN scan' = Scans
  BY DEF ScanInv
<1> QED
  BY <1>2, <1>3 DEF ScanInv

-----------------------------------------------------------------------------
(* The steps *)

\* The targets are scenarios, and the watchlist is one of targets.
LEMMA WatchlistIsOfTargets ==
    /\ Targets \subseteq Kinds
    /\ Watchlist \in Seq(Targets) /\ Watchlist # <<>> /\ Elements(Watchlist) = Targets
<1>1. Watchlist \in Seq(Kinds) /\ Watchlist # <<>>
  BY ScanAssumption
<1>2. \A n \in 1 .. Len(Watchlist) : Watchlist[n] \in Targets /\ Watchlist[n] \in Kinds
  BY <1>1 DEF Targets
<1>3. Watchlist \in Seq(Targets)
  BY <1>1, <1>2
<1> QED
  BY <1>1, <1>2, <1>3 DEF Targets, Elements

\* Time passes and a scan's own time stays.
LEMMA TickStep ==
    ASSUME ScanInv, Tick
    PROVE  ScanInv'
<1>1. /\ clock \in Nat /\ clock' \in Nat /\ clock <= clock' /\ clock' \in 0 .. MaxTime
      /\ UNCHANGED <<catalog, changed_at, inbox, scan, changes, faults>>
  BY ScanAssumption DEF Tick, ScanInv
<1>2. ASSUME NEW s \in Scans PROVE ScanGood(scan[s], catalog, changed_at, inbox, clock')
  <2>1. PICK later \in Nat : later = clock'
    BY <1>1
  <2>2. ScanGood(scan[s], catalog, changed_at, inbox, clock)
    BY DEF ScanInv
  <2> QED
    BY <1>1, <2>1, <2>2, GrowKeeps
<1> QED
  BY <1>1, <1>2 DEF ScanInv

\* An entry of the catalog changes.
LEMMA ReplaceStep ==
    ASSUME ScanInv, NEW x \in Targets, replace_item(x)
    PROVE  ScanInv'
<1>1. /\ UNCHANGED <<clock, inbox, scan, faults>>
      /\ changes' \in 0 .. MaxChanges
      /\ changed_at' = [changed_at EXCEPT ![x] = clock]
      /\ clock \in 0 .. MaxTime
  BY ScanAssumption DEF replace_item, ScanInv
<1>2. PICK i \in Items[x] : catalog' = [catalog EXCEPT ![x].subject = i]
  BY DEF replace_item
<1>3. /\ DOMAIN catalog' = Targets
      /\ \A t \in Targets : catalog'[t] \in [subject : Items[t], policy : Rules[t]]
      /\ \A t \in Targets \ {x} : catalog'[t] = catalog[t]
  BY <1>2 DEF ScanInv
<1>4. /\ changed_at' \in [Targets -> 0 .. MaxTime] /\ changed_at'[x] = clock
      /\ \A t \in Targets \ {x} : changed_at'[t] = changed_at[t]
  BY <1>1 DEF ScanInv
<1>5. ASSUME NEW s \in Scans PROVE ScanGood(scan[s], catalog', changed_at', inbox, clock)
  <2>1. PICK cat2 : cat2 = catalog'
    OBVIOUS
  <2>2. PICK chg2 : chg2 = changed_at'
    OBVIOUS
  <2>3. ScanGood(scan[s], catalog, changed_at, inbox, clock)
    BY DEF ScanInv
  <2>4. \A t \in Targets \ {x} : cat2[t] = catalog[t] /\ chg2[t] = changed_at[t]
    BY <1>3, <1>4, <2>1, <2>2
  <2>5. chg2[x] = clock /\ clock \in Nat
    BY <1>1, <1>4, <2>2
  <2>6. ScanGood(scan[s], cat2, chg2, inbox, clock)
    BY <2>3, <2>4, <2>5, ChangeKeeps
  <2> QED
    BY <2>1, <2>2, <2>6
<1> QED
  BY <1>1, <1>3, <1>4, <1>5 DEF ScanInv

\* A scan begins with every target before it.
LEMMA BeginStep ==
    ASSUME ScanInv, NEW s \in Scans, begin(s)
    PROVE  ScanInv'
<1>1. PICK r : r = [idle EXCEPT !.phase = "detect", !.now = clock, !.rest = Watchlist]
  OBVIOUS
<1>2. /\ DOMAIN r = ScanFields /\ r.phase = "detect" /\ r.now = clock /\ r.rest = Watchlist
      /\ r.draft = NoValue /\ r.issues = {}
  BY <1>1 DEF idle, ScanFields
<1>3. clock \in 0 .. clock
  BY DEF ScanInv
<1>4. ScanGood(r, catalog, changed_at, inbox, clock)
  BY <1>2, <1>3, WatchlistIsOfTargets DEF ScanGood, Phases
<1>5. /\ scan' = [scan EXCEPT ![s] = r] /\ inbox' = inbox
      /\ UNCHANGED <<clock, catalog, changed_at, changes>> /\ faults' \in 0 .. MaxFaults
      /\ InboxGood(inbox')
  BY <1>1 DEF begin, ScanInv
<1> QED
  BY <1>4, <1>5, ScanStepKeeps

\* A scan that has returned may be called again.
LEMMA ReturnStep ==
    ASSUME ScanInv, NEW s \in Scans, return(s)
    PROVE  ScanInv'
<1>1. PICK r : r = idle
  OBVIOUS
<1>2. DOMAIN r = ScanFields /\ r.phase = "idle" /\ r.draft = NoValue /\ r.issues = {}
  BY <1>1 DEF idle, ScanFields
<1>3. ScanGood(r, catalog, changed_at, inbox, clock)
  BY <1>2 DEF ScanGood, Phases
<1>4. /\ scan' = [scan EXCEPT ![s] = r] /\ inbox' = inbox
      /\ UNCHANGED <<clock, catalog, changed_at, changes>> /\ faults' \in 0 .. MaxFaults
      /\ InboxGood(inbox')
  BY <1>1 DEF return, ScanInv
<1> QED
  BY <1>3, <1>4, ScanStepKeeps

\* The facts of a target are those it had when the scan began, unless it has
\* changed since; without facts, or with an exception, it is an issue.
LEMMA DetectStep ==
    ASSUME ScanInv, NEW s \in Scans, detect(s)
    PROVE  ScanInv'
<1>1. PICK r : r = scan[s]
  OBVIOUS
<1>2. PICK t : t = Head(r.rest)
  OBVIOUS
<1>3. PICK facts : facts = assess(at(t, catalog[t].subject, catalog[t].policy, clock), r.now)
  OBVIOUS
<1>4. /\ r.phase = "detect"
      /\ ScanGood(r, catalog, changed_at, inbox, clock)
      /\ UNCHANGED <<clock, catalog, changed_at, inbox, changes>>
      /\ faults' \in 0 .. MaxFaults /\ InboxGood(inbox')
  BY <1>1, ScanAssumption DEF detect, ScanInv
<1>5. /\ DOMAIN r = ScanFields /\ r.issues \subseteq Targets /\ r.now \in 0 .. clock
      /\ r.rest \in Seq(Targets) /\ r.rest # <<>>
      /\ \A x \in Targets \ Elements(r.rest) : Dealt(r, x, catalog, changed_at, inbox)
  BY <1>4 DEF ScanGood
<1>6. t \in Targets /\ t \in Kinds
  BY <1>2, <1>5, QueueShrinks, WatchlistIsOfTargets
<1>7. /\ catalog[t].subject \in Items[t] /\ catalog[t].policy \in Rules[t]
      /\ ValidSeed(t, catalog[t].subject, catalog[t].policy)
  BY <1>6, ScanAssumption DEF ScanInv
<1>8. r.now \in Nat /\ clock \in Nat /\ r.now <= clock /\ r.now \in 0 .. MaxTime
  BY <1>5, ScanAssumption DEF ScanInv
<1>9. facts = assess(at(t, catalog[t].subject, catalog[t].policy, r.now), r.now)
  <2>1. r.now <= r.now
    BY <1>8
  <2> QED
    BY <1>3, <1>6, <1>7, <1>8, <2>1, AssessmentIsOfTheItem
<1>10. ASSUME NEW new, scan' = [scan EXCEPT ![s] = new],
              ScanGood(new, catalog, changed_at, inbox, clock)
       PROVE  ScanInv'
  BY <1>4, <1>10, ScanStepKeeps
<1>11. PICK issue : issue = after_target([r EXCEPT !.issues = @ \cup {t}])
  OBVIOUS
<1>12. ScanGood(issue, catalog, changed_at, inbox, clock)
  <2>1. PICK q : q = [r EXCEPT !.issues = @ \cup {t}]
    OBVIOUS
  <2>2. /\ DOMAIN q = ScanFields /\ q.issues = r.issues \cup {t} /\ q.now = r.now /\ q.rest = r.rest
    BY <1>5, <2>1 DEF ScanFields
  <2>3. \A x : Dealt(r, x, catalog, changed_at, inbox) => Dealt(q, x, catalog, changed_at, inbox)
    BY <2>2 DEF Dealt
  <2>4. Dealt(q, t, catalog, changed_at, inbox)
    BY <2>2 DEF Dealt
  <2>5. ScanGood(after_target(q), catalog, changed_at, inbox, clock)
    BY <1>2, <1>5, <1>6, <2>2, <2>3, <2>4, AfterTargetIsGood
  <2> QED
    BY <1>11, <2>1, <2>5
<1>13. ASSUME facts # NoValue, ~ facts.required
       PROVE  ScanGood(after_target(r), catalog, changed_at, inbox, clock)
  <2>1. Dealt(r, t, catalog, changed_at, inbox)
    BY <1>9, <1>13 DEF Dealt
  <2> QED
    BY <1>2, <1>5, <2>1, AfterTargetIsGood
<1>14. PICK draft : draft = [target |-> t, facts |-> facts, item |-> catalog[t].subject,
                             rule |-> catalog[t].policy]
  OBVIOUS
<1>15. PICK offer : offer = [r EXCEPT !.phase = "upsert", !.draft = draft]
  OBVIOUS
<1>16. ASSUME facts # NoValue, facts.required
       PROVE  ScanGood(offer, catalog, changed_at, inbox, clock)
  <2>1. /\ DOMAIN offer = ScanFields /\ offer.phase = "upsert" /\ offer.draft = draft
        /\ offer.now = r.now /\ offer.rest = r.rest /\ offer.issues = r.issues
    BY <1>5, <1>15 DEF ScanFields
  <2>2. /\ draft.target = t /\ draft.facts = facts /\ draft.item = catalog[t].subject
        /\ draft.rule = catalog[t].policy
    BY <1>14
  <2>3. Assessed(draft, r.now)
    BY <1>6, <1>7, <1>9, <1>16, <2>2 DEF Assessed
  <2>4. Offer(offer, catalog, changed_at)
    BY <1>2, <2>1, <2>2, <2>3 DEF Offer
  <2>5. \A x : Dealt(r, x, catalog, changed_at, inbox) => Dealt(offer, x, catalog, changed_at, inbox)
    BY <2>1 DEF Dealt
  <2> QED
    BY <1>5, <2>1, <2>4, <2>5 DEF ScanGood, Phases
<1>17. \/ scan' = [scan EXCEPT ![s] = issue]
       \/ facts # NoValue /\ ~ facts.required /\ scan' = [scan EXCEPT ![s] = after_target(r)]
       \/ facts # NoValue /\ facts.required /\ scan' = [scan EXCEPT ![s] = offer]
  BY <1>1, <1>2, <1>3, <1>11, <1>14, <1>15 DEF detect, at, build_signal_draft
<1> QED
  BY <1>10, <1>12, <1>13, <1>16, <1>17

\* The upsert stores what the scan offers, or finds it stored: the same target
\* with the same facts.
LEMMA UpsertStep ==
    ASSUME ScanInv, NEW s \in Scans, upsert_detected(s)
    PROVE  ScanInv'
<1>1. PICK r : r = scan[s]
  OBVIOUS
<1>2. PICK t : t = Head(r.rest)
  OBVIOUS
<1>3. PICK d : d = r.draft
  OBVIOUS
<1>4. /\ r.phase = "upsert"
      /\ ScanGood(r, catalog, changed_at, inbox, clock)
      /\ UNCHANGED <<clock, catalog, changed_at, changes>>
      /\ faults' \in 0 .. MaxFaults
  BY <1>1, ScanAssumption DEF upsert_detected, ScanInv
<1>5. /\ DOMAIN r = ScanFields /\ r.issues \subseteq Targets /\ r.now \in 0 .. clock
      /\ r.rest \in Seq(Targets) /\ r.rest # <<>>
      /\ \A x \in Targets \ Elements(r.rest) : Dealt(r, x, catalog, changed_at, inbox)
      /\ Offer(r, catalog, changed_at)
  BY <1>4 DEF ScanGood
<1>6. /\ d.target = t /\ Assessed(d, r.now)
      /\ changed_at[t] < r.now => d.item = catalog[t].subject /\ d.rule = catalog[t].policy
  BY <1>2, <1>3, <1>5 DEF Offer
<1>7. CASE /\ scan' = [scan EXCEPT ![s] = after_target(scan[s])]
           /\ inbox' = IF \E e \in inbox : derive_signal_dedup_key(e) = derive_signal_dedup_key(d)
                       THEN inbox ELSE inbox \cup {d}
  <2>1. inbox \subseteq inbox'
    BY <1>7
  <2>2. InboxGood(inbox')
    <3>1. r.now \in 0 .. MaxTime
      BY <1>5, ScanAssumption DEF ScanInv
    <3>2. InboxGood(inbox)
      BY DEF ScanInv
    <3> QED
      BY <1>6, <1>7, <3>1, <3>2 DEF InboxGood
  <2>3. \E e \in inbox' : e.target = t /\ e.facts = d.facts
    <3>1. CASE \E e \in inbox : derive_signal_dedup_key(e) = derive_signal_dedup_key(d)
      <4>1. PICK e \in inbox : derive_signal_dedup_key(e) = derive_signal_dedup_key(d)
        BY <3>1
      <4>2. e.target = d.target /\ e.facts = d.facts
        BY <4>1 DEF derive_signal_dedup_key
      <4> QED
        BY <1>6, <2>1, <4>2
    <3>2. CASE ~ \E e \in inbox : derive_signal_dedup_key(e) = derive_signal_dedup_key(d)
      BY <1>6, <1>7, <3>2
    <3> QED
      BY <3>1, <3>2
  <2>4. PICK box : box = inbox'
    OBVIOUS
  <2>5. Dealt(r, t, catalog, changed_at, box)
    BY <1>6, <2>3, <2>4 DEF Dealt, Assessed
  <2>6. \A x : Dealt(r, x, catalog, changed_at, inbox) => Dealt(r, x, catalog, changed_at, box)
    BY <2>1, <2>4 DEF Dealt
  <2>7. ScanGood(after_target(r), catalog, changed_at, box, clock)
    BY <1>2, <1>5, <2>5, <2>6, AfterTargetIsGood
  <2> QED
    BY <1>1, <1>4, <1>7, <2>1, <2>2, <2>4, <2>7, ScanStepKeeps
<1>8. CASE scan' = [scan EXCEPT ![s].phase = "raised", ![s].draft = NoValue] /\ inbox' = inbox
  <2>1. PICK q : q = [r EXCEPT !.phase = "raised", !.draft = NoValue]
    OBVIOUS
  <2>2. DOMAIN q = ScanFields /\ q.phase = "raised" /\ q.draft = NoValue /\ q.issues = r.issues
    BY <1>5, <2>1 DEF ScanFields
  <2>3. ScanGood(q, catalog, changed_at, inbox, clock)
    BY <1>5, <2>2 DEF ScanGood, Phases
  <2>4. scan' = [scan EXCEPT ![s] = q]
    BY <1>1, <1>8, <2>1 DEF ScanInv
  <2>5. InboxGood(inbox')
    BY <1>8 DEF ScanInv
  <2> QED
    BY <1>4, <1>8, <2>3, <2>4, <2>5, ScanStepKeeps
<1> QED
  BY <1>1, <1>3, <1>7, <1>8 DEF upsert_detected

-----------------------------------------------------------------------------
(* The theorems *)

\* ScanInv holds of the initial states and is kept by every step.
LEMMA ScanInvariant == ScanSpec => []ScanInv
<1>1. ASSUME Init PROVE ScanInv
  <2>1. /\ clock = 0 /\ inbox = {} /\ changes = 0 /\ faults = 0
        /\ scan = [s \in Scans |-> idle] /\ changed_at = [t \in Targets |-> 0]
    BY <1>1 DEF Init
  <2>2. /\ DOMAIN catalog = Targets
        /\ \A t \in Targets : catalog[t] \in [subject : Items[t], policy : Rules[t]]
    <3>1. DOMAIN catalog = Targets
      BY <1>1 DEF Init
    <3>2. ASSUME NEW t \in Targets
          PROVE  catalog[t] \in [subject : Items[t], policy : Rules[t]]
      <4>1. PICK x \in Targets : catalog[t] \in [subject : Items[x], policy : Rules[x]]
        BY <1>1, <3>2 DEF Init
      <4>2. catalog[t].subject \in Items[t] /\ catalog[t].policy \in Rules[t]
        BY <1>1 DEF Init
      <4> QED
        BY <4>1, <4>2
    <3> QED
      BY <3>1, <3>2
  <2>3. ASSUME NEW s \in Scans PROVE ScanGood(scan[s], catalog, changed_at, inbox, clock)
    <3>1. PICK r : r = idle
      OBVIOUS
    <3>2. DOMAIN r = ScanFields /\ r.phase = "idle" /\ r.draft = NoValue /\ r.issues = {}
      BY <3>1 DEF idle, ScanFields
    <3>3. ScanGood(r, catalog, changed_at, inbox, clock)
      BY <3>2 DEF ScanGood, Phases
    <3> QED
      BY <2>1, <3>1, <3>3
  <2>4. InboxGood(inbox)
    BY <2>1 DEF InboxGood
  <2> QED
    BY <2>1, <2>2, <2>3, <2>4, ScanAssumption DEF ScanInv
<1>2. ScanInv /\ [Next]_scanVars => ScanInv'
  <2>1. ASSUME ScanInv, UNCHANGED scanVars PROVE ScanInv'
    BY <2>1 DEF ScanInv, scanVars
  <2> QED
    BY <2>1, TickStep, ReplaceStep, BeginStep, DetectStep, UpsertStep, ReturnStep DEF Next
<1> QED
  BY <1>1, <1>2, PTL DEF ScanSpec

\* Every stored signal names the scenario of its facts, and no scan keeps a
\* draft that it does not offer.
THEOREM ScanTypes == ScanSpec => []ScanTypeOK
<1>1. ASSUME ScanInv PROVE ScanTypeOK
  <2>1. ASSUME NEW d \in inbox PROVE d.target \in Targets /\ d.facts.kind = d.target
    <3>1. PICK now \in 0 .. MaxTime : Assessed(d, now)
      BY <1>1 DEF ScanInv, InboxGood
    <3>2. ValidSeed(d.target, d.item, d.rule) /\ d.target \in Kinds /\ now \in Nat
      BY <3>1, WatchlistIsOfTargets, ScanAssumption DEF Assessed
    <3> QED
      BY <3>1, <3>2, FactsNameScenario DEF Assessed
  <2>2. ASSUME NEW s \in Scans
        PROVE  /\ scan[s].phase \in Phases /\ scan[s].issues \subseteq Targets
               /\ scan[s].phase # "upsert" => scan[s].draft = NoValue
    BY <1>1 DEF ScanInv, ScanGood
  <2> QED
    BY <1>1, <2>1, <2>2 DEF ScanInv, ScanTypeOK
<1> QED
  BY <1>1, ScanInvariant, PTL

\* A condition that stays as it is yields one signal, whenever and by whomever
\* it is scanned (_detect, upsert_detected), for every catalog and watchlist; of
\* the versions of a source only a machine's count.
THEOREM ScanUnchangedConditionIsOneSignal == ScanSpec => []UnchangedConditionIsOneSignal
<1>1. ASSUME ScanInv PROVE UnchangedConditionIsOneSignal
  <2> SUFFICES ASSUME NEW d \in inbox, NEW e \in inbox,
                      d # e, d.target = e.target, d.rule = e.rule,
                      \A field \in Conditions[d.target] : d.item[field] = e.item[field]
               PROVE  /\ d.target = "equipment"
                      /\ \/ d.facts.heartbeat_stale # e.facts.heartbeat_stale
                         \/ d.item.source_version # e.item.source_version
    BY DEF UnchangedConditionIsOneSignal
  <2>1. PICK m \in 0 .. MaxTime : Assessed(d, m)
    BY <1>1 DEF ScanInv, InboxGood
  <2>2. PICK n \in 0 .. MaxTime : Assessed(e, n)
    BY <1>1 DEF ScanInv, InboxGood
  <2>3. d.facts # e.facts
    BY <1>1 DEF ScanInv, InboxGood, derive_signal_dedup_key
  <2>4. /\ ValidSeed(d.target, d.item, d.rule) /\ ValidSeed(d.target, e.item, d.rule)
        /\ d.target \in Kinds /\ m \in Nat /\ n \in Nat
    BY <2>1, <2>2, WatchlistIsOfTargets, ScanAssumption DEF Assessed
  <2>5. PICK f : f = d.facts
    OBVIOUS
  <2>6. PICK g : g = e.facts
    OBVIOUS
  <2>7. /\ f = assess(at(d.target, d.item, d.rule, m), m) /\ f # NoValue /\ f.required
        /\ g = assess(at(d.target, e.item, d.rule, n), n) /\ g # NoValue /\ g.required
        /\ f # g
    BY <2>1, <2>2, <2>3, <2>5, <2>6 DEF Assessed
  <2> QED
    BY <2>4, <2>5, <2>6, <2>7, AssessmentsAgree
<1> QED
  BY <1>1, ScanInvariant, PTL

\* A scan that returned has dealt with every target of the watchlist that did
\* not change meanwhile (SignalDetector.scan): none is lost because another
\* failed, was out of policy or was stored by another scan.
THEOREM ScanReturnedScanMissedNothing == ScanSpec => []ReturnedScanMissedNothing
<1>1. ASSUME ScanInv PROVE ReturnedScanMissedNothing
  <2>1. ASSUME NEW s \in Scans, NEW t \in Targets, scan[s].phase = "done"
        PROVE  Dealt(scan[s], t, catalog, changed_at, inbox)
    <3>1. ScanGood(scan[s], catalog, changed_at, inbox, clock)
      BY <1>1 DEF ScanInv
    <3>2. scan[s].rest = <<>>
      BY <2>1, <3>1 DEF ScanGood
    <3>3. Elements(scan[s].rest) = {}
      BY <3>2 DEF Elements
    <3> QED
      BY <2>1, <3>1, <3>3 DEF ScanGood
  <2> QED
    BY <2>1 DEF Dealt, at, ReturnedScanMissedNothing
<1> QED
  BY <1>1, ScanInvariant, PTL

===============================================================================
