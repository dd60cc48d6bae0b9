------------------------------ MODULE SignalScan ------------------------------
(***************************************************************************)
(* Detection of operational signals: a scan reads every target of the      *)
(* watchlist past the cache, assesses it with the policy at the time the   *)
(* scan began, and offers what needs attention to the inbox, one awaited   *)
(* target after the other.  Scans of several users may run side by side.   *)
(***************************************************************************)
EXTENDS ScenarioPolicy, Sequences

CONSTANTS
    Scans,          \* the calls of the scan endpoint
    Watchlist,      \* DEFAULT_SIGNAL_TARGETS: a sequence of one target per scenario
    Items, Rules,   \* per target: what the catalog may say of it
    MaxTime,        \* bound on the clock
    MaxChanges,     \* bound on changes of the catalog
    MaxFaults       \* bound on failing calls

ASSUME ScanAssumption ==
    /\ Watchlist \in Seq(Kinds) \ {<<>>} /\ Cardinality({Watchlist[n] : n \in DOMAIN Watchlist}) = Len(Watchlist)
    /\ \A t \in Kinds : \A i \in Items[t], p \in Rules[t] : ValidSeed(t, i, p)
    /\ {MaxTime, MaxChanges, MaxFaults} \subseteq Nat

VARIABLES
    clock,
    catalog,        \* per target: [subject, policy]
    changed_at,     \* per target: when its entry last changed
    inbox,          \* the dedup keys of the stored signals, with what was read
    scan,           \* the progress of each scan
    changes, faults

scanVars == <<clock, catalog, changed_at, inbox, scan, changes, faults>>

Targets == {Watchlist[n] : n \in DOMAIN Watchlist}
Phases == {"idle", "detect", "upsert", "done", "raised"}
idle == [phase |-> "idle", now |-> 0, rest |-> <<>>, draft |-> NoValue, issues |-> {}]

Init ==
    /\ clock = 0
    /\ catalog \in [Targets -> UNION {[subject : Items[t], policy : Rules[t]] : t \in Targets}]
    /\ \A t \in Targets : catalog[t].subject \in Items[t] /\ catalog[t].policy \in Rules[t]
    /\ changed_at = [t \in Targets |-> 0]
    /\ inbox = {}
    /\ scan = [s \in Scans |-> idle]
    /\ changes = 0 /\ faults = 0

-----------------------------------------------------------------------------
Tick ==
    /\ clock < MaxTime
    /\ clock' = clock + 1
    /\ UNCHANGED <<catalog, changed_at, inbox, scan, changes, faults>>

replace_item(t) ==
    /\ changes < MaxChanges
    /\ changes' = changes + 1
    /\ \E i \in Items[t] \ {catalog[t].subject} : catalog' = [catalog EXCEPT ![t].subject = i]
    /\ changed_at' = [changed_at EXCEPT ![t] = clock]
    /\ UNCHANGED <<clock, inbox, scan, faults>>

begin(s) ==
    /\ scan[s].phase = "idle"
    /\ scan' = [scan EXCEPT ![s] = [idle EXCEPT !.phase = "detect", !.now = clock, !.rest = Watchlist]]
    /\ UNCHANGED <<clock, catalog, changed_at, inbox, changes, faults>>

\* The loop goes on with the next target, or the scan returns its result.
after_target(r) == [r EXCEPT !.rest = Tail(@), !.draft = NoValue,
                             !.phase = IF Len(r.rest) = 1 THEN "done" ELSE "detect"]

\* One signal per dedup key: scenario, object and digest of the facts.
build_signal_draft(t, bundle, facts) ==
    [target |-> t, facts |-> facts, item |-> bundle.subject.item, rule |-> bundle.policy.item]
derive_signal_dedup_key(draft) == <<draft.target, draft.facts>>

\* Mutant: the first issue ends the scan.
mutant_detect(s) ==
    /\ scan[s].phase = "detect"
    /\ LET t == Head(scan[s].rest)
           bundle == [kind |-> t, subject |-> [item |-> catalog[t].subject, captured_at |-> clock],
                      policy |-> [item |-> catalog[t].policy, captured_at |-> clock]]
           facts == assess(bundle, scan[s].now)
           issue == [scan[s] EXCEPT !.issues = @ \cup {t}, !.phase = "done"]
       IN \/ /\ faults < MaxFaults
             /\ faults' = faults + 1
             /\ scan' = [scan EXCEPT ![s] = issue]
          \/ /\ UNCHANGED faults
             /\ scan' = [scan EXCEPT ![s] =
                    IF facts = NoValue \/ ~ snapshot_valid(t, catalog[t].subject, clock) THEN issue
                    ELSE IF ~ facts.required THEN after_target(scan[s])
                    ELSE [scan[s] EXCEPT !.phase = "upsert",
                                         !.draft = build_signal_draft(t, bundle, facts)]]
    /\ UNCHANGED <<clock, catalog, changed_at, inbox, changes>>

\* Any exception of a target is an issue of the scan, and the loop goes on:
\* a source that does not answer, and equally a need that is out of policy.
detect(s) ==
    /\ scan[s].phase = "detect"
    /\ LET t == Head(scan[s].rest)
           bundle == [kind |-> t, subject |-> [item |-> catalog[t].subject, captured_at |-> clock],
                      policy |-> [item |-> catalog[t].policy, captured_at |-> clock]]
           facts == assess(bundle, scan[s].now)
           issue == after_target([scan[s] EXCEPT !.issues = @ \cup {t}])
       IN \/ /\ faults < MaxFaults
             /\ faults' = faults + 1
             /\ scan' = [scan EXCEPT ![s] = issue]
          \/ /\ UNCHANGED faults
             /\ scan' = [scan EXCEPT ![s] =
                    IF facts = NoValue \/ ~ snapshot_valid(t, catalog[t].subject, clock) THEN issue
                    ELSE IF ~ facts.required THEN after_target(scan[s])
                    ELSE [scan[s] EXCEPT !.phase = "upsert",
                                         !.draft = build_signal_draft(t, bundle, facts)]]
    /\ UNCHANGED <<clock, catalog, changed_at, inbox, changes>>

\* The upsert keeps the first signal of a key; when it raises, the scan does.
upsert_detected(s) ==
    /\ scan[s].phase = "upsert"
    /\ \/ /\ inbox' = IF \E d \in inbox :
                          derive_signal_dedup_key(d) = derive_signal_dedup_key(scan[s].draft)
                      THEN inbox ELSE inbox \cup {scan[s].draft}
          /\ scan' = [scan EXCEPT ![s] = after_target(scan[s])]
          /\ UNCHANGED faults
       \/ /\ faults < MaxFaults
          /\ faults' = faults + 1
          /\ scan' = [scan EXCEPT ![s].phase = "raised", ![s].draft = NoValue]
          /\ UNCHANGED inbox
    /\ UNCHANGED <<clock, catalog, changed_at, changes>>

\* The endpoint may be called again.
return(s) ==
    /\ scan[s].phase \in {"done", "raised"}
    /\ scan' = [scan EXCEPT ![s] = idle]
    /\ UNCHANGED <<clock, catalog, changed_at, inbox, changes, faults>>

Next ==
    \/ Tick
    \/ \E t \in Targets : replace_item(t)
    \/ \E s \in Scans : begin(s) \/ detect(s) \/ upsert_detected(s) \/ return(s)

ScanSpec == Init /\ [][Next]_scanVars

-----------------------------------------------------------------------------
(* Properties *)

\* Type invariant.
ScanTypeOK ==
    /\ clock \in 0 .. MaxTime
    /\ changed_at \in [Targets -> 0 .. MaxTime]
    /\ \A d \in inbox : d.target \in Targets /\ d.facts.kind = d.target
    /\ \A s \in Scans :
        /\ scan[s].phase \in Phases
        /\ scan[s].issues \subseteq Targets
        /\ scan[s].phase # "upsert" => scan[s].draft = NoValue
    /\ changes \in 0 .. MaxChanges /\ faults \in 0 .. MaxFaults

\* What an operator would call the condition of an object.
Conditions == [inventory |-> {"on_hand_quantity", "reserved_quantity"},
               equipment |-> {"state", "severity", "alert_code", "last_heartbeat"},
               task |-> {"state", "blocker_code", "retry_count"}]

\* A condition that stays as it is yields one signal, however often and from
\* wherever it is scanned, and whatever new version its source is seeded with:
\* two signals of a target in the same condition under the same rule differ
\* only for a machine, and only if its heartbeat has become too old in between
\* or its source has a new version.
UnchangedConditionIsOneSignal ==
    \A d, e \in inbox :
        (/\ d # e /\ d.target = e.target /\ d.rule = e.rule
         /\ \A field \in Conditions[d.target] : d.item[field] = e.item[field]) =>
            /\ d.target = "equipment"
            /\ \/ d.facts.heartbeat_stale # e.facts.heartbeat_stale
               \/ d.item.source_version # e.item.source_version

\* A scan that returned has dealt with every target: one whose catalog entry
\* did not change since the scan began, and that needed an action then, has
\* its signal or is reported as an issue, also when another target failed.
ReturnedScanMissedNothing ==
    \A s \in Scans : \A t \in Targets :
        (scan[s].phase = "done" /\ t \notin scan[s].issues /\ changed_at[t] < scan[s].now) =>
            LET bundle == [kind |-> t,
                           subject |-> [item |-> catalog[t].subject, captured_at |-> scan[s].now],
                           policy |-> [item |-> catalog[t].policy, captured_at |-> scan[s].now]]
                facts == assess(bundle, scan[s].now)
            IN facts # NoValue /\ facts.required => \E d \in inbox : d.target = t /\ d.facts = facts
=============================================================================
