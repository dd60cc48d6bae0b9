---------------------------- MODULE SignalCases ----------------------------
(***************************************************************************)
(* The signal inbox as its users meet it: the case projection of           *)
(* SignalRepository.list_cases, one card for each business object, and the *)
(* scan, investigate and retry endpoints that act on the card's current    *)
(* signal, on top of the tables of OperationStore.                         *)
(*                                                                         *)
(* A page shows what list_cases returned when it was loaded and is acted   *)
(* on later.  An endpoint runs two transactions, the one that finds or     *)
(* inserts the signal and the one that starts its operation, and its       *)
(* request may die between them.  Of an operation only the way to an end   *)
(* without a work order and its failure are taken from the store.          *)
(***************************************************************************)
EXTENDS OperationStore, SequencesExt

CONSTANT Users      \* operators with a page of the inbox

VARIABLES
    order,          \* the signals, by detected_at
    page,           \* the signal and status a user's card shows
    posting         \* the signal that a request is about to start an operation for

caseVars == <<storeVars, order, page, posting>>

-----------------------------------------------------------------------------
(* list_cases *)

of_object(x) == SelectSeq(order, LAMBDA s : ObjectOf[signals[s].draft] = x)

roots(x) == SelectSeq(of_object(x), LAMBDA s : signals[s].pred \notin Range(of_object(x)))

\* The successor chain of a signal.
successor(s) == CHOOSE t \in Signals : signals[t].status # "absent" /\ signals[t].pred = s
chain[s \in Signals] == <<s>> \o IF has_successor(s) THEN chain[successor(s)] ELSE <<>>

\* Mutant: a case is the chain of its first signal.
mutant_ordered_lineage(x) == chain[Head(roots(x))]

\* _ordered_lineage: the chains of the roots, oldest root first.
ordered_lineage(x) == FlattenSeq([i \in DOMAIN roots(x) |-> chain[roots(x)[i]]])

\* Mutant: an actionable ancestor is preferred to a settled leaf.
mutant_current_signal(x) ==
    LET actionable == SelectSeq(ordered_lineage(x),
                          LAMBDA s : signals[s].status \in {"open", "attention_required"})
    IN  IF actionable # <<>> THEN Last(actionable) ELSE Last(ordered_lineage(x))

current_signal(x) == Last(ordered_lineage(x))

list_cases(u, x) ==
    /\ of_object(x) # <<>>
    /\ posting[u] = NoValue
    /\ page' = [page EXCEPT ![u] = [signal |-> current_signal(x),
                                    status |-> signals[current_signal(x)].status]]
    /\ page' # page
    /\ UNCHANGED <<storeVars, order, posting>>

-----------------------------------------------------------------------------
(* The endpoints *)

scan_signals(s, d) ==
    /\ upsert_detected(s, d)
    /\ order' = Append(order, s)
    /\ UNCHANGED <<page, posting>>

\* The button of an open card.
investigate_signal(u) ==
    /\ page[u] # NoValue /\ page[u].status = "open"
    /\ posting[u] = NoValue
    /\ posting' = [posting EXCEPT ![u] = page[u].signal]
    /\ page' = [page EXCEPT ![u] = NoValue]
    /\ UNCHANGED <<storeVars, order>>

\* The button of a card that needs attention: a successor, or the one there is.
retry_signal(u) ==
    LET p == page[u].signal IN
    /\ page[u] # NoValue /\ page[u].status = "attention_required"
    /\ posting[u] = NoValue
    /\ page' = [page EXCEPT ![u] = NoValue]
    /\ \E s \in Signals :
        /\ posting' = [posting EXCEPT ![u] = s]
        /\ \/ create_successor(s, p) /\ order' = Append(order, s)
           \/ signals[s].status # "absent" /\ signals[s].pred = p /\ UNCHANGED <<storeVars, order>>

\* runner.start, which claims the signal or is refused with a 409.
start(u) ==
    LET s == posting[u]
        req == [action |-> "create_work_order", object |-> ObjectOf[signals[s].draft], signal |-> s]
    IN  /\ s # NoValue
        /\ posting' = [posting EXCEPT ![u] = NoValue]
        /\ \/ \E o \in Operations : create(o, req)
           \/ signals[s].status # "open" /\ UNCHANGED storeVars
        /\ UNCHANGED <<order, page>>

request_dies(u) ==
    /\ posting[u] # NoValue
    /\ posting' = [posting EXCEPT ![u] = NoValue]
    /\ UNCHANGED <<storeVars, order, page>>

\* What the graph does with the operation, as far as its signal is concerned.
operation_goes_on(o) ==
    /\ \/ mark_gathering_evidence(o)
       \/ \E b \in Bundles : record_evidence(o, b)
       \/ \E b \in Bundles : snapshot[o].evidence = b /\ record_validated_plan(o, b, NoValue)
       \/ mark_reporting(o)
       \/ complete_without_replenishment(o, "not_required")
       \/ \E e \in Errors : mark_failed(o, e)
    /\ UNCHANGED <<order, page, posting>>

-----------------------------------------------------------------------------
CaseInit ==
    /\ Init
    /\ order = <<>>
    /\ page = [u \in Users |-> NoValue]
    /\ posting = [u \in Users |-> NoValue]

CaseNext ==
    \/ \E s \in Signals, d \in Drafts : scan_signals(s, d)
    \/ \E u \in Users :
        \/ \E x \in Objects : list_cases(u, x)
        \/ investigate_signal(u) \/ retry_signal(u) \/ start(u) \/ request_dies(u)
    \/ \E o \in Operations : operation_goes_on(o)

CaseSpec == CaseInit /\ [][CaseNext]_caseVars

-----------------------------------------------------------------------------
(* Properties *)

\* The listing is of the rows, each once; pages and requests are about rows.
CaseTypeOK ==
    /\ IsInjective(order)
    /\ Range(order) = {s \in Signals : signals[s].status # "absent"}
    /\ page \in [Users -> [signal : Signals, status : SignalStatuses] \cup {NoValue}]
    /\ posting \in [Users -> Range(order) \cup {NoValue}]

\* A card leaves nothing out: whatever was detected, retried and left half done
\* by a dying request, the lineage of an object has every signal of it once, and
\* a retry stands directly behind what it retries.
CaseIsWhole ==
    \A x \in Objects : of_object(x) # <<>> =>
        LET lineage == ordered_lineage(x) IN
        /\ IsInjective(lineage)
        /\ Range(lineage) = Range(of_object(x))
        /\ \A i \in DOMAIN lineage : signals[lineage[i]].pred # NoValue =>
               i > 1 /\ lineage[i - 1] = signals[lineage[i]].pred

\* The button on a freshly loaded card does what it says: an open current signal
\* can be claimed by a new operation, one that needs attention has no successor
\* yet, so a retry starts a new investigation.
OfferedActionStarts ==
    \A x \in Objects : of_object(x) # <<>> =>
        LET s == current_signal(x) IN
        /\ signals[s].status = "open" =>
               \A o \in Operations : status[o] = "absent" =>
                   create_allowed(o, [action |-> "create_work_order", object |-> x, signal |-> s])
        /\ signals[s].status = "attention_required" => ~ has_successor(s)
=============================================================================
