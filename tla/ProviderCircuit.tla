-------------------------- MODULE ProviderCircuit --------------------------
(***************************************************************************)
(* Retry, circuit breaker and concurrency isolation of one provider,       *)
(* src/app/provider_resilience.py.  The registry is local to a process and *)
(* keeps nothing in common between providers, so one of them is enough;    *)
(* its callers are the tool calls of the tasks of that process.            *)
(*                                                                         *)
(* The provider's asyncio lock is never held across an await, so           *)
(* _before_call, _success and _failure are each one step.  Time only       *)
(* matters through the age of `opened_at`: an open circuit is "cooling"    *)
(* until the reset time has passed and "due" afterwards.                   *)
(***************************************************************************)
EXTENDS Integers, Sequences, FiniteSets

CONSTANTS
    Callers,        \* tool calls that may use the provider at the same time
    Attempts,       \* provider_retry_attempts + 1
    Slots,          \* provider_max_concurrency
    Threshold,      \* provider_circuit_failure_threshold
    WindowSize,     \* provider_circuit_window_size
    RateNum,        \* provider_circuit_failure_rate is the fraction RateNum / RateDen
    RateDen

ASSUME CircuitConstants ==
    /\ Attempts \in Nat \ {0} /\ Slots \in Nat \ {0}
    /\ Threshold \in Nat \ {0} /\ WindowSize \in Nat \ {0, 1}
    /\ RateNum \in Nat /\ RateDen \in Nat \ {0} /\ RateNum <= RateDen

VARIABLES
    opened,     \* "closed", or open since less ("cooling") or more ("due") than the reset time
    half,       \* half_open_in_flight
    outcomes,   \* the sliding window: TRUE for a success
    call,       \* call[c]: where the call of c stands
    probeLost   \* history: the last caller let through half-open ended without an outcome

circuitVars == <<opened, half, outcomes, call, probeLost>>

NoCall == [pc |-> "idle", tries |-> 0, probe |-> FALSE]

-----------------------------------------------------------------------------
(* The window *)

Push(w, ok) ==
    IF Len(w) < WindowSize THEN Append(w, ok) ELSE Append(Tail(w), ok)

Failures(w) == Cardinality({i \in DOMAIN w : ~w[i]})

\* enough_samples: five, or a whole smaller window.
EnoughSamples(w) == Len(w) >= 5 \/ Len(w) >= WindowSize

Trips(w) ==
    \/ Failures(w) >= Threshold
    \/ EnoughSamples(w) /\ Failures(w) * RateDen >= RateNum * Len(w)

-----------------------------------------------------------------------------
(* _success and _failure *)

RecordSuccess ==
    /\ outcomes' = IF half THEN <<>> ELSE Push(outcomes, TRUE)
    /\ half' = FALSE
    /\ opened' = "closed"

RecordFailureKeepsHalf ==
    /\ outcomes' = Push(outcomes, FALSE)
    /\ UNCHANGED half
    /\ opened' = IF Trips(outcomes') THEN "cooling" ELSE opened
RecordFailureForgets ==
    /\ outcomes' = IF Trips(Push(outcomes, FALSE)) THEN <<>> ELSE Push(outcomes, FALSE)
    /\ half' = FALSE
    /\ opened' = IF Trips(Push(outcomes, FALSE)) THEN "cooling" ELSE opened
RecordFailure ==
    /\ outcomes' = Push(outcomes, FALSE)
    /\ half' = FALSE
    /\ opened' = IF Trips(outcomes') THEN "cooling" ELSE opened

-----------------------------------------------------------------------------
(* One call of execute *)

Leaves(c) == call' = [call EXCEPT ![c] = NoCall]
CallGoes(c, pc) == call' = [call EXCEPT ![c].pc = pc]

\* The slot is held from its acquisition to the end of the call, also while backing off.
CallHoldsSlot(c) == call[c].pc \in {"operation", "backoff"}
InUse == {c \in Callers : CallHoldsSlot(c)}

\* _before_call lets everyone through a closed circuit and one probe through a due one; a
\* call it refuses changes nothing.
BeforeCall(c) ==
    /\ call[c].pc = "idle"
    /\ \/ /\ opened = "closed"
          /\ call' = [call EXCEPT ![c].pc = "slot"]
          /\ UNCHANGED <<half, probeLost>>
       \/ /\ opened = "due" /\ ~half
          /\ half' = TRUE /\ probeLost' = FALSE
          /\ call' = [call EXCEPT ![c].pc = "slot", ![c].probe = TRUE]
    /\ UNCHANGED <<opened, outcomes>>

TakeSlot(c) ==
    /\ call[c].pc = "slot" /\ Cardinality(InUse) < Slots
    /\ CallGoes(c, "operation")
    /\ UNCHANGED <<opened, half, outcomes, probeLost>>

OperationSucceeds(c) ==
    /\ call[c].pc = "operation"
    /\ RecordSuccess /\ Leaves(c)
    /\ UNCHANGED probeLost

\* A retryable failure backs off while attempts are left; any other one is recorded.
OperationFails(c) ==
    /\ call[c].pc = "operation"
    /\ \/ /\ call[c].tries + 1 < Attempts
          /\ call' = [call EXCEPT ![c].pc = "backoff", ![c].tries = @ + 1]
          /\ UNCHANGED <<opened, half, outcomes>>
       \/ RecordFailure /\ Leaves(c)
    /\ UNCHANGED probeLost

Retry(c) ==
    /\ call[c].pc = "backoff"
    /\ CallGoes(c, "operation")
    /\ UNCHANGED <<opened, half, outcomes, probeLost>>

\* The task was cancelled or timed out: CancelledError leaves execute at any await, records
\* no outcome and gives only the slot back.
CallCancelled(c) ==
    /\ call[c].pc # "idle"
    /\ Leaves(c)
    /\ probeLost' = (probeLost \/ call[c].probe)
    /\ UNCHANGED <<opened, half, outcomes>>

ResetTimePasses ==
    /\ opened = "cooling"
    /\ opened' = "due"
    /\ UNCHANGED <<half, outcomes, call, probeLost>>

CallSteps(c) ==
    TakeSlot(c) \/ OperationSucceeds(c) \/ OperationFails(c) \/ Retry(c)

CircuitInit ==
    /\ opened = "closed" /\ half = FALSE /\ outcomes = <<>> /\ probeLost = FALSE
    /\ call = [c \in Callers |-> NoCall]

CircuitNext ==
    \/ \E c \in Callers : BeforeCall(c) \/ CallSteps(c) \/ CallCancelled(c)
    \/ ResetTimePasses

\* Calls end (execute runs under the timeouts of its callers), a free slot goes to the call that
\* waits for it, and time passes.
CircuitFairness ==
    /\ WF_circuitVars(ResetTimePasses)
    /\ \A c \in Callers :
          /\ WF_circuitVars(TakeSlot(c)) /\ WF_circuitVars(Retry(c))
          /\ WF_circuitVars(OperationSucceeds(c) \/ OperationFails(c))

CircuitSpec == CircuitInit /\ [][CircuitNext]_circuitVars /\ CircuitFairness

-----------------------------------------------------------------------------
(* Properties *)

CircuitTypeOK ==
    /\ opened \in {"closed", "cooling", "due"} /\ half \in BOOLEAN /\ probeLost \in BOOLEAN
    /\ outcomes \in Seq(BOOLEAN) /\ Len(outcomes) <= WindowSize
    /\ call \in [Callers -> [pc : {"idle", "slot", "operation", "backoff"},
                             tries : 0 .. Attempts - 1, probe : BOOLEAN]]

\* A quarantine ends or a probe gets its chance, time and again, unless the last probe was
\* cancelled: then half_open_in_flight stays set and the provider is refused for good.
CanProbe == opened = "due" /\ ~half
QuarantineEndsUnlessProbeLost == []<>(opened = "closed" \/ CanProbe \/ probeLost)

\* The half-open place is taken only in a quarantine that is over, and only while a probe is
\* under way that will give it back, or once the last probe was lost.
HalfOpenHasProbe ==
    half => opened = "due" /\ (probeLost \/ \E c \in Callers : call[c].probe)

\* Whoever gives the half-open place back closes the circuit or starts a new quarantine: a probe
\* that fails always trips it again, whatever calls from before the quarantine have reported
\* since then and however far the window has moved.
FailedProbeQuarantines == [][half /\ ~half' => opened' \in {"closed", "cooling"}]_circuitVars

\* So a quarantine is decided by a probe: its place belongs to one that is under way or lost, and
\* giving it back settles the circuit.
ProbesDecide == []HalfOpenHasProbe /\ FailedProbeQuarantines

=============================================================================
