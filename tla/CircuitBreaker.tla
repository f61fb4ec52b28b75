---------------------------- MODULE CircuitBreaker ----------------------------
(***************************************************************************)
(* data_layer/exchange_data: the circuit breaker of one exchange           *)
(* (circuit_breaker.py) and the calls that go through it (retry_on_failure *)
(* in client.py).  The collectors' pool threads share the breaker, which   *)
(* they enter in separate critical sections: one reads the state, another  *)
(* takes a probe slot, another records how the request ended.              *)
(***************************************************************************)
EXTENDS Naturals, FiniteSets

CONSTANTS
    Callers,           \* threads that call functions decorated for this exchange
    FailureThreshold,
    HalfOpenMaxCalls,  \* _DEFAULT_HALF_OPEN_MAX_CALLS
    MaxRetries

ASSUME BreakerAssumption ==
    /\ FailureThreshold \in Nat \ {0}
    /\ HalfOpenMaxCalls \in Nat \ {0}
    /\ MaxRetries \in Nat \ {0}

VARIABLES
    state,       \* _state
    failures,    \* _failure_count, up to the threshold it is compared with
    cooled,      \* recovery_timeout has passed since _last_failure_time
    probes,      \* _half_open_calls
    pc,          \* what each thread is about to do
    attempt,     \* the attempt its wrapper is at
    up,          \* the exchange answers
    slots,       \* history: who took a slot since half-open began and is under way
    slotLost     \* history: a slot taken since then ended with nothing recorded

breakerVars == <<state, failures, cooled, probes>>
callVars == <<pc, attempt>>
history == <<slots, slotLost>>
vars == <<state, failures, cooled, probes, pc, attempt, up, slots, slotLost>>

InFlight == {"call", "ok", "retry", "error"}

Init ==
    /\ state = "closed"
    /\ failures = 0
    /\ cooled = TRUE
    /\ probes = 0
    /\ pc = [c \in Callers |-> "idle"]
    /\ attempt = [c \in Callers |-> 1]
    /\ up \in BOOLEAN
    /\ slots = {}
    /\ slotLost = FALSE

------------------------------------------------------------------------------
(***************************************************************************)
(* The environment.                                                        *)
(***************************************************************************)
Cool ==
    /\ ~cooled
    /\ cooled' = TRUE
    /\ UNCHANGED <<state, failures, probes, callVars, up, history>>

Outage ==
    /\ up' = ~up
    /\ UNCHANGED <<breakerVars, callVars, history>>

------------------------------------------------------------------------------
(***************************************************************************)
(* allow_request.                                                          *)
(***************************************************************************)
\* What the state property answers.
Current == IF state = "open" /\ cooled THEN "half_open" ELSE state

\* How allow_request goes on from there.
Admission == [closed |-> "call", half_open |-> "probe", open |-> "idle"]

\* Fault: the slots of the previous half-open period are still taken.
ReadStateKeepsProbes(c) ==
    /\ pc[c] = "idle"
    /\ state' = Current
    /\ slots' = IF Current # state THEN {} ELSE slots
    /\ slotLost' = IF Current # state THEN FALSE ELSE slotLost
    /\ pc' = [pc EXCEPT ![c] = Admission[Current]]
    /\ UNCHANGED <<failures, cooled, probes, attempt, up>>

\* The state is read, and becomes half-open if it was open for long enough.
\* While it is open CircuitOpenError is raised, and the thread is idle again.
ReadState(c) ==
    /\ pc[c] = "idle"
    /\ state' = Current
    /\ probes' = IF Current # state THEN 0 ELSE probes
    /\ slots' = IF Current # state THEN {} ELSE slots
    /\ slotLost' = IF Current # state THEN FALSE ELSE slotLost
    /\ pc' = [pc EXCEPT ![c] = Admission[Current]]
    /\ UNCHANGED <<failures, cooled, attempt, up>>

\* Fault: one slot too many.
TakeSlotMore(c) ==
    /\ pc[c] = "probe"
    /\ probes <= HalfOpenMaxCalls
    /\ probes' = probes + 1
    /\ slots' = slots \cup {c}
    /\ pc' = [pc EXCEPT ![c] = "call"]
    /\ UNCHANGED <<state, failures, cooled, attempt, up, slotLost>>

\* A thread that read half-open takes a slot, whatever the state is by now.
TakeSlot(c) ==
    /\ pc[c] = "probe"
    /\ probes < HalfOpenMaxCalls
    /\ probes' = probes + 1
    /\ slots' = slots \cup {c}
    /\ pc' = [pc EXCEPT ![c] = "call"]
    /\ UNCHANGED <<state, failures, cooled, attempt, up, slotLost>>

\* There is none left: CircuitOpenError.
NoSlot(c) ==
    /\ pc[c] = "probe"
    /\ probes >= HalfOpenMaxCalls
    /\ pc' = [pc EXCEPT ![c] = "idle"]
    /\ UNCHANGED <<breakerVars, attempt, up, history>>

------------------------------------------------------------------------------
(***************************************************************************)
(* retry_on_failure.                                                       *)
(***************************************************************************)
\* The decorated function ends.  When the exchange does not answer it raises a
\* network error, which is retried, or an ExchangeError, which is not, or
\* returns all the same: some of the collectors turn exceptions into [].
Return(c, outcome) ==
    /\ pc[c] = "call"
    /\ up => outcome = "ok"
    /\ pc' = [pc EXCEPT ![c] = outcome]
    /\ UNCHANGED <<breakerVars, attempt, up, history>>

\* An exception that no except clause names leaves the wrapper.
ReturnUnrecorded(c) ==
    /\ pc[c] = "call"
    /\ ~up
    /\ pc' = [pc EXCEPT ![c] = "idle"]
    /\ attempt' = [attempt EXCEPT ![c] = 1]
    /\ slots' = slots \ {c}
    /\ slotLost' = (slotLost \/ c \in slots)
    /\ UNCHANGED <<breakerVars, up>>

RecordSuccess(c) ==
    /\ pc[c] = "ok"
    /\ failures' = 0
    /\ state' = IF state = "half_open" THEN "closed" ELSE state
    /\ pc' = [pc EXCEPT ![c] = "idle"]
    /\ attempt' = [attempt EXCEPT ![c] = 1]
    /\ slots' = slots \ {c}
    /\ UNCHANGED <<cooled, probes, up, slotLost>>

\* The wrapper goes on to its next attempt, without asking the breaker again
\* (the sleep before it counts as part of the call), or raises.
NextAttempt(c, again) ==
    /\ pc' = [pc EXCEPT ![c] = IF again THEN "call" ELSE "idle"]
    /\ attempt' = [attempt EXCEPT ![c] = IF again THEN @ + 1 ELSE 1]
    /\ slots' = IF again THEN slots ELSE slots \ {c}

\* Fault: one attempt too many.
RecordFailureRetriesMore(c) ==
    /\ pc[c] \in {"retry", "error"}
    /\ failures' = IF failures < FailureThreshold THEN failures + 1 ELSE failures
    /\ cooled' = FALSE
    /\ state' = IF \/ state = "half_open"
                   \/ state = "closed" /\ failures' >= FailureThreshold
                THEN "open" ELSE state
    /\ NextAttempt(c, pc[c] = "retry" /\ attempt[c] <= MaxRetries)
    /\ UNCHANGED <<probes, up, slotLost>>

\* Fault: while half-open a failure is only counted.
RecordFailureInProbe(c) ==
    /\ pc[c] \in {"retry", "error"}
    /\ failures' = IF failures < FailureThreshold THEN failures + 1 ELSE failures
    /\ cooled' = FALSE
    /\ state' = IF state = "closed" /\ failures' >= FailureThreshold THEN "open" ELSE state
    /\ NextAttempt(c, pc[c] = "retry" /\ attempt[c] < MaxRetries)
    /\ UNCHANGED <<probes, up, slotLost>>

RecordFailure(c) ==
    /\ pc[c] \in {"retry", "error"}
    /\ failures' = IF failures < FailureThreshold THEN failures + 1 ELSE failures
    /\ cooled' = FALSE
    /\ state' = IF \/ state = "half_open"
                   \/ state = "closed" /\ failures' >= FailureThreshold
                THEN "open" ELSE state
    /\ NextAttempt(c, pc[c] = "retry" /\ attempt[c] < MaxRetries)
    /\ UNCHANGED <<probes, up, slotLost>>

------------------------------------------------------------------------------
Step(c) ==
    \/ ReadState(c) \/ TakeSlot(c) \/ NoSlot(c)
    \/ \E outcome \in {"ok", "retry", "error"} : Return(c, outcome)
    \/ ReturnUnrecorded(c)
    \/ RecordSuccess(c) \/ RecordFailure(c)

Next == Cool \/ Outage \/ \E c \in Callers : Step(c)

Spec == Init /\ [][Next]_vars

\* The collectors call again and again, requests time out, and time passes;
\* nothing says that an outage ends.
FairSpec == Spec /\ WF_vars(Cool) /\ \A c \in Callers : WF_vars(Step(c))

------------------------------------------------------------------------------
TypeOK ==
    /\ state \in {"closed", "open", "half_open"}
    /\ failures \in 0..FailureThreshold
    /\ cooled \in BOOLEAN
    /\ probes \in 0..HalfOpenMaxCalls
    /\ pc \in [Callers -> {"idle", "probe"} \cup InFlight]
    /\ attempt \in [Callers -> 1..MaxRetries]
    /\ up \in BOOLEAN
    /\ slots \subseteq Callers
    /\ slotLost \in BOOLEAN

\* While requests pass freely fewer failures than the threshold have been
\* recorded since the last success, also right after a recovery and with
\* failures of other threads recorded while the breaker was open.
ClosedBelowThreshold == state = "closed" => failures < FailureThreshold

\* However the threads that read half-open, take slots and record late results
\* are interleaved, at most half_open_max_calls of them at a time are probing
\* in one half-open period.
FewProbes == state = "half_open" => Cardinality(slots) <= HalfOpenMaxCalls

\* While the breaker is half-open and slots were taken, one who took one is
\* still under way and will decide; only an exception that no clause records
\* may break that.
ProbeDecides ==
    state = "half_open" /\ probes > 0 => slotLost \/ \E c \in slots : pc[c] \in InFlight

\* When the exchange answers again for good the breaker ends up closed, unless
\* a slot was lost.
Recovers == <>[]up => <>[](state = "closed" \/ slotLost)

\* "连续失败 5 次自动熔断，60s 冷却后探测恢复" (README.md:721): a breaker that is
\* half-open and admits nobody has a probe on its way.
NeverStuck ==
    state = "half_open" /\ probes >= HalfOpenMaxCalls => \E c \in Callers : pc[c] \in InFlight
==============================================================================
