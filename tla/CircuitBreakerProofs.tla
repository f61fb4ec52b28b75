------------------------- MODULE CircuitBreakerProofs -------------------------
(***************************************************************************)
(* Theorems about CircuitBreaker, for any number of threads, threshold,    *)
(* number of probe slots and number of attempts.                           *)
(***************************************************************************)
EXTENDS CircuitBreaker, TLAPS, FiniteSetTheorems

\* The slots handed out in a half-open period are counted by _half_open_calls,
\* and those who hold one are under way.
SlotsCounted ==
    /\ IsFiniteSet(slots)
    /\ Cardinality(slots) <= probes
    /\ \A c \in slots : pc[c] \in InFlight

IInv == TypeOK /\ ClosedBelowThreshold /\ SlotsCounted /\ ProbeDecides

LEMMA ConstantTypes ==
    /\ FailureThreshold \in Nat /\ FailureThreshold > 0
    /\ HalfOpenMaxCalls \in Nat /\ HalfOpenMaxCalls > 0
    /\ MaxRetries \in Nat /\ MaxRetries > 0
BY BreakerAssumption DEF BreakerAssumption

------------------------------------------------------------------------------
(***************************************************************************)
(* Initial states, and what each step does to the invariant.               *)
(***************************************************************************)
LEMMA InitHolds == Init => IInv
<1> SUFFICES ASSUME Init PROVE IInv
  OBVIOUS
<1>1. TypeOK
  <2>1. cooled \in BOOLEAN /\ up \in BOOLEAN /\ slotLost \in BOOLEAN
    BY Zenon DEF Init
  <2>2. /\ state \in {"closed", "open", "half_open"}
        /\ failures \in 0..FailureThreshold
        /\ probes \in 0..HalfOpenMaxCalls
        /\ pc \in [Callers -> {"idle", "probe"} \cup InFlight]
        /\ attempt \in [Callers -> 1..MaxRetries]
        /\ slots \subseteq Callers
    BY ConstantTypes DEF Init
  <2> QED
    BY ONLY <2>1, <2>2 DEF TypeOK
<1>2. ClosedBelowThreshold /\ ProbeDecides
  BY ConstantTypes DEF Init, ClosedBelowThreshold, ProbeDecides
<1>3. SlotsCounted
  BY FS_EmptySet DEF Init, SlotsCounted
<1> QED
  BY <1>1, <1>2, <1>3 DEF IInv

\* A set of slots that loses a member stays counted.
LEMMA SlotReleased ==
    ASSUME SlotsCounted, probes \in Nat, NEW c
    PROVE  IsFiniteSet(slots \ {c}) /\ Cardinality(slots \ {c}) <= probes
<1>1. IsFiniteSet(slots) /\ Cardinality(slots) \in Nat /\ Cardinality(slots) <= probes
  BY FS_CardinalityType DEF SlotsCounted
<1>2. IsFiniteSet(slots \ {c})
  BY <1>1, FS_RemoveElement
<1>3. Cardinality(slots \ {c}) \in Nat
  BY <1>2, FS_CardinalityType
<1>4. Cardinality(slots \ {c}) <= Cardinality(slots)
  BY <1>1, FS_RemoveElement
<1> QED
  BY <1>1, <1>2, <1>3, <1>4

LEMMA ReadStateKeeps ==
    ASSUME IInv, NEW c \in Callers, ReadState(c)
    PROVE  IInv'
<1> USE ConstantTypes
<1>1. TypeOK'
  <2>1. Current \in {"closed", "open", "half_open"}
    BY DEF IInv, TypeOK, Current
  <2>2. Admission[Current] \in {"idle", "probe"} \cup InFlight
    BY <2>1 DEF Admission, InFlight
  <2>3. /\ state' \in {"closed", "open", "half_open"}
        /\ failures' \in 0..FailureThreshold
        /\ probes' \in 0..HalfOpenMaxCalls
        /\ pc' \in [Callers -> {"idle", "probe"} \cup InFlight]
        /\ attempt' \in [Callers -> 1..MaxRetries]
        /\ slots' \subseteq Callers
    BY <2>1, <2>2 DEF IInv, TypeOK, ReadState
  <2>4. cooled' \in BOOLEAN /\ up' \in BOOLEAN
    BY DEF IInv, TypeOK, ReadState
  <2>5. slotLost' \in BOOLEAN
    BY DEF IInv, TypeOK, ReadState
  <2> QED
    BY ONLY <2>3, <2>4, <2>5 DEF TypeOK
<1>2. ClosedBelowThreshold'
  BY DEF IInv, ClosedBelowThreshold, ReadState, Current
<1>3. SlotsCounted'
  <2>1. CASE Current = state
    <3>1. UNCHANGED <<slots, probes>>
      BY <2>1 DEF ReadState
    <3>2. \A d \in slots : pc'[d] = pc[d]
      BY DEF IInv, TypeOK, SlotsCounted, ReadState, InFlight
    <3> QED
      BY <3>1, <3>2 DEF IInv, SlotsCounted
  <2>2. CASE Current # state
    BY <2>2, FS_EmptySet DEF ReadState, SlotsCounted
  <2> QED
    BY <2>1, <2>2
<1>4. ProbeDecides'
  BY DEF IInv, TypeOK, ProbeDecides, SlotsCounted, ReadState, Current, Admission, InFlight
<1> QED
  BY <1>1, <1>2, <1>3, <1>4 DEF IInv

LEMMA TakeSlotKeeps ==
    ASSUME IInv, NEW c \in Callers, TakeSlot(c)
    PROVE  IInv'
<1> USE ConstantTypes
<1>1. TypeOK'
  BY DEF IInv, TypeOK, TakeSlot, InFlight
<1>2. ClosedBelowThreshold'
  BY DEF IInv, ClosedBelowThreshold, TakeSlot
<1>3. SlotsCounted'
  <2>1. IsFiniteSet(slots) /\ Cardinality(slots) \in Nat /\ Cardinality(slots) <= probes
    BY FS_CardinalityType DEF IInv, SlotsCounted
  <2>2. c \notin slots
    BY DEF IInv, SlotsCounted, TakeSlot, InFlight
  <2>3. IsFiniteSet(slots \cup {c}) /\ Cardinality(slots \cup {c}) = Cardinality(slots) + 1
    BY <2>1, <2>2, FS_AddElement
  <2>4. probes \in Nat /\ probes' = probes + 1 /\ slots' = slots \cup {c}
    BY DEF IInv, TypeOK, TakeSlot
  <2>5. \A d \in slots' : pc'[d] \in InFlight
    BY DEF IInv, TypeOK, SlotsCounted, TakeSlot, InFlight
  <2> QED
    BY <2>1, <2>3, <2>4, <2>5 DEF SlotsCounted
<1>4. ProbeDecides'
  BY DEF IInv, TypeOK, ProbeDecides, TakeSlot, InFlight
<1> QED
  BY <1>1, <1>2, <1>3, <1>4 DEF IInv

LEMMA ReturnKeeps ==
    ASSUME IInv, NEW c \in Callers, NEW outcome \in {"ok", "retry", "error"}, Return(c, outcome)
    PROVE  IInv'
<1>1. TypeOK'
  BY DEF IInv, TypeOK, Return, InFlight, breakerVars, history
<1>2. \A d \in slots : pc'[d] \in InFlight
  BY DEF IInv, TypeOK, SlotsCounted, Return, InFlight
<1>3. UNCHANGED <<state, failures, probes, slots, slotLost>>
  BY DEF Return, breakerVars, history
<1> QED
  BY <1>1, <1>2, <1>3 DEF IInv, ClosedBelowThreshold, SlotsCounted, ProbeDecides

\* The steps that end a call of c: its slot is released.
LEMMA EndOfCall ==
    ASSUME IInv, NEW c \in Callers, UNCHANGED probes,
           pc' = [pc EXCEPT ![c] = "idle"], slots' = slots \ {c}
    PROVE  SlotsCounted'
<1>1. IsFiniteSet(slots \ {c}) /\ Cardinality(slots \ {c}) <= probes
  BY SlotReleased DEF IInv, TypeOK
<1>2. \A d \in slots \ {c} : pc'[d] \in InFlight
  BY DEF IInv, TypeOK, SlotsCounted
<1> QED
  BY <1>1, <1>2 DEF SlotsCounted

LEMMA ReturnUnrecordedKeeps ==
    ASSUME IInv, NEW c \in Callers, ReturnUnrecorded(c)
    PROVE  IInv'
<1> USE ConstantTypes
<1>1. TypeOK'
  BY DEF IInv, TypeOK, ReturnUnrecorded, breakerVars
<1>2. SlotsCounted'
  BY EndOfCall DEF ReturnUnrecorded, breakerVars
<1>3. ClosedBelowThreshold'
  BY DEF IInv, ClosedBelowThreshold, ReturnUnrecorded, breakerVars
<1>4. ProbeDecides'
  <2>1. UNCHANGED <<state, probes>> /\ slotLost' = (slotLost \/ c \in slots)
    BY DEF ReturnUnrecorded, breakerVars
  <2>2. \A d \in slots : d # c => d \in slots' /\ pc'[d] = pc[d]
    BY DEF IInv, TypeOK, ReturnUnrecorded
  <2> QED
    BY <2>1, <2>2 DEF IInv, ProbeDecides
<1> QED
  BY <1>1, <1>2, <1>3, <1>4 DEF IInv

\* A recorded success leaves the breaker closed with no failures, or open.
LEMMA RecordSuccessKeeps ==
    ASSUME IInv, NEW c \in Callers, RecordSuccess(c)
    PROVE  IInv'
<1> USE ConstantTypes
<1>1. TypeOK'
  BY DEF IInv, TypeOK, RecordSuccess
<1>2. SlotsCounted'
  BY EndOfCall DEF RecordSuccess
<1>3. ClosedBelowThreshold' /\ ProbeDecides'
  BY DEF IInv, TypeOK, ClosedBelowThreshold, ProbeDecides, RecordSuccess
<1> QED
  BY <1>1, <1>2, <1>3 DEF IInv

\* A recorded failure leaves it open, or closed below the threshold.
LEMMA RecordFailureKeeps ==
    ASSUME IInv, NEW c \in Callers, RecordFailure(c)
    PROVE  IInv'
<1> USE ConstantTypes
<1> DEFINE again == pc[c] = "retry" /\ attempt[c] < MaxRetries
<1>1. NextAttempt(c, again) /\ UNCHANGED <<probes, up, slotLost>>
  BY DEF RecordFailure
<1>2. TypeOK'
  <2>1. /\ failures' \in 0..FailureThreshold
        /\ cooled' \in BOOLEAN
    <3>1. failures' \in 0..FailureThreshold
      BY DEF IInv, TypeOK, RecordFailure
    <3>2. cooled' \in BOOLEAN
      BY Zenon DEF RecordFailure
    <3> QED
      BY <3>1, <3>2
  <2>2. state' \in {"closed", "open", "half_open"}
    BY DEF IInv, TypeOK, RecordFailure
  <2>3. pc' \in [Callers -> {"idle", "probe"} \cup InFlight]
    BY <1>1 DEF IInv, TypeOK, NextAttempt, InFlight
  <2>4. attempt' \in [Callers -> 1..MaxRetries]
    BY <1>1 DEF IInv, TypeOK, NextAttempt
  <2>5. slots' \subseteq Callers
    BY <1>1 DEF IInv, TypeOK, NextAttempt
  <2>6. probes' \in 0..HalfOpenMaxCalls /\ up' \in BOOLEAN /\ slotLost' \in BOOLEAN
    BY <1>1 DEF IInv, TypeOK
  <2> QED
    BY ONLY <2>1, <2>2, <2>3, <2>4, <2>5, <2>6 DEF TypeOK
<1>3. SlotsCounted'
  <2>1. CASE again
    <3>1. slots' = slots /\ \A d \in slots : pc'[d] \in InFlight
      BY <1>1, <2>1 DEF IInv, TypeOK, SlotsCounted, NextAttempt, InFlight
    <3> QED
      BY <1>1, <3>1 DEF IInv, SlotsCounted
  <2>2. CASE ~again
    <3>1. pc' = [pc EXCEPT ![c] = "idle"] /\ slots' = slots \ {c}
      BY <1>1, <2>2 DEF NextAttempt
    <3> QED
      BY <1>1, <3>1, EndOfCall
  <2> QED
    BY <2>1, <2>2
<1>4. ClosedBelowThreshold' /\ ProbeDecides'
  BY DEF IInv, TypeOK, ClosedBelowThreshold, ProbeDecides, RecordFailure
<1> QED
  BY <1>2, <1>3, <1>4 DEF IInv

------------------------------------------------------------------------------
LEMMA StepKeeps ==
    ASSUME IInv, [Next]_vars
    PROVE  IInv'
<1>1. ASSUME Cool PROVE IInv'
  BY <1>1 DEF IInv, TypeOK, ClosedBelowThreshold, SlotsCounted, ProbeDecides, Cool, callVars, history
<1>2. ASSUME Outage PROVE IInv'
  BY <1>2 DEF IInv, TypeOK, ClosedBelowThreshold, SlotsCounted, ProbeDecides, Outage,
              breakerVars, callVars, history
<1>3. ASSUME NEW c \in Callers, NoSlot(c) PROVE IInv'
  <2>1. TypeOK'
    BY <1>3 DEF IInv, TypeOK, NoSlot, breakerVars, history
  <2>2. \A d \in slots : pc'[d] = pc[d]
    BY <1>3 DEF IInv, TypeOK, SlotsCounted, NoSlot, InFlight
  <2>3. UNCHANGED <<state, failures, probes, slots, slotLost>>
    BY <1>3 DEF NoSlot, breakerVars, history
  <2> QED
    BY <2>1, <2>2, <2>3 DEF IInv, ClosedBelowThreshold, SlotsCounted, ProbeDecides
<1>4. ASSUME UNCHANGED vars PROVE IInv'
  BY <1>4 DEF IInv, TypeOK, ClosedBelowThreshold, SlotsCounted, ProbeDecides, vars
<1>5. ASSUME NEW c \in Callers, Step(c) PROVE IInv'
  BY <1>3, <1>5, ReadStateKeeps, TakeSlotKeeps, ReturnKeeps, ReturnUnrecordedKeeps,
     RecordSuccessKeeps, RecordFailureKeeps DEF Step
<1> QED
  BY <1>1, <1>2, <1>4, <1>5 DEF Next

LEMMA Inductive == Spec => []IInv
<1>1. IInv /\ [Next]_vars => IInv'
  BY StepKeeps
<1> QED
  BY InitHolds, <1>1, PTL DEF Spec

------------------------------------------------------------------------------
\* The breaker's and the calls' variables keep their types; among others,
\* _half_open_calls stays within its limit.
THEOREM BreakerTypeCorrect == Spec => []TypeOK
<1>1. IInv => TypeOK
  BY DEF IInv
<1> QED
  BY Inductive, <1>1, PTL

\* record_success and record_failure keep the count of a closed breaker below
\* the threshold, whichever threads' results arrive in whichever order.
THEOREM ClosedIsBelowThreshold == Spec => []ClosedBelowThreshold
<1>1. IInv => ClosedBelowThreshold
  BY DEF IInv
<1> QED
  BY Inductive, <1>1, PTL

\* allow_request admits no more probes in a half-open period than there are
\* slots, although it reads the state and takes the slot separately.
THEOREM ProbesAreFew == Spec => []FewProbes
<1>1. IInv => FewProbes
  <2> SUFFICES ASSUME IInv PROVE Cardinality(slots) <= HalfOpenMaxCalls
    BY DEF FewProbes
  <2>1. Cardinality(slots) \in Nat /\ Cardinality(slots) <= probes
    BY FS_CardinalityType DEF IInv, SlotsCounted
  <2>2. probes \in Nat /\ probes <= HalfOpenMaxCalls
    BY ConstantTypes DEF IInv, TypeOK
  <2> QED
    BY <2>1, <2>2, ConstantTypes
<1> QED
  BY Inductive, <1>1, PTL

\* retry_on_failure leaves a half-open breaker undecided only when it lets an
\* exception pass without recording it.
THEOREM ProbesDecide == Spec => []ProbeDecides
<1>1. IInv => ProbeDecides
  BY DEF IInv
<1> QED
  BY Inductive, <1>1, PTL
==============================================================================
