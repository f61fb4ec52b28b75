------------------------- MODULE ClassicPipelineProofs -------------------------
(***************************************************************************)
(* Theorems about the classic pipeline: its types, that no call leaks out  *)
(* of its phase, that serial modules are skipped for a cause, and that it  *)
(* implements PhaseOrder.                                                  *)
(***************************************************************************)
EXTENDS ClassicPipeline, TLAPS

LEMMA ConstantTypes ==
    /\ Len(Phases) \in Nat \ {0}
    /\ DOMAIN Phases = 1..Len(Phases)
    /\ \A p \in DOMAIN Phases : /\ Phases[p] \in Seq(Modules)
                                /\ Range(Phases[p]) \subseteq Modules
<1>1. Phases \in Seq(Seq(Modules)) /\ Phases # <<>>
  BY ClassicAssumption DEF ClassicAssumption
<1>2. Len(Phases) \in Nat \ {0} /\ DOMAIN Phases = 1..Len(Phases)
  BY <1>1
<1>3. ASSUME NEW p \in DOMAIN Phases
      PROVE  Phases[p] \in Seq(Modules) /\ Range(Phases[p]) \subseteq Modules
  <2>1. Phases[p] \in Seq(Modules)
    BY <1>1
  <2>2. \A i \in DOMAIN Phases[p] : Phases[p][i] \in Modules
    BY <2>1
  <2> QED
    BY <2>1, <2>2 DEF Range
<1> QED
  BY <1>2, <1>3

LEMMA Disjoint ==
    ASSUME NEW p \in DOMAIN Phases, NEW q \in DOMAIN Phases, NEW m,
           m \in Range(Phases[p]), m \in Range(Phases[q])
    PROVE  p = q
BY ClassicAssumption DEF ClassicAssumption

\* Until it returns the thread is in one of the phases.
PhaseInv == TypeOK /\ (pc # "returned" => phase \in DOMAIN Phases)

LEMMA TaskTypes ==
    ASSUME PhaseInv, pc # "returned"
    PROVE  /\ phase \in DOMAIN Phases
           /\ phase \in Nat /\ phase <= Len(Phases)
           /\ Tasks \subseteq Modules
BY ConstantTypes DEF PhaseInv, Tasks

LEMMA DueTask ==
    ASSUME PhaseInv, NEW m \in Modules, Due(m)
    PROVE  pc = "phase" /\ phase \in DOMAIN Phases \ Parallel /\ m \in Tasks
<1>1. pc = "phase" /\ phase \in DOMAIN Phases /\ phase \notin Parallel
  BY DEF Due, InSerialPhase, PhaseInv
<1>2. place \in 1..Len(Phases[phase]) /\ m = Phases[phase][place]
  <2>1. Phases[phase] \in Seq(Modules)
    BY <1>1, ConstantTypes
  <2> QED
    BY <2>1 DEF Due, PhaseInv, TypeOK
<1>3. DOMAIN Phases[phase] = 1..Len(Phases[phase])
  BY <1>1, ConstantTypes
<1> QED
  BY <1>1, <1>2, <1>3 DEF Tasks, Range

LEMMA NextPhaseTypes ==
    ASSUME PhaseInv, NextPhase
    PROVE  PhaseInv'
<1>1. pc # "returned"
  BY DEF NextPhase, EndOfPhase, InSerialPhase
<1>2. phase \in Nat /\ phase <= Len(Phases) /\ phase >= 1 /\ Len(Phases) \in Nat
  BY <1>1, ConstantTypes DEF PhaseInv, TypeOK
<1>3. failed' \subseteq Modules
  BY <1>1, TaskTypes DEF NextPhase, PhaseInv, TypeOK
<1>4. phase' \in 1..(Len(Phases) + 1) /\ place' = 1
  BY <1>2 DEF NextPhase
<1>5. ASSUME pc' # "returned" PROVE phase' \in DOMAIN Phases
  <2>1. phase # Len(Phases) /\ phase' = phase + 1
    BY <1>5 DEF NextPhase
  <2>2. phase' \in 1..Len(Phases)
    BY ONLY <2>1, <1>2
  <2> QED
    BY <2>2, ConstantTypes
<1>6. pc' \in {"phase", "returned"} /\ UNCHANGED <<work, results>>
  BY DEF NextPhase
<1> QED
  BY <1>3, <1>4, <1>5, <1>6 DEF PhaseInv, TypeOK

\* Every step keeps the types.
LEMMA StepTypes ==
    ASSUME PhaseInv, [Next]_vars
    PROVE  PhaseInv'
<1>1. ASSUME NEW m \in Modules, SkipDisabled(m) \/ SkipUpstream(m) PROVE PhaseInv'
  BY <1>1 DEF SkipDisabled, SkipUpstream, SkipWith, PhaseInv, TypeOK
<1>2. ASSUME NEW m \in Modules, Call(m) PROVE PhaseInv'
  BY <1>2, DueTask DEF Call, PhaseInv, TypeOK
<1>3. ASSUME NEW m \in Modules, Start(m) PROVE PhaseInv'
  BY <1>3 DEF Start, PhaseInv, TypeOK
<1>4. ASSUME NEW m \in Modules, NEW outcome \in Outcomes, CallReturns(m, outcome)
      PROVE  PhaseInv'
  BY <1>4 DEF CallReturns, PhaseInv, TypeOK
<1>5. ASSUME NEW m \in Modules, NEW outcome \in Outcomes, Finish(m, outcome)
      PROVE  PhaseInv'
  BY <1>5 DEF Finish, PhaseInv, TypeOK
<1>6. ASSUME Submit PROVE PhaseInv'
  BY <1>6 DEF Submit, PhaseInv, TypeOK
<1>7. ASSUME FirstWait PROVE PhaseInv'
  <2>1. ResultsOfDone \in [Modules -> {"none", "disabled", "upstream", "timeout"} \cup Outcomes]
    BY DEF ResultsOfDone, Finished, PhaseInv, TypeOK
  <2> QED
    BY <1>7, <2>1 DEF FirstWait, PhaseInv, TypeOK
<1>8. ASSUME SecondWait PROVE PhaseInv'
  <2>1. \A m \in Modules :
            ResultsOfDone[m] \in {"none", "disabled", "upstream", "timeout"} \cup Outcomes
    BY DEF ResultsOfDone, Finished, PhaseInv, TypeOK
  <2>2. results' \in [Modules -> {"none", "disabled", "upstream", "timeout"} \cup Outcomes]
    BY <1>8, <2>1 DEF SecondWait
  <2> QED
    BY <1>8, <2>2 DEF SecondWait, PhaseInv, TypeOK
<1>9. ASSUME LeavePool PROVE PhaseInv'
  BY <1>9 DEF LeavePool, PhaseInv, TypeOK
<1>10. CASE NextPhase
  BY <1>10, NextPhaseTypes
<1>11. CASE UNCHANGED vars
  BY <1>11 DEF vars, PhaseInv, TypeOK
<1> QED
  BY <1>1, <1>2, <1>3, <1>4, <1>5, <1>6, <1>7, <1>8, <1>9, <1>10, <1>11 DEF Next

LEMMA InitTypes == Init => PhaseInv
<1> SUFFICES ASSUME Init PROVE PhaseInv
  OBVIOUS
<1>1. 1 \in DOMAIN Phases /\ 1 \in 1..(Len(Phases) + 1)
  BY ConstantTypes
<1> QED
  BY <1>1 DEF Init, PhaseInv, TypeOK

\* For any phases, workers and tables of dependencies the pipeline's variables
\* keep their types.
THEOREM ClassicTypeCorrect == Spec => []TypeOK
<1>1. PhaseInv => TypeOK
  BY DEF PhaseInv
<1> QED
  BY <1>1, InitTypes, StepTypes, PTL DEF Spec

------------------------------------------------------------------------------
(***************************************************************************)
(* Calls stay in their phase: in the scheduling thread there is one at a   *)
(* time, and the pool is left when its last call has ended.                *)
(***************************************************************************)
UnderWay(m) == work[m] \in {"queued", "running"}

CallInv ==
    /\ pc \in {"phase", "end", "returned"} => \A m \in Modules : ~UnderWay(m)
    /\ pc = "call" =>
          /\ place \in DOMAIN Phases[phase]
          /\ \A m \in Modules : UnderWay(m) => m = Phases[phase][place]
    /\ InPool => phase \in Parallel /\ \A m \in Modules : UnderWay(m) => m \in Tasks

LEMMA CurrentIsTask ==
    ASSUME place \in DOMAIN Phases[phase]
    PROVE  Phases[phase][place] \in Tasks
BY DEF Tasks, Range

\* Every step keeps the calls in their phase.
LEMMA StepCalls ==
    ASSUME PhaseInv, CallInv, [Next]_vars
    PROVE  CallInv'
<1> USE DEF UnderWay
<1>1. ASSUME NEW m \in Modules, SkipDisabled(m) \/ SkipUpstream(m) PROVE CallInv'
  <2>1. pc = "phase" /\ UNCHANGED <<pc, work>>
    BY <1>1 DEF SkipDisabled, SkipUpstream, SkipWith, Due, InSerialPhase
  <2> QED
    BY <2>1 DEF CallInv, InPool
<1>2. ASSUME NEW m \in Modules, Call(m) PROVE CallInv'
  <2>1. /\ pc = "phase" /\ pc' = "call" /\ UNCHANGED <<phase, place>>
        /\ work' = [work EXCEPT ![m] = "running"]
        /\ m = Phases[phase][place]
    BY <1>2 DEF Call, Due, InSerialPhase
  <2>2. place \in DOMAIN Phases[phase]
    <3>1. phase \in DOMAIN Phases /\ Phases[phase] \in Seq(Modules)
      BY <2>1, ConstantTypes DEF PhaseInv
    <3>2. place \in Nat \ {0} /\ place <= Len(Phases[phase])
      BY <1>2 DEF Call, Due, PhaseInv, TypeOK
    <3> QED
      BY <3>1, <3>2
  <2>3. \A n \in Modules : work'[n] \in {"queued", "running"} => n = m
    BY <2>1 DEF CallInv, PhaseInv, TypeOK
  <2> QED
    BY <2>1, <2>2, <2>3 DEF CallInv, InPool
<1>3. ASSUME NEW m \in Modules, Start(m) PROVE CallInv'
  <2>1. /\ InPool /\ UNCHANGED <<phase, place, pc>> /\ UnderWay(m)
        /\ work' = [work EXCEPT ![m] = "running"]
    BY <1>3 DEF Start
  <2>2. \A n \in Modules : work'[n] \in {"queued", "running"} => UnderWay(n)
    BY <2>1 DEF PhaseInv, TypeOK
  <2> QED
    BY <2>1, <2>2 DEF CallInv, InPool, Tasks
<1>4. ASSUME NEW m \in Modules, NEW outcome \in Outcomes, CallReturns(m, outcome)
      PROVE  CallInv'
  <2>1. pc = "call" /\ UnderWay(m) /\ pc' = "phase" /\ work' = [work EXCEPT ![m] = outcome]
    BY <1>4 DEF CallReturns
  <2>2. \A n \in Modules : ~(work'[n] \in {"queued", "running"})
    BY <2>1 DEF CallInv, PhaseInv, TypeOK, Outcomes
  <2> QED
    BY <2>1, <2>2 DEF CallInv, InPool
<1>5. ASSUME NEW m \in Modules, NEW outcome \in Outcomes, Finish(m, outcome)
      PROVE  CallInv'
  <2>1. /\ InPool /\ UNCHANGED <<phase, place, pc>>
        /\ work' = [work EXCEPT ![m] = outcome]
    BY <1>5 DEF Finish
  <2>2. \A n \in Modules : work'[n] \in {"queued", "running"} => UnderWay(n)
    BY <2>1 DEF PhaseInv, TypeOK, Outcomes
  <2> QED
    BY <2>1, <2>2 DEF CallInv, InPool, Tasks
<1>6. ASSUME Submit PROVE CallInv'
  <2>1. /\ pc = "phase" /\ pc' = "wait" /\ phase \in Parallel /\ phase' = phase
        /\ work' = [m \in Modules |-> IF m \in Tasks THEN "queued" ELSE work[m]]
    BY <1>6 DEF Submit
  <2>2. \A m \in Modules : work'[m] \in {"queued", "running"} => m \in Tasks
    BY <2>1 DEF CallInv
  <2> QED
    BY <2>1, <2>2 DEF CallInv, InPool, Tasks
<1>7. ASSUME FirstWait \/ SecondWait PROVE CallInv'
  <2>1. InPool /\ pc' \in {"wait_again", "leave"} /\ UNCHANGED <<phase, work>>
    BY <1>7 DEF FirstWait, SecondWait, InPool
  <2> QED
    BY <2>1 DEF CallInv, InPool, Tasks
<1>8. ASSUME LeavePool PROVE CallInv'
  <2>1. InPool /\ pc' = "end" /\ work' = work /\ \A m \in Tasks : Finished(m)
    BY <1>8 DEF LeavePool, InPool
  <2>2. \A m \in Modules : ~UnderWay(m)
    BY <2>1 DEF CallInv, Finished, Outcomes
  <2> QED
    BY <2>1, <2>2 DEF CallInv, InPool
<1>9. ASSUME NextPhase PROVE CallInv'
  <2>1. pc \in {"phase", "end"} /\ pc' \in {"phase", "returned"} /\ work' = work
    BY <1>9 DEF NextPhase, EndOfPhase, InSerialPhase
  <2> QED
    BY <2>1 DEF CallInv, InPool
<1>10. CASE UNCHANGED vars
  BY <1>10 DEF vars, CallInv, InPool, Tasks
<1> QED
  BY <1>1, <1>2, <1>3, <1>4, <1>5, <1>6, <1>7, <1>8, <1>9, <1>10 DEF Next

LEMMA InitCalls == Init => CallInv
BY DEF Init, CallInv, InPool, UnderWay

\* A module is queued or runs only in its own phase (service.py:147): the calls
\* recorded as timed out end before the next phase begins.
THEOREM PhasesStayApart == Spec => []PhasesDoNotOverlap
<1>1. PhaseInv /\ CallInv => PhasesDoNotOverlap
  <2> SUFFICES ASSUME PhaseInv, CallInv, NEW m \in Modules, UnderWay(m)
               PROVE  pc # "returned" /\ m \in Tasks
    BY DEF PhasesDoNotOverlap, UnderWay
  <2>1. pc = "call" \/ InPool
    BY DEF PhaseInv, TypeOK, CallInv, InPool
  <2> QED
    BY <2>1, CurrentIsTask DEF CallInv, InPool
<1> QED
  BY <1>1, InitTypes, StepTypes, InitCalls, StepCalls, PTL DEF Spec

------------------------------------------------------------------------------
(***************************************************************************)
(* Causes of skips.  failed_modules lists the errors of the phases gone    *)
(* through, the modules of later phases are untouched, and what a serial   *)
(* module depends on does not change any more when its phase begins.       *)
(***************************************************************************)
FailedInv ==
    /\ \A d \in failed : \E p \in DOMAIN Phases : p < phase /\ d \in Range(Phases[p])
    /\ \A p \in DOMAIN Phases : p < phase =>
          \A d \in Range(Phases[p]) : d \in failed <=> results[d] \in Errors

Later(m) == \E p \in DOMAIN Phases : p > phase /\ m \in Range(Phases[p])

LaterInv == \A m \in Modules : Later(m) => work[m] = "idle" /\ results[m] = "none"

CauseInv == SerialSkipsHaveACause /\ FailedInv /\ LaterInv

Causes(m) == {d \in Dependencies[m] : results[d] \in Errors}

\* What a serial module depends on is in an earlier phase.
LEMMA DependenciesBefore ==
    ASSUME NEW p \in DOMAIN Phases, p \notin Parallel, NEW m \in Range(Phases[p]),
           NEW d \in Dependencies[m]
    PROVE  \E q \in DOMAIN Phases : q < p /\ d \in Range(Phases[q])
BY ClassicAssumption DEF ClassicAssumption

\* A serial module that has been entered or skipped is not waiting for results
\* of the current phase.
LEMMA CausesStay ==
    ASSUME PhaseInv, CauseInv, phase \in DOMAIN Phases, phase' = phase,
           \A d \in Modules : d \notin Tasks => results'[d] = results[d],
           NEW p \in DOMAIN Phases, p \notin Parallel, p <= phase, NEW m \in Range(Phases[p])
    PROVE  Causes(m)' = Causes(m)
<1>1. ASSUME NEW d \in Dependencies[m] PROVE results'[d] = results[d]
  <2>1. PICK q \in DOMAIN Phases : q < p /\ d \in Range(Phases[q])
    BY DependenciesBefore
  <2>2. q # phase
    BY <2>1, ConstantTypes DEF PhaseInv, TypeOK
  <2>3. d \notin Tasks /\ d \in Modules
    BY <2>1, <2>2, Disjoint, ConstantTypes DEF Tasks
  <2> QED
    BY <2>3
<1> QED
  BY <1>1 DEF Causes

\* No step within a phase changes anything outside it.
LEMMA WithinPhase ==
    ASSUME PhaseInv, PhaseInv', CauseInv, pc # "returned", phase' = phase, failed' = failed,
           \A m \in Modules : m \notin Tasks =>
               results'[m] = results[m] /\ work'[m] = work[m],
           \A m \in Tasks \cap SerialModules :
               /\ results'[m] = "upstream" => results[m] = "upstream" \/ Causes(m) # {}
               /\ m \in Entered' => m \in Entered \/ Causes(m) = {}
    PROVE  CauseInv'
<1>1. phase \in DOMAIN Phases /\ phase \in Nat /\ Tasks \subseteq Modules
  BY TaskTypes
<1>2. LaterInv'
  <2> SUFFICES ASSUME NEW m \in Modules, NEW p \in DOMAIN Phases, p > phase, m \in Range(Phases[p])
               PROVE  work'[m] = "idle" /\ results'[m] = "none"
    BY DEF LaterInv, Later
  <2>1. m \notin Tasks
    BY <1>1, Disjoint, ConstantTypes DEF Tasks
  <2> QED
    BY <2>1 DEF CauseInv, LaterInv, Later
<1>3. FailedInv'
  <2> SUFFICES ASSUME NEW p \in DOMAIN Phases, p < phase, NEW d \in Range(Phases[p])
               PROVE  d \in failed <=> results'[d] \in Errors
    BY DEF CauseInv, FailedInv
  <2>1. d \in Modules /\ d \notin Tasks
    BY <1>1, Disjoint, ConstantTypes DEF Tasks
  <2> QED
    BY <2>1 DEF CauseInv, FailedInv
<1>4. SerialSkipsHaveACause'
  <2> SUFFICES ASSUME NEW m \in SerialModules
               PROVE  /\ results'[m] = "upstream" => Causes(m)' # {}
                      /\ m \in Entered' => Causes(m)' = {}
    BY DEF SerialSkipsHaveACause, Causes
  <2>1. PICK p \in DOMAIN Phases : p \notin Parallel /\ m \in Range(Phases[p])
    BY DEF SerialModules
  <2>2. m \in Modules
    BY <2>1, ConstantTypes
  <2>3. CASE p > phase
    BY <1>2, <2>1, <2>2, <2>3 DEF LaterInv, Later, Entered
  <2>4. CASE p <= phase
    <3>1. Causes(m)' = Causes(m)
      BY <1>1, <2>1, <2>4, CausesStay
    <3>2. /\ results[m] = "upstream" => Causes(m) # {}
          /\ m \in Entered => Causes(m) = {}
      BY DEF CauseInv, SerialSkipsHaveACause, Causes
    <3>3. CASE m \in Tasks
      BY <3>1, <3>2, <3>3
    <3>4. CASE m \notin Tasks
      BY <2>2, <3>1, <3>2, <3>4 DEF Entered
    <3> QED
      BY <3>3, <3>4
  <2> QED
    BY <1>1, <2>3, <2>4, ConstantTypes
<1> QED
  BY <1>2, <1>3, <1>4 DEF CauseInv

\* The scheduling thread goes by the same errors.
LEMMA SkipDecides ==
    ASSUME PhaseInv, CauseInv, NEW m \in Modules, Due(m)
    PROVE  HasFailedDependency(m) <=> Causes(m) # {}
<1>1. phase \in DOMAIN Phases \ Parallel /\ m \in Range(Phases[phase])
  BY DueTask DEF Tasks
<1>2. \A d \in Dependencies[m] : d \in failed <=> results[d] \in Errors
  BY <1>1, DependenciesBefore DEF CauseInv, FailedInv
<1> QED
  BY <1>2 DEF HasFailedDependency, Causes

\* A task of a parallel phase is not a serial module.
LEMMA ParallelTasks ==
    ASSUME PhaseInv, pc # "returned", phase \in Parallel
    PROVE  Tasks \cap SerialModules = {}
<1> SUFFICES ASSUME NEW m \in Tasks, NEW p \in DOMAIN Phases \ Parallel, m \in Range(Phases[p])
             PROVE  FALSE
  BY DEF SerialModules
<1> QED
  BY Disjoint DEF Tasks, PhaseInv

LEMMA NextPhaseCauses ==
    ASSUME PhaseInv, CauseInv, NextPhase
    PROVE  CauseInv'
<1>1. /\ phase \in DOMAIN Phases /\ phase \in Nat /\ Tasks \subseteq Modules
      /\ phase' = phase + 1 /\ UNCHANGED <<work, results>>
      /\ failed' = failed \cup {m \in Tasks : results[m] \in Errors}
  BY TaskTypes DEF NextPhase, EndOfPhase, InSerialPhase
<1>2. \A p \in DOMAIN Phases : p \in Nat /\ (p < phase' <=> p < phase \/ p = phase)
  BY <1>1, ConstantTypes
<1>3. SerialSkipsHaveACause'
  BY <1>1 DEF CauseInv, SerialSkipsHaveACause, Entered
<1>4. LaterInv'
  <2>1. \A m \in Modules : Later(m)' => Later(m)
    BY <1>1, <1>2 DEF Later
  <2> QED
    BY <1>1, <2>1 DEF CauseInv, LaterInv
<1>5. ASSUME NEW d \in failed' PROVE \E p \in DOMAIN Phases : p < phase' /\ d \in Range(Phases[p])
  BY <1>1, <1>2, <1>5 DEF CauseInv, FailedInv, Tasks
<1>6. ASSUME NEW p \in DOMAIN Phases, p < phase', NEW d \in Range(Phases[p])
      PROVE  d \in failed' <=> results'[d] \in Errors
  <2>1. CASE p < phase
    <3>1. d \in failed <=> results[d] \in Errors
      BY <2>1 DEF CauseInv, FailedInv
    <3>2. d \notin Tasks
      BY <1>1, <2>1, Disjoint DEF Tasks
    <3> QED
      BY <1>1, <3>1, <3>2
  <2>2. CASE p = phase
    <3>1. d \in Tasks
      BY <2>2 DEF Tasks
    <3>2. d \notin failed
      <4> SUFFICES ASSUME d \in failed PROVE FALSE
        OBVIOUS
      <4>1. PICK q \in DOMAIN Phases : q < phase /\ d \in Range(Phases[q])
        BY DEF CauseInv, FailedInv
      <4> QED
        BY <1>1, <2>2, <4>1, Disjoint
    <3> QED
      BY <1>1, <3>1, <3>2
  <2> QED
    BY <1>2, <1>6, <2>1, <2>2
<1> QED
  BY <1>3, <1>4, <1>5, <1>6 DEF CauseInv, FailedInv

\* Every step keeps failures and skips in accord.
LEMMA StepCauses ==
    ASSUME PhaseInv, PhaseInv', CallInv, CauseInv, [Next]_vars
    PROVE  CauseInv'
<1>1. ASSUME NEW m \in Modules, SkipDisabled(m) \/ SkipUpstream(m) PROVE CauseInv'
  <2>1. /\ Due(m) /\ UNCHANGED <<phase, pc, work, failed>>
        /\ \/ results' = [results EXCEPT ![m] = "disabled"]
           \/ HasFailedDependency(m) /\ results' = [results EXCEPT ![m] = "upstream"]
    BY <1>1 DEF SkipDisabled, SkipUpstream, SkipWith
  <2>2. pc # "returned" /\ m \in Tasks
    BY <2>1, DueTask
  <2>3. HasFailedDependency(m) => Causes(m) # {}
    BY <2>1, SkipDecides
  <2>4. \A n \in Modules : n # m => results'[n] = results[n]
    BY <2>1 DEF PhaseInv, TypeOK
  <2>5. results'[m] = "upstream" => Causes(m) # {}
    BY <2>1, <2>3 DEF PhaseInv, TypeOK
  <2>6. Entered' = Entered /\ Tasks \subseteq Modules
    BY <2>1, <2>2, TaskTypes DEF Entered
  <2> QED
    BY <2>1, <2>2, <2>4, <2>5, <2>6, WithinPhase
<1>2. ASSUME NEW m \in Modules, Call(m) PROVE CauseInv'
  <2>1. /\ Due(m) /\ ~HasFailedDependency(m) /\ UNCHANGED <<phase, results, failed>>
        /\ work' = [work EXCEPT ![m] = "running"]
    BY <1>2 DEF Call
  <2>2. pc # "returned" /\ m \in Tasks
    BY <2>1, DueTask
  <2>3. Causes(m) = {}
    BY <2>1, SkipDecides
  <2>4. \A n \in Modules : n # m => work'[n] = work[n]
    BY <2>1 DEF PhaseInv, TypeOK
  <2>5. \A n \in Entered' : n = m \/ n \in Entered
    BY <2>4 DEF Entered
  <2> QED
    BY <2>1, <2>2, <2>3, <2>4, <2>5, WithinPhase
<1>3. ASSUME NEW m \in Modules, Start(m) PROVE CauseInv'
  <2>1. /\ InPool /\ UnderWay(m) /\ UNCHANGED <<phase, results, failed>>
        /\ work' = [work EXCEPT ![m] = "running"]
    BY <1>3 DEF Start, UnderWay
  <2>2. pc # "returned" /\ m \in Tasks /\ phase \in Parallel
    BY <2>1 DEF CallInv, InPool
  <2>3. \A n \in Modules : n # m => work'[n] = work[n]
    BY <2>1 DEF PhaseInv, TypeOK
  <2> QED
    BY <2>1, <2>2, <2>3, ParallelTasks, WithinPhase
<1>4. ASSUME NEW m \in Modules, NEW outcome \in Outcomes, CallReturns(m, outcome)
      PROVE  CauseInv'
  <2>1. /\ pc = "call" /\ work[m] = "running" /\ UNCHANGED <<phase, failed>>
        /\ work' = [work EXCEPT ![m] = outcome]
        /\ results' = [results EXCEPT ![m] = outcome]
    BY <1>4 DEF CallReturns
  <2>2. m \in Tasks
    BY <2>1, CurrentIsTask DEF CallInv, UnderWay
  <2>3. \A n \in Modules : n # m => work'[n] = work[n] /\ results'[n] = results[n]
    BY <2>1 DEF PhaseInv, TypeOK
  <2>4. m \in Entered /\ results'[m] # "upstream"
    BY <2>1 DEF Entered, Outcomes, PhaseInv, TypeOK
  <2>5. \A n \in Entered' : n \in Entered
    BY <2>3, <2>4 DEF Entered
  <2>6. Tasks \subseteq Modules
    BY <2>1, TaskTypes
  <2> QED
    BY <2>1, <2>2, <2>3, <2>4, <2>5, <2>6, WithinPhase
<1>5. ASSUME NEW m \in Modules, NEW outcome \in Outcomes, Finish(m, outcome)
      PROVE  CauseInv'
  <2>1. /\ InPool /\ UnderWay(m) /\ UNCHANGED <<phase, results, failed>>
        /\ work' = [work EXCEPT ![m] = outcome]
    BY <1>5 DEF Finish, UnderWay
  <2>2. pc # "returned" /\ m \in Tasks /\ phase \in Parallel
    BY <2>1 DEF CallInv, InPool
  <2>3. \A n \in Modules : n # m => work'[n] = work[n]
    BY <2>1 DEF PhaseInv, TypeOK
  <2> QED
    BY <2>1, <2>2, <2>3, ParallelTasks, WithinPhase
<1>6. ASSUME Submit PROVE CauseInv'
  <2>1. /\ pc # "returned" /\ phase \in Parallel /\ UNCHANGED <<phase, results, failed>>
        /\ \A m \in Modules : m \notin Tasks => work'[m] = work[m]
    BY <1>6 DEF Submit
  <2> QED
    BY <2>1, ParallelTasks, WithinPhase
<1>7. ASSUME FirstWait \/ SecondWait PROVE CauseInv'
  <2>1. /\ InPool /\ UNCHANGED <<phase, work, failed>>
        /\ \A m \in Modules : m \notin Tasks => results'[m] = results[m]
    BY <1>7 DEF FirstWait, SecondWait, InPool, ResultsOfDone, Pending
  <2>2. pc # "returned" /\ phase \in Parallel
    BY <2>1 DEF CallInv, InPool
  <2> QED
    BY <2>1, <2>2, ParallelTasks, WithinPhase
<1>8. CASE LeavePool
  BY <1>8 DEF LeavePool, CauseInv, SerialSkipsHaveACause, Entered, FailedInv, LaterInv, Later
<1>9. CASE NextPhase
  BY <1>9, NextPhaseCauses
<1>10. CASE UNCHANGED vars
  BY <1>10 DEF vars, CauseInv, SerialSkipsHaveACause, Entered, FailedInv, LaterInv, Later
<1> QED
  BY <1>1, <1>2, <1>3, <1>4, <1>5, <1>6, <1>7, <1>8, <1>9, <1>10 DEF Next

LEMMA InitCauses == Init => CauseInv
<1> SUFFICES ASSUME Init PROVE CauseInv
  OBVIOUS
<1>1. \A p \in DOMAIN Phases : ~(p < phase)
  BY ConstantTypes DEF Init
<1>2. FailedInv /\ LaterInv
  BY <1>1 DEF Init, FailedInv, LaterInv
<1>3. SerialSkipsHaveACause
  <2>1. SerialModules \subseteq Modules
    BY ConstantTypes DEF SerialModules
  <2> QED
    BY <2>1 DEF Init, SerialSkipsHaveACause, Entered
<1> QED
  BY <1>2, <1>3 DEF CauseInv

\* In serial phases exactly the modules behind an error are skipped for their
\* upstream (service.py:97), whatever is switched off, missing or timed out.
THEOREM SkipsHaveACause == Spec => []SerialSkipsHaveACause
<1>1. CauseInv => SerialSkipsHaveACause
  BY DEF CauseInv
<1> QED
  BY <1>1, InitTypes, StepTypes, InitCalls, StepCalls, InitCauses, StepCauses, PTL DEF Spec

------------------------------------------------------------------------------
(***************************************************************************)
(* The classic pipeline implements PhaseOrder: what is behind the          *)
(* scheduling thread is over, what is ahead of it is untouched, and the    *)
(* pool is left when each of its modules has a status.                     *)
(***************************************************************************)
Settled(m) == results[m] # "none" /\ (Finished(m) \/ results[m] \in {"disabled", "upstream"})

Untouched(m) == work[m] = "idle" /\ results[m] = "none"

SerialProgress ==
    \A i \in DOMAIN Phases[phase] :
        /\ i < place => Settled(Phases[phase][i])
        /\ i = place /\ pc = "call" => results[Phases[phase][i]] = "none"
        /\ i > place \/ (i = place /\ pc = "phase") => Untouched(Phases[phase][i])

ParallelProgress ==
    /\ pc = "phase" => \A m \in Tasks : Untouched(m)
    /\ pc = "leave" => \A m \in Tasks : results[m] # "none"
    /\ pc = "end" => \A m \in Tasks : Settled(m)

ProgressInv ==
    /\ \A p \in DOMAIN Phases : p < phase => \A m \in Range(Phases[p]) : Settled(m)
    /\ pc # "returned" /\ phase \notin Parallel => pc \in {"phase", "call"} /\ SerialProgress
    /\ pc # "returned" /\ phase \in Parallel => pc # "call" /\ ParallelProgress

LEMMA OncePerPhase ==
    ASSUME NEW p \in DOMAIN Phases, NEW i \in DOMAIN Phases[p], NEW k \in DOMAIN Phases[p],
           Phases[p][i] = Phases[p][k]
    PROVE  i = k
BY ClassicAssumption DEF ClassicAssumption

\* A step that changes one task of the current phase leaves the phases before.
LEMMA BeforeStays ==
    ASSUME PhaseInv, ProgressInv, pc # "returned", phase' = phase,
           \A n \in Modules : n \notin Tasks => results'[n] = results[n] /\ work'[n] = work[n]
    PROVE  \A p \in DOMAIN Phases : p < phase' => \A m \in Range(Phases[p]) : Settled(m)'
<1> SUFFICES ASSUME NEW p \in DOMAIN Phases, p < phase, NEW m \in Range(Phases[p])
             PROVE  Settled(m)'
  OBVIOUS
<1>1. phase \in DOMAIN Phases /\ phase \in Nat
  BY TaskTypes
<1>2. m \in Modules /\ m \notin Tasks
  BY <1>1, Disjoint, ConstantTypes DEF Tasks
<1> QED
  BY <1>2 DEF ProgressInv, Settled, Finished

\* Where the scheduling thread is in a serial phase.
LEMMA DuePlace ==
    ASSUME PhaseInv, pc # "returned", place <= Len(Phases[phase])
    PROVE  place \in DOMAIN Phases[phase]
<1>1. phase \in DOMAIN Phases /\ Phases[phase] \in Seq(Modules) /\ place \in Nat \ {0}
  BY TaskTypes, ConstantTypes DEF PhaseInv, TypeOK
<1> QED
  BY <1>1

\* A serial module that is skipped or reported makes way for the next.
LEMMA SerialAdvance ==
    ASSUME PhaseInv, ProgressInv, phase \notin Parallel, pc \in {"phase", "call"},
           NEW m \in Modules, place \in DOMAIN Phases[phase], m = Phases[phase][place],
           pc' = "phase", place' = place + 1, phase' = phase,
           \A n \in Modules : n # m => results'[n] = results[n] /\ work'[n] = work[n],
           Settled(m)'
    PROVE  ProgressInv'
<1>1. /\ phase \in DOMAIN Phases /\ place \in Nat /\ Tasks \subseteq Modules
      /\ DOMAIN Phases[phase] \subseteq Nat
      /\ m \in Tasks
  BY TaskTypes, ConstantTypes, CurrentIsTask DEF PhaseInv, TypeOK
<1>2. ASSUME NEW i \in DOMAIN Phases[phase]
      PROVE  /\ i < place' => Settled(Phases[phase][i])'
             /\ i >= place' => Untouched(Phases[phase][i])'
  <2>1. i \in Nat /\ (i < place' <=> i < place \/ i = place) /\ (i >= place' <=> i > place)
    BY <1>1
  <2>2. i # place => Phases[phase][i] # m
    BY <1>1, OncePerPhase
  <2>3. Phases[phase][i] \in Modules
    BY <1>1 DEF Tasks, Range
  <2>4. /\ i < place => Settled(Phases[phase][i])
        /\ i > place => Untouched(Phases[phase][i])
    BY DEF ProgressInv, SerialProgress
  <2>5. i < place => i # place
    BY <2>1, <1>1
  <2>6. i > place => i # place
    BY <2>1, <1>1
  <2> QED
    BY <2>1, <2>2, <2>3, <2>4, <2>5, <2>6 DEF Settled, Finished, Untouched
<1>3. SerialProgress'
  <2>1. place' \in Nat
    BY <1>1
  <2> QED
    BY <1>1, <1>2, <2>1 DEF SerialProgress
<1> QED
  BY <1>1, <1>3, BeforeStays DEF ProgressInv

\* Every step keeps to the order.
LEMMA StepProgress ==
    ASSUME PhaseInv, PhaseInv', CallInv, CauseInv, ProgressInv, [Next]_vars
    PROVE  ProgressInv'
<1>1. ASSUME NEW m \in Modules, SkipDisabled(m) \/ SkipUpstream(m) PROVE ProgressInv'
  <2>1. /\ Due(m) /\ UNCHANGED <<phase, pc, work>> /\ place' = place + 1
        /\ \E reason \in {"disabled", "upstream"} : results' = [results EXCEPT ![m] = reason]
    BY <1>1 DEF SkipDisabled, SkipUpstream, SkipWith
  <2>2. pc = "phase" /\ phase \notin Parallel /\ place \in DOMAIN Phases[phase]
        /\ m = Phases[phase][place]
    BY <2>1, DuePlace DEF Due, InSerialPhase
  <2>3. Settled(m)' /\ \A n \in Modules : n # m => results'[n] = results[n] /\ work'[n] = work[n]
    BY <2>1 DEF Settled, PhaseInv, TypeOK
  <2> QED
    BY <2>1, <2>2, <2>3, SerialAdvance
<1>2. ASSUME NEW m \in Modules, Call(m) PROVE ProgressInv'
  <2>1. /\ Due(m) /\ UNCHANGED <<phase, place, results>> /\ pc' = "call"
        /\ work' = [work EXCEPT ![m] = "running"]
    BY <1>2 DEF Call
  <2>2. pc = "phase" /\ phase \notin Parallel /\ place \in DOMAIN Phases[phase]
        /\ m = Phases[phase][place] /\ phase \in DOMAIN Phases
    BY <2>1, DuePlace, TaskTypes DEF Due, InSerialPhase
  <2>3. \A n \in Modules : n # m => work'[n] = work[n]
    BY <2>1 DEF PhaseInv, TypeOK
  <2>4. SerialProgress'
    <3> SUFFICES ASSUME NEW i \in DOMAIN Phases[phase]
                 PROVE  /\ i < place => Settled(Phases[phase][i])'
                        /\ i = place => results[Phases[phase][i]] = "none"
                        /\ i > place => Untouched(Phases[phase][i])'
      BY <2>1 DEF SerialProgress
    <3>1. i \in Nat /\ place \in Nat /\ Phases[phase][i] \in Modules
      BY <2>2, ConstantTypes DEF PhaseInv, TypeOK, Range
    <3>2. i < place \/ i > place => Phases[phase][i] # m
      BY <2>2, <3>1, OncePerPhase
    <3>3. /\ i < place => Settled(Phases[phase][i])
          /\ i >= place => Untouched(Phases[phase][i])
      BY <2>2, <3>1 DEF ProgressInv, SerialProgress
    <3> QED
      BY <2>1, <2>3, <3>1, <3>2, <3>3 DEF Settled, Finished, Untouched
  <2>5. \A n \in Modules : n \notin Tasks => results'[n] = results[n] /\ work'[n] = work[n]
    BY <2>1, <2>2, <2>3, CurrentIsTask
  <2> QED
    BY <2>1, <2>2, <2>4, <2>5, BeforeStays DEF ProgressInv
<1>3. ASSUME NEW m \in Modules, NEW outcome \in Outcomes, CallReturns(m, outcome)
      PROVE  ProgressInv'
  <2>1. /\ pc = "call" /\ UnderWay(m) /\ pc' = "phase" /\ place' = place + 1 /\ phase' = phase
        /\ work' = [work EXCEPT ![m] = outcome]
        /\ results' = [results EXCEPT ![m] = outcome]
    BY <1>3 DEF CallReturns, UnderWay
  <2>2. place \in DOMAIN Phases[phase] /\ m = Phases[phase][place] /\ phase \notin Parallel
    BY <2>1 DEF CallInv, ProgressInv
  <2>3. Settled(m)' /\ \A n \in Modules : n # m => results'[n] = results[n] /\ work'[n] = work[n]
    BY <2>1 DEF Settled, Finished, Outcomes, PhaseInv, TypeOK
  <2> QED
    BY <2>1, <2>2, <2>3, SerialAdvance
<1>4. ASSUME InPool, UNCHANGED <<phase, pc, results>>,
             \A n \in Modules : n \notin Tasks => work'[n] = work[n]
      PROVE  ProgressInv'
  <2>1. phase \in Parallel /\ pc \notin {"returned", "phase", "end", "call"}
    BY <1>4 DEF CallInv, InPool
  <2>2. ParallelProgress'
    BY <1>4, <2>1 DEF ProgressInv, ParallelProgress, Tasks
  <2> QED
    BY <1>4, <2>1, <2>2, BeforeStays DEF ProgressInv
<1>5. ASSUME NEW m \in Modules, Start(m) \/ \E outcome \in Outcomes : Finish(m, outcome)
      PROVE  ProgressInv'
  <2>1. /\ InPool /\ UnderWay(m) /\ UNCHANGED <<phase, pc, results>>
        /\ work' = [work EXCEPT ![m] = work'[m]]
    BY <1>5 DEF Start, Finish, UnderWay, PhaseInv, TypeOK
  <2>2. m \in Tasks
    BY <2>1 DEF CallInv
  <2>3. \A n \in Modules : n \notin Tasks => work'[n] = work[n]
    BY <2>1, <2>2 DEF PhaseInv, TypeOK
  <2> QED
    BY <1>4, <2>1, <2>3
<1>6. ASSUME Submit PROVE ProgressInv'
  <2>1. /\ pc # "returned" /\ phase \in Parallel /\ pc' = "wait" /\ UNCHANGED <<phase, results>>
        /\ \A m \in Modules : m \notin Tasks => work'[m] = work[m]
    BY <1>6 DEF Submit
  <2> QED
    BY <2>1, BeforeStays DEF ProgressInv, ParallelProgress
<1>7. ASSUME FirstWait \/ SecondWait PROVE ProgressInv'
  <2>1. /\ InPool /\ UNCHANGED <<phase, work>> /\ pc' \in {"wait_again", "leave"}
        /\ \A m \in Modules : m \notin Tasks => results'[m] = results[m]
    BY <1>7 DEF FirstWait, SecondWait, InPool, ResultsOfDone, Pending
  <2>2. phase \in Parallel /\ pc # "returned" /\ Tasks \subseteq Modules
    BY <2>1, TaskTypes DEF CallInv, InPool
  <2>3. ASSUME pc' = "leave", NEW m \in Tasks PROVE results'[m] # "none"
    <3>1. m \in Modules /\ ResultsOfDone[m] = IF m \in Pending /\ Finished(m) THEN work[m] ELSE results[m]
      BY <2>2 DEF ResultsOfDone
    <3>2. CASE FirstWait
      BY <2>3, <3>1, <3>2 DEF FirstWait, Pending, Finished, Outcomes
    <3>3. CASE SecondWait
      BY <2>3, <3>1, <3>3 DEF SecondWait, Pending, Finished, Outcomes
    <3> QED
      BY <1>7, <3>2, <3>3
  <2>4. ParallelProgress'
    BY <2>1, <2>3 DEF ParallelProgress, Tasks
  <2> QED
    BY <2>1, <2>2, <2>4, BeforeStays DEF ProgressInv
<1>8. ASSUME LeavePool PROVE ProgressInv'
  <2>1. /\ pc = "leave" /\ pc' = "end" /\ UNCHANGED <<phase, work, results>>
        /\ \A m \in Tasks : Finished(m)
    BY <1>8 DEF LeavePool
  <2>2. phase \in Parallel
    BY <2>1 DEF CallInv, InPool
  <2>3. ParallelProgress'
    BY <2>1, <2>2 DEF ProgressInv, ParallelProgress, Settled, Finished, Tasks
  <2> QED
    BY <2>1, <2>2, <2>3, BeforeStays DEF ProgressInv
<1>9. ASSUME NextPhase PROVE ProgressInv'
  <2>1. /\ phase' = phase + 1 /\ place' = 1 /\ pc' \in {"phase", "returned"}
        /\ UNCHANGED <<work, results>> /\ pc # "returned"
        /\ phase \in DOMAIN Phases /\ phase \in Nat
    BY <1>9, TaskTypes DEF NextPhase, EndOfPhase, InSerialPhase
  <2>2. ASSUME NEW m \in Tasks PROVE Settled(m)
    <3>1. CASE phase \in Parallel
      BY <1>9, <3>1, <2>2 DEF NextPhase, EndOfPhase, InSerialPhase, ProgressInv, ParallelProgress
    <3>2. CASE phase \notin Parallel
      <4>1. pc = "phase" /\ place > Len(Phases[phase]) /\ place \in Nat
        BY <1>9, <2>1, <3>2 DEF NextPhase, EndOfPhase, InSerialPhase, ProgressInv, PhaseInv, TypeOK
      <4>2. PICK i \in DOMAIN Phases[phase] : m = Phases[phase][i]
        BY <2>2 DEF Tasks, Range
      <4>3. Phases[phase] \in Seq(Modules)
        BY <2>1, ConstantTypes
      <4>4. i < place
        BY <4>1, <4>2, <4>3
      <4> QED
        BY <2>1, <3>2, <4>2, <4>4 DEF ProgressInv, SerialProgress
    <3> QED
      BY <3>1, <3>2
  <2>3. ASSUME NEW p \in DOMAIN Phases, p < phase', NEW m \in Range(Phases[p])
        PROVE  Settled(m)'
    <3>1. p < phase \/ p = phase
      BY <2>1, <2>3, ConstantTypes
    <3>2. Settled(m)
      BY <2>2, <2>3, <3>1 DEF ProgressInv, Tasks
    <3> QED
      BY <2>1, <3>2 DEF Settled, Finished
  <2>4. ASSUME pc' = "phase", NEW m \in Range(Phases[phase'])
        PROVE  Untouched(m)'
    <3>1. phase' \in DOMAIN Phases /\ phase' > phase
      BY <2>1, <2>4 DEF PhaseInv
    <3>2. m \in Modules /\ Later(m)
      BY <2>4, <3>1, ConstantTypes DEF Later
    <3> QED
      BY <2>1, <3>2 DEF Untouched, CauseInv, LaterInv
  <2>5. pc' = "phase" => phase' \in DOMAIN Phases
    BY DEF PhaseInv
  <2>6. pc' = "phase" => SerialProgress'
    <3> SUFFICES ASSUME pc' = "phase"
                 PROVE  SerialProgress'
      OBVIOUS
    <3>1. \A i \in DOMAIN Phases[phase'] :
              /\ i \in Nat \ {0}
              /\ work'[Phases[phase'][i]] = "idle"
              /\ results'[Phases[phase'][i]] = "none"
      BY <2>4, <2>5, ConstantTypes DEF Range, Untouched
    <3>2. \A i \in DOMAIN Phases[phase'] : ~(i < 1)
      BY <3>1
    <3> QED
      BY <2>1, <3>1, <3>2 DEF SerialProgress, Untouched
  <2>7. pc' = "phase" => ParallelProgress'
    BY <2>4 DEF ParallelProgress, Tasks
  <2> QED
    BY <2>1, <2>3, <2>6, <2>7 DEF ProgressInv
<1>10. CASE UNCHANGED vars
  BY <1>10 DEF vars, ProgressInv, SerialProgress, ParallelProgress, Settled, Untouched, Finished, Tasks
<1> QED
  BY <1>1, <1>2, <1>3, <1>5, <1>6, <1>7, <1>8, <1>9, <1>10 DEF Next

LEMMA InitProgress == Init => ProgressInv
<1> SUFFICES ASSUME Init PROVE ProgressInv
  OBVIOUS
<1>1. 1 \in DOMAIN Phases /\ \A p \in DOMAIN Phases : ~(p < phase)
  BY ConstantTypes DEF Init
<1>2. \A m \in Tasks : Untouched(m)
  BY <1>1, ConstantTypes DEF Init, Tasks, Untouched
<1>3. SerialProgress
  <2> SUFFICES ASSUME NEW i \in DOMAIN Phases[1]
               PROVE  ~(i < 1) /\ Untouched(Phases[1][i])
    BY DEF Init, SerialProgress
  <2>1. Phases[1][i] \in Tasks
    BY DEF Init, Tasks, Range
  <2>2. Phases[1] \in Seq(Modules)
    BY <1>1, ConstantTypes
  <2>3. i \in Nat \ {0}
    BY <2>2
  <2> QED
    BY <1>2, <2>1, <2>3
<1> QED
  BY <1>1, <1>2, <1>3 DEF Init, ProgressInv, ParallelProgress

ClassicInv == PhaseInv /\ CallInv /\ CauseInv /\ ProgressInv

LEMMA InitClassic == Init => ClassicInv
BY InitTypes, InitCalls, InitCauses, InitProgress DEF ClassicInv

LEMMA StepClassic == ClassicInv /\ [Next]_vars => ClassicInv'
BY StepTypes, StepCalls, StepCauses, StepProgress DEF ClassicInv

\* The terms of PhaseOrder.
LEMMA OrderTerms ==
    ASSUME TypeOK
    PROVE  /\ \A m \in Modules : Order!Over(m) <=> Settled(m)
           /\ \A p \in DOMAIN Phases : Order!Tasks(p) = Range(Phases[p])
           /\ Order!Serial = SerialModules
           /\ \A m : Order!SomeFailed(m) <=> Causes(m) # {}
           /\ DOMAIN Called = Modules
<1>1. \A m \in Modules : Order!Over(m) <=> Settled(m)
  BY DEF Order!Over, Order!Ended, Order!Outcomes, Settled, Finished, Outcomes, Called
<1>2. \A p \in DOMAIN Phases : Order!Tasks(p) = Range(Phases[p])
  BY DEF Order!Tasks, Range
<1>3. Order!Serial = SerialModules
  BY <1>2 DEF Order!Serial, SerialModules
<1>4. \A m : Order!SomeFailed(m) <=> Causes(m) # {}
  BY DEF Order!SomeFailed, Causes, Errors
<1> QED
  BY <1>1, <1>2, <1>3, <1>4 DEF Called

LEMMA CurrentPhaseOpen ==
    ASSUME ClassicInv, pc # "returned"
    PROVE  phase \in DOMAIN Phases /\ Order!PhaseOpen(phase)
<1>1. phase \in DOMAIN Phases
  BY DEF ClassicInv, PhaseInv
<1>2. ASSUME NEW q \in DOMAIN Phases, q < phase, NEW n \in Order!Tasks(q)
      PROVE  Order!Over(n)
  <2>1. n \in Range(Phases[q]) /\ n \in Modules
    BY <1>2, OrderTerms, ConstantTypes DEF ClassicInv, PhaseInv
  <2> QED
    BY <1>2, <2>1, OrderTerms DEF ClassicInv, ProgressInv, PhaseInv
<1> QED
  BY <1>1, <1>2 DEF Order!PhaseOpen

\* It is the turn of the module the scheduling thread is at.
LEMMA DueIsOpen ==
    ASSUME ClassicInv, NEW m \in Modules, Due(m)
    PROVE  /\ Order!Open(m) /\ m \in Order!Serial /\ m \in SerialModules
           /\ Called[m] = "idle" /\ results[m] = "none"
<1>1. /\ pc = "phase" /\ phase \notin Parallel /\ phase \in DOMAIN Phases
      /\ place \in DOMAIN Phases[phase] /\ m = Phases[phase][place]
  BY DuePlace, CurrentPhaseOpen DEF Due, InSerialPhase, ClassicInv
<1>2. SerialProgress
  BY <1>1 DEF ClassicInv, ProgressInv
<1>3. Untouched(m)
  BY <1>1, <1>2 DEF SerialProgress
<1>4. ASSUME NEW k \in DOMAIN Phases[phase], k < place PROVE Order!Over(Phases[phase][k])
  <2>1. Phases[phase][k] \in Modules
    BY <1>1, ConstantTypes DEF Range
  <2> QED
    BY <1>2, <1>4, <2>1, OrderTerms DEF SerialProgress, ClassicInv, PhaseInv
<1>5. Order!Open(m)
  BY <1>1, <1>4, CurrentPhaseOpen DEF Order!Open
<1>6. m \in Order!Serial /\ m \in SerialModules
  BY <1>1, OrderTerms DEF SerialModules, Range, ClassicInv, PhaseInv
<1> QED
  BY <1>3, <1>5, <1>6 DEF Untouched, Called

\* In a parallel phase each task may begin at any time.
LEMMA TaskIsOpen ==
    ASSUME ClassicInv, InPool, NEW m \in Tasks
    PROVE  Order!Open(m) /\ m \notin Order!Serial /\ m \notin SerialModules
<1>1. phase \in Parallel /\ pc # "returned"
  BY DEF InPool, ClassicInv, CallInv
<1>2. phase \in DOMAIN Phases /\ Order!PhaseOpen(phase)
  BY <1>1, CurrentPhaseOpen
<1>3. PICK i \in DOMAIN Phases[phase] : m = Phases[phase][i]
  BY DEF Tasks, Range
<1>4. m \notin Order!Serial /\ m \notin SerialModules
  BY <1>1, ParallelTasks, OrderTerms DEF ClassicInv, PhaseInv
<1> QED
  BY <1>1, <1>2, <1>3, <1>4 DEF Order!Open

\* The modules a wait has found done, and those it gives up.
LEMMA WaitCollects ==
    ASSUME ClassicInv, FirstWait \/ SecondWait
    PROVE  \E p \in DOMAIN Phases \cap Parallel :
              \E done, late \in SUBSET Order!Tasks(p) : Order!Collect(p, done, late)
<1>1. /\ InPool /\ UNCHANGED work
      /\ phase \in Parallel /\ phase \in DOMAIN Phases /\ Order!PhaseOpen(phase)
      /\ Pending \subseteq Order!Tasks(phase) /\ Pending \subseteq Modules
  <2>1. InPool /\ work' = work
    BY DEF FirstWait, SecondWait, InPool
  <2>2. phase \in Parallel /\ pc # "returned"
    BY <2>1 DEF InPool, ClassicInv, CallInv
  <2>3. phase \in DOMAIN Phases /\ Order!PhaseOpen(phase) /\ Tasks \subseteq Modules
    BY <2>2, CurrentPhaseOpen, TaskTypes DEF ClassicInv
  <2>4. Order!Tasks(phase) = Tasks
    BY <2>3, OrderTerms DEF Tasks, ClassicInv, PhaseInv
  <2> QED
    BY <2>1, <2>2, <2>3, <2>4 DEF Pending
<1> DEFINE done == {m \in Pending : Finished(m)}
           late == {m \in Pending : ~Finished(m) /\ SecondWait}
<1>2. /\ \A m \in done \cup late : results[m] = "none"
      /\ \A m \in done : Order!Ended(m)
      /\ \A m \in late : ~Order!Ended(m)
      /\ \A m \in done : Called[m] = work[m]
  BY <1>1 DEF Pending, Finished, Outcomes, Order!Ended, Order!Outcomes, Called
<1>3. results' = [m \in Modules |->
                    IF m \in done THEN Called[m]
                    ELSE IF m \in late THEN "timeout" ELSE results[m]]
  <2>1. CASE FirstWait
    <3>1. ~SecondWait
      BY <2>1 DEF FirstWait, SecondWait
    <3> QED
      BY <1>2, <2>1, <3>1 DEF FirstWait, ResultsOfDone
  <2>2. CASE SecondWait
    BY <1>2, <2>2 DEF SecondWait, ResultsOfDone
  <2> QED
    BY <2>1, <2>2
<1>4. Called' = Called
  BY <1>1 DEF Called
<1>5. done \in SUBSET Order!Tasks(phase) /\ late \in SUBSET Order!Tasks(phase)
  BY <1>1
<1> HIDE DEF done, late
<1>6. Order!Collect(phase, done, late)
  BY <1>1, <1>2, <1>3, <1>4 DEF Order!Collect
<1> QED
  BY <1>1, <1>5, <1>6

\* Every step is a step of PhaseOrder or leaves what it speaks of alone.
LEMMA StepOrder == ClassicInv /\ [Next]_vars => [Order!Next]_(Order!vars)
<1> SUFFICES ASSUME ClassicInv, [Next]_vars PROVE Order!Next \/ UNCHANGED <<Called, results>>
  BY DEF Order!vars
<1>0. TypeOK /\ DOMAIN Called = Modules
  BY OrderTerms DEF ClassicInv, PhaseInv
<1>1. ASSUME NEW m \in Modules, SkipDisabled(m) PROVE Order!Next
  <2>1. Due(m) /\ m \in Disabled /\ work' = work /\ results' = [results EXCEPT ![m] = "disabled"]
    BY <1>1 DEF SkipDisabled, SkipWith
  <2>2. Called' = Called
    BY <2>1 DEF Called
  <2>3. Order!Skip(m, "disabled")
    BY <2>1, <2>2, DueIsOpen DEF Order!Skip
  <2> QED
    BY <2>3 DEF Order!Next
<1>2. ASSUME NEW m \in Modules, SkipUpstream(m) PROVE Order!Next
  <2>1. /\ Due(m) /\ m \notin Disabled /\ HasFailedDependency(m)
        /\ work' = work /\ results' = [results EXCEPT ![m] = "upstream"]
    BY <1>2 DEF SkipUpstream, SkipWith
  <2>2. Called' = Called
    BY <2>1 DEF Called
  <2>3. Order!SomeFailed(m)
    BY <1>0, <2>1, SkipDecides, OrderTerms DEF ClassicInv
  <2>4. Order!Skip(m, "upstream")
    BY <2>1, <2>2, <2>3, DueIsOpen DEF Order!Skip
  <2> QED
    BY <2>4 DEF Order!Next
<1>3. ASSUME NEW m \in Modules, Call(m) PROVE Order!Next
  <2>1. /\ Due(m) /\ m \notin Disabled /\ ~HasFailedDependency(m)
        /\ work' = [work EXCEPT ![m] = "running"] /\ results' = results
    BY <1>3 DEF Call
  <2>2. Called' = [Called EXCEPT ![m] = "running"]
    BY <1>0, <2>1 DEF Called, TypeOK
  <2>3. ~Order!SomeFailed(m)
    BY <1>0, <2>1, SkipDecides, OrderTerms DEF ClassicInv
  <2>4. Order!Enter(m)
    BY <2>1, <2>2, <2>3, DueIsOpen DEF Order!Enter
  <2> QED
    BY <2>4 DEF Order!Next
<1>4. ASSUME NEW m \in Modules, Start(m) PROVE Order!Next
  <2>1. /\ InPool /\ UnderWay(m) /\ work[m] = "queued"
        /\ work' = [work EXCEPT ![m] = "running"] /\ results' = results
    BY <1>4 DEF Start, UnderWay
  <2>2. m \in Tasks
    BY <2>1 DEF ClassicInv, CallInv
  <2>3. Called[m] = "idle" /\ Called' = [Called EXCEPT ![m] = "running"]
    BY <1>0, <2>1 DEF Called, TypeOK
  <2>4. Order!Enter(m)
    BY <2>1, <2>2, <2>3, TaskIsOpen DEF Order!Enter
  <2> QED
    BY <2>4 DEF Order!Next
<1>5. ASSUME NEW m \in Modules, NEW outcome \in Outcomes, CallReturns(m, outcome)
      PROVE  Order!Next
  <2>1. /\ pc = "call" /\ UnderWay(m) /\ work[m] = "running"
        /\ work' = [work EXCEPT ![m] = outcome]
        /\ results' = [results EXCEPT ![m] = outcome]
    BY <1>5 DEF CallReturns, UnderWay
  <2>2. /\ place \in DOMAIN Phases[phase] /\ m = Phases[phase][place] /\ phase \notin Parallel
        /\ phase \in DOMAIN Phases
    BY <2>1 DEF ClassicInv, CallInv, ProgressInv, PhaseInv
  <2>3. results[m] = "none"
    BY <2>1, <2>2 DEF ClassicInv, ProgressInv, SerialProgress
  <2>4. m \in Order!Serial
    BY <1>0, <2>2, OrderTerms DEF SerialModules, Range
  <2>5. Called[m] = "running" /\ Called' = [Called EXCEPT ![m] = outcome]
    BY <1>0, <2>1 DEF Called, Outcomes, TypeOK
  <2>6. Order!End(m, outcome)
    BY <2>1, <2>3, <2>4, <2>5 DEF Order!End
  <2> QED
    BY <2>6 DEF Order!Next, Order!Outcomes, Outcomes
<1>6. ASSUME NEW m \in Modules, NEW outcome \in Outcomes, Finish(m, outcome)
      PROVE  Order!Next
  <2>1. /\ InPool /\ UnderWay(m) /\ work[m] = "running"
        /\ work' = [work EXCEPT ![m] = outcome] /\ results' = results
    BY <1>6 DEF Finish, UnderWay
  <2>2. m \in Tasks
    BY <2>1 DEF ClassicInv, CallInv
  <2>3. Called[m] = "running" /\ Called' = [Called EXCEPT ![m] = outcome]
    BY <1>0, <2>1 DEF Called, Outcomes, TypeOK
  <2>4. Order!End(m, outcome)
    BY <2>1, <2>2, <2>3, TaskIsOpen DEF Order!End
  <2> QED
    BY <2>4 DEF Order!Next, Order!Outcomes, Outcomes
<1>7. ASSUME Submit PROVE UNCHANGED <<Called, results>>
  <2>1. /\ pc = "phase" /\ phase \in Parallel /\ results' = results
        /\ work' = [m \in Modules |-> IF m \in Tasks THEN "queued" ELSE work[m]]
    BY <1>7 DEF Submit
  <2>2. \A m \in Tasks : work[m] = "idle"
    BY <2>1 DEF ClassicInv, ProgressInv, ParallelProgress, Untouched
  <2> QED
    BY <2>1, <2>2 DEF Called
<1>8. ASSUME FirstWait \/ SecondWait PROVE Order!Next
  BY <1>8, WaitCollects DEF Order!Next
<1>9. ASSUME LeavePool \/ NextPhase PROVE UNCHANGED <<Called, results>>
  BY <1>9 DEF LeavePool, NextPhase, Called
<1>10. CASE UNCHANGED vars
  BY <1>10 DEF vars, Called
<1> QED
  BY <1>1, <1>2, <1>3, <1>4, <1>5, <1>6, <1>7, <1>8, <1>9, <1>10 DEF Next

LEMMA InitOrder == Init => Order!Init
BY DEF Init, Order!Init, Called

\* For any phases, parallel or serial in any order, any dependencies on earlier
\* phases and any modules switched off, _run_classic_pipeline implements
\* PhaseOrder.
THEOREM ClassicImplementsOrder == Spec => KeepsOrderOfPhases
BY InitClassic, StepClassic, InitOrder, StepOrder, PTL DEF Spec, Order!Spec, KeepsOrderOfPhases

==============================================================================
