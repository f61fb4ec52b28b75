---------------------------- MODULE ClassicPipeline ----------------------------
(***************************************************************************)
(* logic_layer/logic_pipeline/service.py: _run_classic_pipeline runs the   *)
(* modules of the logic layer in five phases.  _run_phase runs a phase in  *)
(* the scheduling thread and skips a module that is switched off or has a  *)
(* failed dependency; _run_phase_parallel hands a phase to a thread pool,  *)
(* waits for it twice and records what is still pending as timed out.      *)
(***************************************************************************)
EXTENDS Naturals, Sequences, FiniteSets

CONSTANTS
    Modules,        \* the module names of the five phases
    Phases,         \* the modules of each phase, in their order
    Parallel,       \* the numbers of the phases run by _run_phase_parallel
    Dependencies,   \* _MODULE_DEPENDENCIES, {} for a module without an entry
    MaxWorkers,     \* PHASE2_MAX_WORKERS
    Hanging,        \* the modules whose function may never return
    Disabled        \* the modules whose feature flag is off

Range(s) == {s[i] : i \in DOMAIN s}

\* A module has one place in one phase; what a module of a serial phase depends
\* on has an earlier phase.
ASSUME ClassicAssumption ==
    /\ Phases \in Seq(Seq(Modules)) /\ Phases # <<>>
    /\ \A p, q \in DOMAIN Phases : p # q => Range(Phases[p]) \cap Range(Phases[q]) = {}
    /\ \A p \in DOMAIN Phases : \A i, k \in DOMAIN Phases[p] :
          Phases[p][i] = Phases[p][k] => i = k
    /\ Parallel \subseteq DOMAIN Phases
    /\ \A p \in DOMAIN Phases \ Parallel : \A m \in Range(Phases[p]) :
          \A d \in Dependencies[m] : \E q \in DOMAIN Phases : q < p /\ d \in Range(Phases[q])
    /\ MaxWorkers \in Nat \ {0}
    /\ Hanging \subseteq Modules
    /\ Disabled \subseteq Modules

VARIABLES
    phase,          \* the number of the current phase
    place,          \* _run_phase: the next module of the phase
    pc,             \* what the scheduling thread is doing
    work,           \* what the threads have done of each module's function
    results,        \* all_results with the results of the current phase
    failed          \* failed_modules, brought up to date after each phase

vars == <<phase, place, pc, work, results, failed>>

Tasks == Range(Phases[phase])

\* What _execute_task and _run_phase make of a call: "unavailable" stands for
\* an exception that says the source table does not exist yet.
Outcomes == {"success", "error", "unavailable"}

Finished(m) == work[m] \in Outcomes

Running == {m \in Modules : work[m] = "running"}

Pending == {m \in Tasks : results[m] = "none"}

\* The statuses whose text contains "error".
Errors == {"error", "timeout"}

HasFailedDependency(m) == Dependencies[m] \cap failed # {}

Init ==
    /\ phase = 1
    /\ place = 1
    /\ pc = "phase"
    /\ work = [m \in Modules |-> "idle"]
    /\ results = [m \in Modules |-> "none"]
    /\ failed = {}

------------------------------------------------------------------------------
\* _run_phase.

InSerialPhase == pc = "phase" /\ phase \notin Parallel

Due(m) == InSerialPhase /\ place <= Len(Phases[phase]) /\ m = Phases[phase][place]

SkipWith(m, reason) ==
    /\ results' = [results EXCEPT ![m] = reason]
    /\ place' = place + 1
    /\ UNCHANGED <<phase, pc, work, failed>>

\* The feature flag is looked at first.
SkipDisabled(m) ==
    /\ Due(m)
    /\ m \in Disabled
    /\ SkipWith(m, "disabled")

SkipUpstream(m) ==
    /\ Due(m)
    /\ m \notin Disabled
    /\ HasFailedDependency(m)
    /\ SkipWith(m, "upstream")

Call(m) ==
    /\ Due(m)
    /\ m \notin Disabled
    /\ ~HasFailedDependency(m)
    /\ pc' = "call"
    /\ work' = [work EXCEPT ![m] = "running"]
    /\ UNCHANGED <<phase, place, results, failed>>

CallReturns(m, outcome) ==
    /\ pc = "call"
    /\ work[m] = "running"
    /\ work' = [work EXCEPT ![m] = outcome]
    /\ results' = [results EXCEPT ![m] = outcome]
    /\ place' = place + 1
    /\ pc' = "phase"
    /\ UNCHANGED <<phase, failed>>

------------------------------------------------------------------------------
\* _run_phase_parallel.

Submit ==
    /\ pc = "phase"
    /\ phase \in Parallel
    /\ work' = [m \in Modules |-> IF m \in Tasks THEN "queued" ELSE work[m]]
    /\ pc' = "wait"
    /\ UNCHANGED <<phase, place, results, failed>>

InPool == pc \in {"wait", "wait_again", "leave"}

Start(m) ==
    /\ InPool
    /\ work[m] = "queued"
    /\ Cardinality(Running) < MaxWorkers
    /\ work' = [work EXCEPT ![m] = "running"]
    /\ UNCHANGED <<phase, place, pc, results, failed>>

Finish(m, outcome) ==
    /\ InPool
    /\ work[m] = "running"
    /\ work' = [work EXCEPT ![m] = outcome]
    /\ UNCHANGED <<phase, place, pc, results, failed>>

\* results of the futures that wait() returned as done.
ResultsOfDone ==
    [m \in Modules |-> IF m \in Pending /\ Finished(m) THEN work[m] ELSE results[m]]

\* By a deadline the pool has begun with the phase.
PoolHasBegun == \E m \in Tasks : work[m] # "queued"

\* The first wait returns when everything is done, or at the timeout:
\* _execute_task raises nothing, so no exception ends it early.
FirstWait ==
    /\ pc = "wait"
    /\ PoolHasBegun
    /\ results' = ResultsOfDone
    /\ pc' = IF \A m \in Tasks : Finished(m) THEN "leave" ELSE "wait_again"
    /\ UNCHANGED <<phase, place, work, failed>>

\* Fault: only calls that have begun are recorded as timed out.
SecondWaitOfBegun ==
    /\ pc = "wait_again"
    /\ results' =
        [m \in Modules |->
            IF m \in Pending /\ work[m] = "running" THEN "timeout" ELSE ResultsOfDone[m]]
    /\ pc' = "leave"
    /\ UNCHANGED <<phase, place, work, failed>>

\* The second wait, for the modules that were not done: those still not done
\* when it returns are recorded as timed out.
SecondWait ==
    /\ pc = "wait_again"
    /\ results' =
        [m \in Modules |->
            IF m \in Pending /\ ~Finished(m) THEN "timeout" ELSE ResultsOfDone[m]]
    /\ pc' = "leave"
    /\ UNCHANGED <<phase, place, work, failed>>

\* Fault: the pool is left without waiting for the calls that were given up.
LeavePoolAtOnce ==
    /\ pc = "leave"
    /\ pc' = "end"
    /\ UNCHANGED <<phase, place, work, results, failed>>

\* Leaving the executor waits for the running and the queued calls.
LeavePool ==
    /\ pc = "leave"
    /\ \A m \in Tasks : Finished(m)
    /\ pc' = "end"
    /\ UNCHANGED <<phase, place, work, results, failed>>

------------------------------------------------------------------------------
EndOfPhase ==
    \/ InSerialPhase /\ place > Len(Phases[phase])
    \/ pc = "end"

\* Fault: whatever is not a success counts as a failure.
NextPhaseStrict ==
    /\ EndOfPhase
    /\ failed' = failed \cup {m \in Tasks : results[m] # "success"}
    /\ phase' = phase + 1
    /\ place' = 1
    /\ pc' = IF phase = Len(Phases) THEN "returned" ELSE "phase"
    /\ UNCHANGED <<work, results>>

\* Fault: the last phase is not recognised as the last.
NextPhaseAgain ==
    /\ EndOfPhase
    /\ failed' = failed \cup {m \in Tasks : results[m] \in Errors}
    /\ phase' = phase + 1
    /\ place' = 1
    /\ pc' = IF phase > Len(Phases) THEN "returned" ELSE "again"
    /\ UNCHANGED <<work, results>>

\* _run_classic_pipeline between two phases.
NextPhase ==
    /\ EndOfPhase
    /\ failed' = failed \cup {m \in Tasks : results[m] \in Errors}
    /\ phase' = phase + 1
    /\ place' = 1
    /\ pc' = IF phase = Len(Phases) THEN "returned" ELSE "phase"
    /\ UNCHANGED <<work, results>>

Next ==
    \/ \E m \in Modules : SkipDisabled(m) \/ SkipUpstream(m) \/ Call(m) \/ Start(m)
    \/ \E m \in Modules, outcome \in Outcomes : CallReturns(m, outcome) \/ Finish(m, outcome)
    \/ Submit
    \/ FirstWait
    \/ SecondWait
    \/ LeavePool
    \/ NextPhase

Spec == Init /\ [][Next]_vars

\* The scheduling thread and the pool run, the timeouts of the two waits pass,
\* and a module that does not hang returns.
Fairness ==
    /\ WF_vars(\E m \in Modules : SkipDisabled(m) \/ SkipUpstream(m) \/ Call(m))
    /\ WF_vars(Submit \/ FirstWait \/ SecondWait \/ LeavePool \/ NextPhase)
    /\ \A m \in Modules : WF_vars(Start(m))
    /\ \A m \in Modules \ Hanging :
        WF_vars(\E outcome \in Outcomes : CallReturns(m, outcome) \/ Finish(m, outcome))

FairSpec == Spec /\ Fairness
------------------------------------------------------------------------------
TypeOK ==
    /\ phase \in 1..(Len(Phases) + 1)
    /\ place \in Nat \ {0}
    /\ pc \in {"phase", "call", "wait", "wait_again", "leave", "end", "returned"}
    /\ work \in [Modules -> {"idle", "queued", "running"} \cup Outcomes]
    /\ results \in [Modules -> {"none", "disabled", "upstream", "timeout"} \cup Outcomes]
    /\ failed \subseteq Modules

Entered == {m \in Modules : work[m] \notin {"idle", "queued"}}

SerialModules ==
    UNION {Range(Phases[p]) : p \in DOMAIN Phases \ Parallel}

\* The phases do not overlap, although modules that were given up go on in the
\* pool: a call is under way only of a module of the current phase.
PhasesDoNotOverlap ==
    \A m \in Modules : work[m] \in {"queued", "running"} => pc # "returned" /\ m \in Tasks

\* In the phases that _run_phase runs, a module is skipped for its upstream
\* exactly when one it depends on was reported an error: neither a module that
\* is switched off nor one without a source table holds others back.
SerialSkipsHaveACause ==
    \A m \in SerialModules :
        LET causes == {d \in Dependencies[m] : results[d] \in Errors} IN
        /\ results[m] = "upstream" => causes # {}
        /\ m \in Entered => causes = {}

\* What the functions have done: a call that waits in the pool has not begun.
Called == [m \in Modules |-> IF work[m] = "queued" THEN "idle" ELSE work[m]]

Order == INSTANCE PhaseOrder WITH work <- Called, Checked <- SerialModules

\* _run_classic_pipeline keeps the order of its phases: with statuses collected
\* late, calls given up that begin or end afterwards, and failed_modules brought
\* up to date between phases only, a module begins when all phases before it are
\* over, a module of a serial phase is held back exactly by errors, and each
\* keeps the status it was given.
KeepsOrderOfPhases == Order!Spec

\* Every module of a parallel phase gets a status although one of them hangs and
\* holds a thread the others queue for.
StatusDespiteHungCall ==
    \A p \in Parallel : phase = p ~> \A m \in Range(Phases[p]) : results[m] # "none"

\* What a failure or a timeout does to others (violated): in the end each module
\* that does not hang has a status, and was skipped exactly if one it depends on
\* was reported an error.  "Downstream phases skip modules whose dependencies
\* failed" (service.py:310), and a module that times out does not block the others
\* (service.py:40, src/README.md:730).  But _run_phase_parallel looks at no
\* dependency, and a module that hangs keeps its executor from being left.
FailuresStayContained ==
    <>[](\A m \in Modules \ (Hanging \cup Disabled) :
            /\ results[m] # "none"
            /\ results[m] = "upstream" <=> \E d \in Dependencies[m] : results[d] \in Errors)
==============================================================================
