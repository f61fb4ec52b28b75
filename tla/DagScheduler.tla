----------------------------- MODULE DagScheduler -----------------------------
(***************************************************************************)
(* logic_layer/logic_pipeline/dag_scheduler.py: run_dag executes the       *)
(* modules of the logic layer level by level.  A level is submitted to a   *)
(* thread pool, the scheduling thread collects the statuses as they come   *)
(* until a deadline, and leaving the pool waits for every module that was  *)
(* submitted, given up or not.  A level of one module runs in the          *)
(* scheduling thread itself, without a deadline.                           *)
(***************************************************************************)
EXTENDS Naturals, FiniteSets

CONSTANTS
    Modules,      \* the names of the nodes
    DependsOn,    \* ModuleNode.depends_on, which may hold names without a node
    MaxWorkers,   \* DAG_MAX_WORKERS
    Hanging       \* the modules whose function may never return

ASSUME DagAssumption ==
    /\ Modules # {}
    /\ MaxWorkers \in Nat \ {0}
    /\ Hanging \subseteq Modules

VARIABLES
    pc,           \* what the scheduling thread is doing
    passed,       \* the modules of the levels already gone through
    level,        \* runnable: the modules submitted for the current level
    work,         \* what the threads have done of each module's function
    results,      \* all_results
    failed        \* failed_modules

vars == <<pc, passed, level, work, results, failed>>

Upstream(m) == DependsOn[m] \cap Modules

\* Fault: a name without a node counts in the in-degree.
NextLevelOfNames == {m \in Modules \ passed : DependsOn[m] \subseteq passed}

\* topological_levels: a node's in-degree reaches zero in the level that
\* follows the last of its dependencies.
NextLevel == {m \in Modules \ passed : Upstream(m) \subseteq passed}

Finished(m) == work[m] \in {"success", "error"}

Running == {m \in Modules : work[m] = "running"}

Uncollected == {m \in level : results[m] = "none"}

Init ==
    /\ pc = "levels"
    /\ passed = {}
    /\ level = {}
    /\ work = [m \in Modules |-> "idle"]
    /\ results = [m \in Modules |-> "none"]
    /\ failed = {}

------------------------------------------------------------------------------
\* Fault: a module that was skipped does not hold back its own dependents.
BlockedByErrors ==
    {m \in NextLevel : \E d \in DependsOn[m] \cap failed : results[d] # "skipped"}

\* The nodes of a level that run_dag does not run.
Blocked == {m \in NextLevel : DependsOn[m] \cap failed # {}}

\* The head of the loop over the levels: nodes with a failed dependency are
\* skipped and count as failed themselves, the others are submitted.
StartLevel ==
    /\ pc = "levels"
    /\ NextLevel # {}
    /\ results' = [m \in Modules |-> IF m \in Blocked THEN "skipped" ELSE results[m]]
    /\ failed' = failed \cup Blocked
    /\ level' = NextLevel \ Blocked
    /\ work' = [m \in Modules |-> IF m \in NextLevel \ Blocked THEN "queued" ELSE work[m]]
    /\ passed' = passed \cup Blocked
    /\ pc' = IF NextLevel = Blocked THEN "levels" ELSE "collect"

\* A thread of the pool, or the scheduling thread, calls the module.
Call(m) ==
    /\ work[m] = "queued"
    /\ Cardinality(Running) < MaxWorkers
    /\ work' = [work EXCEPT ![m] = "running"]
    /\ UNCHANGED <<pc, passed, level, results, failed>>

\* Fault: the exception of the function escapes as the status.
FinishWithUnknownStatus(m, status) ==
    /\ work[m] = "running"
    /\ work' = [work EXCEPT ![m] = IF status = "error" THEN "raised" ELSE status]
    /\ UNCHANGED <<pc, passed, level, results, failed>>

\* _execute_module turns what the function does into a status.
Finish(m, status) ==
    /\ work[m] = "running"
    /\ work' = [work EXCEPT ![m] = status]
    /\ UNCHANGED <<pc, passed, level, results, failed>>

\* as_completed yields a future that is done.
Collect(m) ==
    /\ pc = "collect"
    /\ m \in Uncollected
    /\ Finished(m)
    /\ results' = [results EXCEPT ![m] = work[m]]
    /\ failed' = IF work[m] = "success" THEN failed ELSE failed \cup {m}
    /\ UNCHANGED <<pc, passed, level, work>>

\* Fault: the deadline covers only the modules that have begun.
TimeoutOfBegun ==
    /\ pc = "collect"
    /\ \E m, n \in level : m # n
    /\ \E m \in level : work[m] # "queued"
    /\ Uncollected # {}
    /\ LET late == {m \in Uncollected : work[m] # "queued"} IN
       /\ results' = [m \in Modules |-> IF m \in late THEN "timeout" ELSE results[m]]
       /\ failed' = failed \cup late
    /\ pc' = "leave"
    /\ UNCHANGED <<passed, level, work>>

\* as_completed gives up: whatever was not collected, returned or not, is
\* recorded as timed out.  Only a level of several modules has the deadline,
\* and by then the pool has begun with the level.
Timeout ==
    /\ pc = "collect"
    /\ \E m, n \in level : m # n
    /\ \E m \in level : work[m] # "queued"
    /\ Uncollected # {}
    /\ results' = [m \in Modules |-> IF m \in Uncollected THEN "timeout" ELSE results[m]]
    /\ failed' = failed \cup Uncollected
    /\ pc' = "leave"
    /\ UNCHANGED <<passed, level, work>>

AllCollected ==
    /\ pc = "collect"
    /\ Uncollected = {}
    /\ pc' = "leave"
    /\ UNCHANGED <<passed, level, work, results, failed>>

\* Fault: the pool is left without waiting for the calls that were given up.
LeaveLevelAtOnce ==
    /\ pc = "leave"
    /\ passed' = passed \cup level
    /\ level' = {}
    /\ pc' = "levels"
    /\ UNCHANGED <<work, results, failed>>

\* Leaving the executor waits for the running and the queued calls.
LeaveLevel ==
    /\ pc = "leave"
    /\ \A m \in level : Finished(m)
    /\ passed' = passed \cup level
    /\ level' = {}
    /\ pc' = "levels"
    /\ UNCHANGED <<work, results, failed>>

Return ==
    /\ pc = "levels"
    /\ NextLevel = {}
    /\ pc' = "returned"
    /\ UNCHANGED <<passed, level, work, results, failed>>

Next ==
    \/ StartLevel
    \/ \E m \in Modules : Call(m)
    \/ \E m \in Modules, status \in {"success", "error"} : Finish(m, status)
    \/ \E m \in Modules : Collect(m)
    \/ Timeout
    \/ AllCollected
    \/ LeaveLevel
    \/ Return

Spec == Init /\ [][Next]_vars

\* The scheduling thread and the pool run; the clock of a level with a
\* deadline advances; a module that does not hang returns.
Fairness ==
    /\ WF_vars(StartLevel \/ AllCollected \/ LeaveLevel \/ Return)
    /\ WF_vars(Timeout)
    /\ \A m \in Modules :
        /\ WF_vars(Call(m))
        /\ WF_vars(Collect(m))
    /\ \A m \in Modules \ Hanging :
        WF_vars(\E status \in {"success", "error"} : Finish(m, status))

FairSpec == Spec /\ Fairness
------------------------------------------------------------------------------
TypeOK ==
    /\ pc \in {"levels", "collect", "leave", "returned"}
    /\ passed \subseteq Modules
    /\ level \subseteq Modules
    /\ work \in [Modules -> {"idle", "queued", "running", "success", "error"}]
    /\ results \in [Modules -> {"none", "success", "error", "timeout", "skipped"}]
    /\ failed \subseteq Modules

Entered == {m \in Modules : work[m] \notin {"idle", "queued"}}

Order == INSTANCE DependencyOrder WITH entered <- Entered

\* run_dag keeps the order of the logic layer: with statuses collected late,
\* modules given up while they still run and skips that pass from a level to
\* the next, a module is still called only after each of its dependencies was
\* recorded as a success, and no recorded status is ever replaced.
RespectsDependencies == Order!Spec

\* Between two levels, and when run_dag has returned, no call is under way: a
\* module that was given up cannot write beside the modules that read it.
NoCallBetweenLevels ==
    pc \in {"levels", "returned"} => \A m \in Modules : work[m] \notin {"queued", "running"}

\* The modules that stand on a cycle, or behind one.
Circular ==
    UNION {knot \in SUBSET Modules : \A m \in knot : Upstream(m) \cap knot # {}}

\* topological_levels leaves out a module without a word only when the module
\* depends, directly or not, on a cycle; run_dag has a status for all others.
OnlyCyclesAreLeftOut ==
    pc = "returned" => {m \in Modules : results[m] = "none"} = Circular

\* The deadline works: in a level of several modules each of them gets a
\* status even if one of them never returns and holds a worker for ever.
StatusDespiteHang ==
    \A m \in Modules : (m \in level /\ level # {m}) ~> (results[m] # "none")
==============================================================================
