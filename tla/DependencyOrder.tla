--------------------------- MODULE DependencyOrder ---------------------------
(***************************************************************************)
(* What a run of the logic layer promises about the order of its modules,  *)
(* whichever scheduler carries it out.  A module's function is entered     *)
(* only when everything the module depends on has been reported a success, *)
(* it is entered at most once, a module is skipped only because of a       *)
(* dependency that was not a success, and a reported status is final.      *)
(***************************************************************************)
CONSTANTS
    Modules,      \* the names given to the scheduler
    DependsOn     \* DependsOn[m]: the names module m depends on

VARIABLES
    entered,      \* the modules whose function has been called
    results       \* the status reported of each module

vars == <<entered, results>>

Statuses == {"none", "success", "error", "timeout", "skipped"}

\* A dependency on a name that is not scheduled is no dependency.
Upstream(m) == DependsOn[m] \cap Modules

AllSucceeded(m) == \A d \in Upstream(m) : results[d] = "success"

SomeFailed(m) == \E d \in Upstream(m) : results[d] \notin {"none", "success"}

Init ==
    /\ entered = {}
    /\ results = [m \in Modules |-> "none"]

Enter(m) ==
    /\ m \notin entered
    /\ AllSucceeded(m)
    /\ entered' = entered \cup {m}
    /\ UNCHANGED results

\* One module is reported with what its function did.
Report(m, status) ==
    /\ results[m] = "none"
    /\ m \in entered
    /\ results' = [results EXCEPT ![m] = status]
    /\ UNCHANGED entered

\* Modules that are due, entered or not, are given up.
GiveUpOn(late) ==
    /\ \A m \in late : results[m] = "none" /\ AllSucceeded(m)
    /\ results' = [m \in Modules |-> IF m \in late THEN "timeout" ELSE results[m]]
    /\ UNCHANGED entered

Skip(blocked) ==
    /\ \A m \in blocked : results[m] = "none" /\ m \notin entered /\ SomeFailed(m)
    /\ results' = [m \in Modules |-> IF m \in blocked THEN "skipped" ELSE results[m]]
    /\ UNCHANGED entered

Next ==
    \/ \E m \in Modules : Enter(m)
    \/ \E m \in Modules, status \in {"success", "error"} : Report(m, status)
    \/ \E late \in SUBSET Modules : GiveUpOn(late)
    \/ \E blocked \in SUBSET Modules : Skip(blocked)

Spec == Init /\ [][Next]_vars
==============================================================================
