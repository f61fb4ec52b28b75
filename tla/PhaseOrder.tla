------------------------------ MODULE PhaseOrder ------------------------------
(***************************************************************************)
(* What a classic run of the logic layer promises, without the threads,    *)
(* waits and counters it takes.  The modules of a phase begin when those   *)
(* of the phases before it have a status and have ended, or were skipped.  *)
(* In a serial phase the same holds of the modules listed before.  A       *)
(* module of Checked is skipped because it is switched off or a dependency *)
(* failed, and is called because neither is so.  A status is final.        *)
(*                                                                         *)
(* The documents promise the check of every module: that is this           *)
(* specification with all modules in Checked.  The code looks at those of  *)
(* the serial phases only, which FailuresStayContained of ClassicPipeline  *)
(* is about.                                                               *)
(***************************************************************************)
EXTENDS Naturals

CONSTANTS
    Modules,        \* the modules of all phases
    Phases,         \* the modules of each phase, in their order
    Parallel,       \* the numbers of the phases that are not serial
    Checked,        \* the modules whose switch and dependencies are looked at
    Dependencies,   \* what a failure of which holds a checked module back
    Disabled        \* the modules that are switched off

VARIABLES
    work,           \* what has become of the call of each module
    results         \* the status of each module

vars == <<work, results>>

Outcomes == {"success", "error", "unavailable"}

Tasks(p) == {Phases[p][i] : i \in DOMAIN Phases[p]}

Serial == UNION {Tasks(p) : p \in DOMAIN Phases \ Parallel}

Ended(m) == work[m] \in Outcomes

Over(m) == results[m] # "none" /\ (Ended(m) \/ results[m] \in {"disabled", "upstream"})

\* The phases before are over.
PhaseOpen(p) == \A q \in DOMAIN Phases : q < p => \A n \in Tasks(q) : Over(n)

\* It is the turn of a module.
Open(m) ==
    \E p \in DOMAIN Phases :
        /\ PhaseOpen(p)
        /\ \E i \in DOMAIN Phases[p] :
            /\ m = Phases[p][i]
            /\ p \notin Parallel => \A k \in DOMAIN Phases[p] : k < i => Over(Phases[p][k])

SomeFailed(m) == \E d \in Dependencies[m] : results[d] \in {"error", "timeout"}

Init ==
    /\ work = [m \in Modules |-> "idle"]
    /\ results = [m \in Modules |-> "none"]

Enter(m) ==
    /\ work[m] = "idle"
    /\ Open(m)
    /\ m \in Serial => results[m] = "none"
    /\ m \in Checked => m \notin Disabled /\ ~SomeFailed(m)
    /\ work' = [work EXCEPT ![m] = "running"]
    /\ UNCHANGED results

\* A serial call is reported as it ends.
End(m, outcome) ==
    /\ work[m] = "running"
    /\ work' = [work EXCEPT ![m] = outcome]
    /\ IF m \in Serial
       THEN results[m] = "none" /\ results' = [results EXCEPT ![m] = outcome]
       ELSE UNCHANGED results

\* Statuses of a parallel phase: what calls that ended have done; the others may
\* be given up.
Collect(p, done, late) ==
    /\ PhaseOpen(p)
    /\ \A m \in done \cup late : results[m] = "none"
    /\ \A m \in done : Ended(m)
    /\ \A m \in late : ~Ended(m)
    /\ results' = [m \in Modules |->
                    IF m \in done THEN work[m]
                    ELSE IF m \in late THEN "timeout" ELSE results[m]]
    /\ UNCHANGED work

Skip(m, reason) ==
    /\ Open(m)
    /\ m \in Checked
    /\ work[m] = "idle"
    /\ results[m] = "none"
    /\ reason = "disabled" => m \in Disabled
    /\ reason = "upstream" => m \notin Disabled /\ SomeFailed(m)
    /\ results' = [results EXCEPT ![m] = reason]
    /\ UNCHANGED work

Next ==
    \/ \E m \in Modules : Enter(m)
    \/ \E m \in Modules, outcome \in Outcomes : End(m, outcome)
    \/ \E p \in DOMAIN Phases \cap Parallel : \E done, late \in SUBSET Tasks(p) : Collect(p, done, late)
    \/ \E m \in Modules, reason \in {"disabled", "upstream"} : Skip(m, reason)

Spec == Init /\ [][Next]_vars
==============================================================================
