----------------------------- MODULE Supervisor -----------------------------
(***************************************************************************)
(* main.py: the process supervisor.  supervise_modules launches one child  *)
(* process per registered module, polls the children in list order,        *)
(* restarts a daemon that exited after an exponential back-off that blocks *)
(* the whole loop, gives a daemon up once its restart budget is spent, and *)
(* stops every child in three phases (SIGINT, SIGTERM, SIGKILL).           *)
(*                                                                         *)
(* A child is named by its position in the list `children`; critical       *)
(* modules come first, then normal, then low (main.py:705-719).            *)
(***************************************************************************)
EXTENDS Integers

CONSTANTS
    N,          \* number of supervised modules
    Kind,       \* ModuleSpec.kind of each module: "daemon" or "task"
    Priority,   \* ModuleSpec.priority of each module
    Limit,      \* PRIORITY_RESTART_LIMITS: restarts allowed per priority
    Window,     \* DAEMON_RESTART_WINDOW, in clock ticks
    ExitCodes   \* exit codes a child may end with (-9: killed by SIGKILL)

Priorities == {"critical", "normal", "low"}
Rank == [p \in Priorities |-> CASE p = "critical" -> 0
                                [] p = "normal" -> 1 [] p = "low" -> 2]
Modules == 1 .. N

ASSUME SupervisorAssumption ==
    /\ N \in Nat \ {0}
    /\ Kind \in [Modules -> {"daemon", "task"}]
    /\ Priority \in [Modules -> Priorities]
    /\ \A i, j \in Modules : i < j => Rank[Priority[i]] <= Rank[Priority[j]]
    /\ Limit \in [Priorities -> Nat \ {0}]
    /\ Window \in Nat
    /\ ExitCodes \subseteq Int /\ {0, -9} \subseteq ExitCodes

VARIABLES
    phase,          \* where the supervisor thread is, see Phases
    pos,            \* position of the child being launched or polled
    pending,        \* next_restart_count, while _restart_child sleeps
    active,         \* active_count > 0 in the current pass
    shutdown,       \* shutdown_requested
    exit_code,      \* exit_code of supervise_modules
    proc,           \* the process of each child: "none", "running", "dead"
    code,           \* its return code once dead
    handled,        \* handled_exit
    restart_count,  \* restart_count
    disabled,       \* disabled_after_failure
    age,            \* ticks since last_started_at, at most Window + 1
    sent,           \* last signal stop_modules sent to the child
    \* the environment, seen by the properties only
    asked,          \* where an operator's signal was delivered
    raised,         \* a relaunch raised inside the supervision loop
    streak          \* exits since the last run longer than Window

loopVars  == <<phase, pos, pending, active, shutdown, exit_code>>
childVars == <<proc, code, handled, restart_count, disabled, age, sent>>
envVars   == <<asked, raised, streak>>
vars      == <<loopVars, childVars, envVars>>

\* "aborted": an exception before the try block; "returned": after stop_modules.
Phases == {"launching", "idle", "scanning", "backoff", "interrupt",
           "terminate", "kill", "returned", "aborted"}
StopPhases == {"interrupt", "terminate", "kill", "returned"}

Saturate(n, max) == IF n < max THEN n ELSE max
StreakCap(i) == Limit[Priority[i]] + 1

\* return_code or 1
Failure(c) == IF c = 0 THEN 1 ELSE c
\* max(exit_code, return_code or 1)
Worse(a, b) == IF a > b THEN a ELSE b

Init ==
    /\ phase = "launching" /\ pos = 1 /\ pending = 0
    /\ active = FALSE /\ shutdown = FALSE /\ exit_code = 0
    /\ proc = [i \in Modules |-> "none"]
    /\ code = [i \in Modules |-> 0]
    /\ handled = [i \in Modules |-> FALSE]
    /\ restart_count = [i \in Modules |-> 0]
    /\ disabled = [i \in Modules |-> FALSE]
    /\ age = [i \in Modules |-> 0]
    /\ sent = [i \in Modules |-> "none"]
    /\ asked = "never" /\ raised = FALSE
    /\ streak = [i \in Modules |-> 0]

-----------------------------------------------------------------------------
\* Launching, before the signal handlers of supervise_modules are installed.

\* launch_module: a fresh ManagedProcess in slot i with the given count.
StartProcess(i, count) ==
    /\ proc' = [proc EXCEPT ![i] = "running"]
    /\ handled' = [handled EXCEPT ![i] = FALSE]
    /\ restart_count' = [restart_count EXCEPT ![i] = count]
    /\ age' = [age EXCEPT ![i] = 0]
    /\ UNCHANGED <<code, disabled, sent>>

\* Fault: one launch too many at the end of the list.
LaunchPastEnd ==
    /\ phase = "launching"
    /\ StartProcess(pos, 0)
    /\ phase' = IF pos > N THEN "idle" ELSE phase
    /\ pos' = IF pos > N THEN pos ELSE pos + 1
    /\ UNCHANGED <<pending, active, shutdown, exit_code, envVars>>

Launch ==
    /\ phase = "launching"
    /\ StartProcess(pos, 0)
    /\ phase' = IF pos = N THEN "idle" ELSE phase
    /\ pos' = IF pos = N THEN pos ELSE pos + 1
    /\ UNCHANGED <<pending, active, shutdown, exit_code, envVars>>

\* Popen raises: the try block has not been entered, nobody is stopped.
LaunchRaises ==
    /\ phase = "launching"
    /\ phase' = "aborted"
    /\ UNCHANGED <<pos, pending, active, shutdown, exit_code, childVars, envVars>>

-----------------------------------------------------------------------------
\* The supervision loop.

\* End of the poll sleep and head of the while loop.
Wake ==
    /\ phase = "idle"
    /\ IF shutdown
       THEN phase' = "interrupt" /\ UNCHANGED <<pos, active>>
       ELSE phase' = "scanning" /\ pos' = 1 /\ active' = FALSE
    /\ UNCHANGED <<pending, shutdown, exit_code, childVars, envVars>>

Scanning(i) == phase = "scanning" /\ pos = i

\* disabled, or dead and already handled: nothing to do.
PassOver(i) ==
    /\ Scanning(i)
    /\ disabled[i] \/ (proc[i] = "dead" /\ handled[i])
    /\ pos' = pos + 1
    /\ UNCHANGED <<phase, pending, active, shutdown, exit_code, childVars, envVars>>

PollAlive(i) ==
    /\ Scanning(i)
    /\ ~disabled[i] /\ proc[i] = "running"
    /\ active' = TRUE
    /\ pos' = pos + 1
    /\ UNCHANGED <<phase, pending, shutdown, exit_code, childVars, envVars>>

\* poll() returned a code that no earlier pass has handled.
NewExit(i) == Scanning(i) /\ ~disabled[i] /\ proc[i] = "dead" /\ ~handled[i]

\* A successful task, or any exit noticed once a shutdown was requested.
AcceptExit(i) ==
    /\ NewExit(i)
    /\ shutdown \/ (Kind[i] = "task" /\ code[i] = 0)
    /\ handled' = [handled EXCEPT ![i] = TRUE]
    /\ pos' = pos + 1
    /\ UNCHANGED <<phase, pending, active, shutdown, exit_code, proc, code,
                   restart_count, disabled, age, sent, envVars>>

TaskFails(i) ==
    /\ NewExit(i)
    /\ ~shutdown /\ Kind[i] = "task" /\ code[i] # 0
    /\ handled' = [handled EXCEPT ![i] = TRUE]
    /\ exit_code' = Failure(code[i])
    /\ shutdown' = TRUE
    /\ phase' = "interrupt"
    /\ UNCHANGED <<pos, pending, active, proc, code, restart_count, disabled,
                   age, sent, envVars>>

\* Fault: the count is never reset by a long run.
NeverForgivenCount(i) == restart_count[i] + 1

\* within_restart_window is measured when the exit is noticed.
NextRestartCount(i) == IF age[i] <= Window THEN restart_count[i] + 1 ELSE 1

DaemonExit(i) == NewExit(i) /\ ~shutdown /\ Kind[i] = "daemon"

\* _restart_child gives up: the module is isolated, the others go on.
GiveUp(i) ==
    /\ DaemonExit(i)
    /\ NextRestartCount(i) > Limit[Priority[i]]
    /\ handled' = [handled EXCEPT ![i] = TRUE]
    /\ disabled' = [disabled EXCEPT ![i] = TRUE]
    /\ exit_code' = Worse(exit_code, Failure(code[i]))
    /\ pos' = pos + 1
    /\ UNCHANGED <<phase, pending, active, shutdown, proc, code, restart_count,
                   age, sent, envVars>>

\* _restart_child starts its back-off sleep, which blocks the loop.
BackOff(i) ==
    /\ DaemonExit(i)
    /\ NextRestartCount(i) <= Limit[Priority[i]]
    /\ handled' = [handled EXCEPT ![i] = TRUE]
    /\ pending' = NextRestartCount(i)
    /\ phase' = "backoff"
    /\ UNCHANGED <<pos, active, shutdown, exit_code, proc, code, restart_count,
                   disabled, age, sent, envVars>>

\* Fault: the relaunched child is not counted as active.
RelaunchUncounted ==
    /\ phase = "backoff"
    /\ StartProcess(pos, pending)
    /\ phase' = "scanning"
    /\ pos' = pos + 1
    /\ UNCHANGED <<pending, active, shutdown, exit_code, envVars>>

\* The sleep ends and the module is launched, whatever was requested meanwhile.
Relaunch ==
    /\ phase = "backoff"
    /\ StartProcess(pos, pending)
    /\ active' = TRUE
    /\ phase' = "scanning"
    /\ pos' = pos + 1
    /\ UNCHANGED <<pending, shutdown, exit_code, envVars>>

\* Popen raises inside the loop: the finally clause still runs.
RelaunchRaises ==
    /\ phase = "backoff"
    /\ phase' = "interrupt"
    /\ raised' = TRUE
    /\ UNCHANGED <<pos, pending, active, shutdown, exit_code, childVars,
                   asked, streak>>

EndOfPass ==
    /\ phase = "scanning" /\ pos = N + 1
    /\ phase' = IF shutdown \/ ~active THEN "interrupt" ELSE "idle"
    /\ UNCHANGED <<pos, pending, active, shutdown, exit_code, childVars, envVars>>

-----------------------------------------------------------------------------
\* stop_modules: a signal to every child still alive, then a bounded wait.  A
\* child a signal cannot be sent to has just exited, so leaving it out of
\* alive_children is what the wait would do.

StopWith(from, signal, to) ==
    /\ phase = from
    /\ sent' = [i \in Modules |-> IF proc[i] = "running" THEN signal ELSE sent[i]]
    /\ phase' = to
    /\ UNCHANGED <<pos, pending, active, shutdown, exit_code, proc, code,
                   handled, restart_count, disabled, age, envVars>>

\* Faults: the second phase kills at once; the third phase only logs.
KillEarly  == StopWith("terminate", "SIGKILL", "kill")
KillSkipped ==
    /\ phase = "kill"
    /\ phase' = "returned"
    /\ UNCHANGED <<pos, pending, active, shutdown, exit_code, childVars, envVars>>

SendInterrupt == StopWith("interrupt", "SIGINT", "terminate")
SendTerminate == StopWith("terminate", "SIGTERM", "kill")
SendKill      == StopWith("kill", "SIGKILL", "returned")

-----------------------------------------------------------------------------
\* The environment: children that exit, operators that signal, time.

\* A child exits; one that was sent SIGKILL cannot exit in any other way.
Exit(i, c) ==
    /\ proc[i] = "running"
    /\ sent[i] = "SIGKILL" => c = -9
    /\ proc' = [proc EXCEPT ![i] = "dead"]
    /\ code' = [code EXCEPT ![i] = c]
    /\ streak' = [streak EXCEPT ![i] =
                     IF age[i] <= Window THEN Saturate(@ + 1, StreakCap(i)) ELSE 1]
    /\ UNCHANGED <<handled, restart_count, disabled, age, sent, asked, raised, loopVars>>

\* Fault: handle_signal only logs.
SignalIgnored ==
    /\ asked = "never"
    /\ phase \notin {"returned", "aborted"}
    /\ asked' = IF phase = "launching" THEN "early" ELSE "handled"
    /\ UNCHANGED <<loopVars, childVars, raised, streak>>

\* SIGINT or SIGTERM.  While launching it reaches the handler installed when
\* core/graceful_shutdown.py was imported, which has no callback to run.
Signal ==
    /\ asked = "never"
    /\ phase \notin {"returned", "aborted"}
    /\ asked' = IF phase = "launching" THEN "early" ELSE "handled"
    /\ shutdown' = (shutdown \/ phase # "launching")
    /\ UNCHANGED <<phase, pos, pending, active, exit_code, childVars,
                   raised, streak>>

\* Time passes; ages stop at Window + 1, which already counts as outside.
Tick ==
    /\ phase \notin {"returned", "aborted"}
    /\ age' = [i \in Modules |-> Saturate(age[i] + 1, Window + 1)]
    /\ UNCHANGED <<proc, code, handled, restart_count, disabled, sent,
                   asked, raised, streak, loopVars>>

-----------------------------------------------------------------------------
Poll(i) == \/ PassOver(i) \/ PollAlive(i) \/ AcceptExit(i)
           \/ TaskFails(i) \/ GiveUp(i) \/ BackOff(i)

Supervise ==
    \/ Launch
    \/ Wake
    \/ \E i \in Modules : Poll(i)
    \/ Relaunch
    \/ EndOfPass
    \/ SendInterrupt
    \/ SendTerminate
    \/ SendKill

Next ==
    \/ Supervise
    \/ LaunchRaises
    \/ RelaunchRaises
    \/ \E i \in Modules, c \in ExitCodes : Exit(i, c)
    \/ Signal
    \/ Tick

\* The supervisor's thread keeps running (its sleeps are finite) and the kernel
\* carries out a SIGKILL; nothing obliges a child to exit or time to matter.
Fairness ==
    /\ WF_vars(Supervise)
    /\ \A i \in Modules : WF_vars(sent[i] = "SIGKILL" /\ Exit(i, -9))

Spec == Init /\ [][Next]_vars /\ Fairness

-----------------------------------------------------------------------------
(***************************************************************************)
(* Properties.                                                             *)
(***************************************************************************)

LoopType ==
    /\ phase \in Phases
    /\ pos \in 1 .. N + 1
    /\ phase \in {"launching", "backoff"} => pos \in Modules
    /\ pending \in Nat
    /\ exit_code \in Int

FlagType == active \in BOOLEAN /\ shutdown \in BOOLEAN /\ raised \in BOOLEAN

ChildType ==
    /\ proc \in [Modules -> {"none", "running", "dead"}]
    /\ code \in [Modules -> ExitCodes]
    /\ handled \in [Modules -> BOOLEAN]
    /\ restart_count \in [Modules -> Nat]
    /\ disabled \in [Modules -> BOOLEAN]
    /\ age \in [Modules -> 0 .. Window + 1]
    /\ sent \in [Modules -> {"none", "SIGINT", "SIGTERM", "SIGKILL"}]

EnvType ==
    /\ asked \in {"never", "early", "handled"}
    /\ streak \in [Modules -> Nat]

TypeOK == LoopType /\ FlagType /\ ChildType /\ EnvType

\* A task ended with a non-zero code (its slot is never launched again).
TaskFailed == \E i \in Modules :
    Kind[i] = "task" /\ proc[i] = "dead" /\ code[i] # 0

\* A daemon is given up only after more exits in a row than its priority
\* allows, every one but the first ending a run no longer than the window:
\* a module that has run for longer starts with a full budget again
\* (_restart_child, main.py:570-597).
DisabledOnlyAfterStreak == \A i \in Modules :
    disabled[i] => streak[i] > Limit[Priority[i]]

\* Unless an operator's signal, a failed task or an exception stops it, the
\* supervisor starts stopping children only when nothing is left to supervise:
\* every daemon has been given up and every task has succeeded.  One crashing
\* module never takes the others down (main.py:763-787).
FailuresAreIsolated ==
    phase \in StopPhases /\ asked # "handled" /\ ~raised /\ ~TaskFailed
        => \A i \in Modules : IF Kind[i] = "daemon" THEN disabled[i]
                              ELSE proc[i] = "dead" /\ code[i] = 0

\* When supervise_modules returns, a child that is still alive has been sent
\* SIGKILL, also a child relaunched by a back-off that outlived the shutdown
\* request (main.py:614-621 and 624-674).
NothingOutlivesSupervisor ==
    phase = "returned" =>
        \A i \in Modules : proc[i] = "running" => sent[i] = "SIGKILL"

\* The three stop signals reach a child in order, none is skipped, and no child
\* is launched once stopping has begun (stop_modules, main.py:624-674).
GracefulStop ==
    [][/\ \A i \in Modules :
            sent'[i] # sent[i] =>
                <<sent[i], sent'[i]>> \in {<<"none", "SIGINT">>,
                    <<"SIGINT", "SIGTERM">>, <<"SIGTERM", "SIGKILL">>}
       /\ phase \in StopPhases =>
            \A i \in Modules : proc'[i] = "running" => proc[i] = "running"]_vars

\* A signal taken by the supervisor's own handler ends the supervisor and
\* every child, whatever back-off is in progress (main.py:726-729).
ShutdownCompletes ==
    (asked = "handled") ~>
        (phase = "returned" /\ \A i \in Modules : proc[i] # "running")
=============================================================================
