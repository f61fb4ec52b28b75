-------------------------- MODULE SupervisorProofs --------------------------
(***************************************************************************)
(* Machine-checked safety of the supervisor, for any number of modules,    *)
(* any assignment of kinds and priorities, any limits and any window.      *)
(***************************************************************************)
EXTENDS Supervisor, TLAPS

\* What the proofs use of the constants.
LEMMA ConstantTypes ==
    /\ N \in Nat \ {0}
    /\ Kind \in [Modules -> {"daemon", "task"}]
    /\ \A i \in Modules : Limit[Priority[i]] \in Nat \ {0}
    /\ Window \in Nat
    /\ ExitCodes \subseteq Int /\ 0 \in ExitCodes /\ -9 \in ExitCodes
BY SupervisorAssumption DEF SupervisorAssumption

\* The steps of the system, one disjunct per action, as the proofs split them.
LEMMA NextCases ==
    ASSUME [Next]_vars
    PROVE  \/ Launch \/ LaunchRaises \/ Wake \/ Relaunch \/ RelaunchRaises
           \/ EndOfPass \/ SendInterrupt \/ SendTerminate \/ SendKill
           \/ \E i \in Modules : Poll(i)
           \/ \E i \in Modules, c \in ExitCodes : Exit(i, c)
           \/ Signal \/ Tick \/ UNCHANGED vars
BY DEF Next, Supervise

-----------------------------------------------------------------------------
(***************************************************************************)
(* Type correctness.                                                       *)
(***************************************************************************)

LEMMA TypeInit == Init => TypeOK
<1> SUFFICES ASSUME Init PROVE TypeOK
    OBVIOUS
<1>1. LoopType
    BY ConstantTypes DEF Init, LoopType, Phases, Modules
<1>2. ChildType
    BY ConstantTypes DEF Init, ChildType
<1>3. EnvType
    BY ConstantTypes DEF Init, EnvType
<1>4. FlagType
    BY DEF Init, FlagType
<1> QED
    BY <1>1, <1>2, <1>3, <1>4 DEF TypeOK

LEMMA LoopTypeStep == TypeOK /\ [Next]_vars => LoopType'
<1> SUFFICES ASSUME TypeOK, [Next]_vars PROVE LoopType'
    OBVIOUS
<1> USE ConstantTypes DEF TypeOK, LoopType, Phases, Modules
<1>1. CASE Launch
    BY <1>1 DEF Launch
<1>2. CASE LaunchRaises
    BY <1>2 DEF LaunchRaises
<1>3. CASE Wake
    BY <1>3 DEF Wake
<1>4. CASE Relaunch
    BY <1>4 DEF Relaunch
<1>5. CASE RelaunchRaises
    BY <1>5 DEF RelaunchRaises
<1>6. CASE EndOfPass
    BY <1>6 DEF EndOfPass
<1>7. CASE SendInterrupt \/ SendTerminate \/ SendKill
    BY <1>7 DEF SendInterrupt, SendTerminate, SendKill, StopWith
<1>8. ASSUME NEW i \in Modules, Poll(i) PROVE LoopType'
  <2> USE DEF Scanning, NewExit, DaemonExit
  <2>1. CASE PassOver(i)
    BY <2>1 DEF PassOver
  <2>2. CASE PollAlive(i)
    BY <2>2 DEF PollAlive
  <2>3. CASE AcceptExit(i)
    BY <2>3 DEF AcceptExit
  <2>4. CASE TaskFails(i)
    BY <2>4 DEF TaskFails, ChildType, Failure
  <2>5. CASE GiveUp(i)
    <3>1. code[i] \in Int
      BY DEF ChildType
    <3>2. Failure(code[i]) \in Int
      BY <3>1 DEF Failure
    <3>3. Worse(exit_code, Failure(code[i])) \in Int
      BY <3>2 DEF Worse
    <3> QED
      BY <2>5, <3>3 DEF GiveUp
  <2>6. CASE BackOff(i)
    BY <2>6 DEF BackOff, NextRestartCount, ChildType
  <2> QED
    BY <1>8, <2>1, <2>2, <2>3, <2>4, <2>5, <2>6 DEF Poll
<1>9. ASSUME NEW i \in Modules, NEW c \in ExitCodes, Exit(i, c) PROVE LoopType'
    BY <1>9 DEF Exit, loopVars
<1>10. CASE Signal
    BY <1>10 DEF Signal
<1>11. CASE Tick \/ UNCHANGED vars
    BY <1>11 DEF Tick, vars, loopVars
<1> QED
    BY <1>1, <1>2, <1>3, <1>4, <1>5, <1>6, <1>7, <1>8, <1>9, <1>10, <1>11,
       NextCases

LEMMA FlagTypeStep == TypeOK /\ [Next]_vars => FlagType'
<1> SUFFICES ASSUME TypeOK, [Next]_vars PROVE FlagType'
    OBVIOUS
<1> USE DEF TypeOK, FlagType
<1>1. CASE Launch \/ LaunchRaises \/ Relaunch \/ RelaunchRaises \/ EndOfPass
           \/ SendInterrupt \/ SendTerminate \/ SendKill
    BY <1>1 DEF Launch, LaunchRaises, Relaunch, RelaunchRaises, EndOfPass,
                SendInterrupt, SendTerminate, SendKill, StopWith, envVars
<1>2. CASE Wake
    BY <1>2 DEF Wake, envVars
<1>3. ASSUME NEW i \in Modules, Poll(i) PROVE FlagType'
    BY <1>3 DEF Poll, PassOver, PollAlive, AcceptExit, TaskFails, GiveUp,
                BackOff, envVars
<1>4. ASSUME NEW i \in Modules, NEW c \in ExitCodes, Exit(i, c) PROVE FlagType'
    BY <1>4 DEF Exit, loopVars
<1>5. CASE Signal \/ Tick \/ UNCHANGED vars
    BY <1>5 DEF Signal, Tick, vars, loopVars, envVars
<1> QED
    BY <1>1, <1>2, <1>3, <1>4, <1>5, NextCases

LEMMA ChildTypeStep == TypeOK /\ [Next]_vars => ChildType'
<1> SUFFICES ASSUME TypeOK, [Next]_vars PROVE ChildType'
    OBVIOUS
<1> USE ConstantTypes DEF TypeOK, ChildType
<1>1. CASE Launch
    BY <1>1 DEF Launch, StartProcess, LoopType
<1>2. CASE Relaunch
    BY <1>2 DEF Relaunch, StartProcess, LoopType
<1>3. CASE SendInterrupt \/ SendTerminate \/ SendKill
    BY <1>3 DEF SendInterrupt, SendTerminate, SendKill, StopWith
<1>4. ASSUME NEW i \in Modules, Poll(i) PROVE ChildType'
    BY <1>4 DEF Poll, PassOver, PollAlive, AcceptExit, TaskFails, GiveUp,
                BackOff, childVars
<1>5. ASSUME NEW i \in Modules, NEW c \in ExitCodes, Exit(i, c) PROVE ChildType'
    BY <1>5 DEF Exit
<1>6. CASE Tick
  <2>1. \A i \in Modules : Saturate(age[i] + 1, Window + 1) \in 0 .. Window + 1
    BY DEF Saturate
  <2> QED
    BY <1>6, <2>1 DEF Tick
<1>7. CASE LaunchRaises \/ Wake \/ RelaunchRaises \/ EndOfPass \/ Signal
           \/ UNCHANGED vars
    BY <1>7 DEF LaunchRaises, Wake, RelaunchRaises, EndOfPass, Signal, vars,
                childVars
<1> QED
    BY <1>1, <1>2, <1>3, <1>4, <1>5, <1>6, <1>7, NextCases

LEMMA EnvTypeStep == TypeOK /\ [Next]_vars => EnvType'
<1> SUFFICES ASSUME TypeOK, [Next]_vars PROVE EnvType'
    OBVIOUS
<1> USE ConstantTypes DEF TypeOK, EnvType
<1>1. ASSUME NEW i \in Modules, NEW c \in ExitCodes, Exit(i, c) PROVE EnvType'
  <2>1. StreakCap(i) \in Nat
    BY DEF StreakCap
  <2>2. Saturate(streak[i] + 1, StreakCap(i)) \in Nat
    BY <2>1 DEF Saturate
  <2> QED
    BY <1>1, <2>2 DEF Exit
<1>2. CASE Tick
    BY <1>2 DEF Tick
<1>3. CASE Signal \/ RelaunchRaises
    BY <1>3 DEF Signal, RelaunchRaises
<1>4. ASSUME NEW i \in Modules, Poll(i) PROVE EnvType'
    BY <1>4 DEF Poll, PassOver, PollAlive, AcceptExit, TaskFails, GiveUp,
                BackOff, envVars
<1>5. CASE Launch \/ LaunchRaises \/ Wake \/ Relaunch \/ EndOfPass
           \/ SendInterrupt \/ SendTerminate \/ SendKill \/ UNCHANGED vars
    BY <1>5 DEF Launch, LaunchRaises, Wake, Relaunch, EndOfPass, SendInterrupt,
                SendTerminate, SendKill, StopWith, vars, envVars
<1> QED
    BY <1>1, <1>2, <1>3, <1>4, <1>5, NextCases

LEMMA TypeStep == TypeOK /\ [Next]_vars => TypeOK'
BY LoopTypeStep, FlagTypeStep, ChildTypeStep, EnvTypeStep DEF TypeOK

\* Every reachable state is well typed; a launch or a back-off is always about
\* a position of the list (main.py:713-782).
THEOREM TypeCorrect == Spec => []TypeOK
BY TypeInit, TypeStep, PTL DEF Spec

-----------------------------------------------------------------------------
(***************************************************************************)
(* The restart budget.  restart_count never overtakes the number of quick  *)
(* exits: a running child's count is at most the streak, and the exit that *)
(* _restart_child is about to judge has already lengthened the streak.     *)
(***************************************************************************)

Budget(i) == Limit[Priority[i]]

CountInv == \A i \in Modules :
    /\ restart_count[i] <= Budget(i)
    /\ proc[i] = "running" => restart_count[i] <= streak[i]
    /\ proc[i] = "dead" /\ ~handled[i] /\ age[i] <= Window
           => restart_count[i] < streak[i]
    /\ proc[i] = "dead" => streak[i] >= 1
    /\ disabled[i] => streak[i] > Budget(i) /\ proc[i] = "dead"

BackoffInv ==
    phase = "backoff" =>
        /\ pending <= Budget(pos) /\ pending <= streak[pos]
        /\ proc[pos] = "dead" /\ ~disabled[pos]

LaunchInv ==
    phase = "launching" =>
        \A i \in Modules : i >= pos => proc[i] = "none" /\ ~disabled[i]

BudgetInv == CountInv /\ BackoffInv /\ LaunchInv

LEMMA BudgetInit == Init => BudgetInv
BY ConstantTypes DEF Init, BudgetInv, CountInv, BackoffInv, LaunchInv, Budget

\* A step that leaves children and exits alone keeps the budget, if it goes on in
\* the same place or ends launches and back-offs.
LEMMA SameCounts ==
    ASSUME BudgetInv, UNCHANGED <<proc, handled, restart_count, disabled, age, streak>>,
           phase' \notin {"backoff", "launching"} \/ UNCHANGED <<phase, pos, pending>>
    PROVE  BudgetInv'
<1>1. CountInv'
    BY DEF BudgetInv, CountInv
<1>2. BackoffInv' /\ LaunchInv'
    BY DEF BudgetInv, BackoffInv, LaunchInv
<1> QED
    BY <1>1, <1>2 DEF BudgetInv

LEMMA BudgetStep == TypeOK /\ BudgetInv /\ [Next]_vars => BudgetInv'
<1> SUFFICES ASSUME TypeOK, BudgetInv, [Next]_vars PROVE BudgetInv'
    OBVIOUS
<1>t. /\ LoopType /\ ChildType /\ EnvType
      /\ \A i \in Modules : Budget(i) \in Nat \ {0}
    BY ConstantTypes DEF TypeOK, Budget
<1> USE <1>t, ConstantTypes DEF BudgetInv, CountInv, BackoffInv, LaunchInv, LoopType,
        ChildType, EnvType, Modules
<1>1. CASE Launch
  <2>1. CountInv'
    <3>1. /\ pos \in Modules
          /\ proc' = [proc EXCEPT ![pos] = "running"]
          /\ handled' = [handled EXCEPT ![pos] = FALSE]
          /\ restart_count' = [restart_count EXCEPT ![pos] = 0]
          /\ age' = [age EXCEPT ![pos] = 0]
          /\ UNCHANGED <<disabled, streak>>
      BY <1>1 DEF Launch, StartProcess, envVars
    <3>2. ~disabled[pos]
      BY <1>1 DEF Launch
    <3> QED
      BY ONLY <3>1, <3>2, <1>t, BudgetInv DEF BudgetInv, CountInv, ChildType, EnvType
  <2>2. LaunchInv' /\ BackoffInv'
    BY <1>1 DEF Launch, StartProcess, envVars
  <2> QED
    BY <2>1, <2>2
<1>2. CASE LaunchRaises \/ Wake \/ EndOfPass \/ Signal \/ UNCHANGED vars
  <2>1. /\ UNCHANGED <<proc, handled, restart_count, disabled, age, streak>>
        /\ phase' \notin {"backoff", "launching"} \/ UNCHANGED <<phase, pos, pending>>
    BY ONLY <1>2 DEF LaunchRaises, Wake, EndOfPass, Signal, vars, loopVars, childVars, envVars
  <2> QED
    BY ONLY <2>1, SameCounts, BudgetInv
<1>3. CASE Relaunch
    BY <1>3 DEF Relaunch, StartProcess, envVars
<1>4. CASE RelaunchRaises
    BY <1>4 DEF RelaunchRaises, childVars
<1>5. CASE SendInterrupt \/ SendTerminate \/ SendKill
  <2>1. /\ UNCHANGED <<proc, handled, restart_count, disabled, age, streak>>
        /\ phase' \notin {"backoff", "launching"}
    BY ONLY <1>5 DEF SendInterrupt, SendTerminate, SendKill, StopWith, envVars
  <2> QED
    BY ONLY <2>1, SameCounts, BudgetInv
<1>6. ASSUME NEW i \in Modules, Poll(i) PROVE BudgetInv'
  <2> USE DEF Scanning, NewExit, DaemonExit, Budget
  <2>1. CASE PassOver(i)
    BY <2>1 DEF PassOver, childVars, envVars
  <2>2. CASE PollAlive(i)
    BY <2>2 DEF PollAlive, childVars, envVars
  <2>5. CASE AcceptExit(i)
    BY <2>5 DEF AcceptExit, envVars
  <2>6. CASE TaskFails(i)
    BY <2>6 DEF TaskFails, envVars
  <2>3. CASE GiveUp(i)
    <3>1. restart_count[i] < streak[i] /\ streak[i] > Limit[Priority[i]]
      <4>1. /\ proc[i] = "dead" /\ ~handled[i]
            /\ NextRestartCount(i) > Limit[Priority[i]]
        BY <2>3 DEF GiveUp
      <4>2. Limit[Priority[i]] \in Nat \ {0}
        OBVIOUS
      <4>3. age[i] <= Window /\ NextRestartCount(i) = restart_count[i] + 1
        BY <4>1, <4>2 DEF NextRestartCount
      <4>4. restart_count[i] < streak[i]
        BY <4>1, <4>3
      <4>5. restart_count[i] \in Nat /\ streak[i] \in Nat
        OBVIOUS
      <4> QED
        BY ONLY <4>1, <4>2, <4>3, <4>4, <4>5
    <3> QED
      BY <2>3, <3>1 DEF GiveUp, envVars
  <2>4. CASE BackOff(i)
    <3>1. i = pos /\ proc[i] = "dead" /\ ~disabled[i] /\ ~handled[i]
      BY <2>4 DEF BackOff
    <3>2. NextRestartCount(i) <= streak[i]
      <4>1. CASE age[i] <= Window
        BY <3>1, <4>1 DEF NextRestartCount
      <4>2. CASE ~(age[i] <= Window)
        BY <3>1, <4>2 DEF NextRestartCount
      <4> QED
        BY <4>1, <4>2
    <3>3. BackoffInv'
      BY <2>4, <3>1, <3>2 DEF BackOff, envVars
    <3>4. CountInv' /\ LaunchInv'
      BY <2>4 DEF BackOff, envVars
    <3> QED
      BY <3>3, <3>4
  <2> QED
    BY <1>6, <2>1, <2>2, <2>3, <2>4, <2>5, <2>6 DEF Poll
<1>7. ASSUME NEW i \in Modules, NEW c \in ExitCodes, Exit(i, c) PROVE BudgetInv'
  <2> DEFINE new == IF age[i] <= Window
                    THEN Saturate(streak[i] + 1, Limit[Priority[i]] + 1) ELSE 1
  <2>0. streak' = [streak EXCEPT ![i] = new] /\ proc[i] = "running"
    BY <1>7 DEF Exit, StreakCap
  <2>1. /\ new \in Nat /\ new >= 1
        /\ age[i] <= Window => restart_count[i] < new
    <3>1. /\ streak[i] \in Nat /\ restart_count[i] \in Nat
          /\ Limit[Priority[i]] \in Nat \ {0} /\ restart_count[i] <= Limit[Priority[i]]
          /\ restart_count[i] <= streak[i]
      BY <2>0 DEF Budget
    <3>2. CASE age[i] <= Window
      BY ONLY <3>1, <3>2 DEF Saturate
    <3>3. CASE ~(age[i] <= Window)
      BY ONLY <3>3
    <3> QED
      BY <3>2, <3>3
  <2> HIDE DEF new
  <2>2. /\ proc' = [proc EXCEPT ![i] = "dead"] /\ proc[i] = "running"
        /\ UNCHANGED <<handled, restart_count, disabled, age, loopVars>>
    BY <1>7 DEF Exit
  <2> QED
    BY <2>0, <2>1, <2>2 DEF loopVars
<1>8. CASE Tick
  <2>1. \A i \in Modules : age'[i] <= Window => age[i] <= Window
    <3>1. /\ Window \in Nat
          /\ \A i \in Modules : age[i] \in 0 .. Window + 1
          /\ \A i \in Modules : age'[i] = Saturate(age[i] + 1, Window + 1)
      BY <1>8 DEF Tick
    <3> QED
      BY ONLY <3>1 DEF Saturate
  <2>2. UNCHANGED <<proc, handled, restart_count, disabled, streak, loopVars>>
    BY <1>8 DEF Tick
  <2> QED
    BY <2>1, <2>2 DEF loopVars
<1> QED
    BY <1>1, <1>2, <1>3, <1>4, <1>5, <1>6, <1>7, <1>8, NextCases

\* A daemon is given up only after a streak of exits longer than its budget.
THEOREM GivenUpAfterStreak == Spec => []DisabledOnlyAfterStreak
<1>1. BudgetInv => DisabledOnlyAfterStreak
    BY DEF BudgetInv, CountInv, Budget, DisabledOnlyAfterStreak
<1> QED
    BY <1>1, BudgetInit, BudgetStep, TypeCorrect, PTL DEF Spec

-----------------------------------------------------------------------------
(***************************************************************************)
(* Isolation.  While a pass has met no active child, every position behind *)
(* it is settled; so the end of an inactive pass finds nothing to do.      *)
(***************************************************************************)

Settled(i) == IF Kind[i] = "daemon" THEN disabled[i]
              ELSE proc[i] = "dead" /\ code[i] = 0

Excused == asked = "handled" \/ raised \/ TaskFailed

IsolationInv ==
    /\ shutdown => Excused
    /\ phase = "launching" => ~shutdown /\ \A i \in Modules : ~handled[i]
    /\ phase = "backoff" => Kind[pos] = "daemon"
    /\ \A i \in Modules : disabled[i] => Kind[i] = "daemon"
    /\ \A i \in Modules : handled[i] => proc[i] = "dead"
    /\ \A i \in Modules : proc[i] = "dead" /\ handled[i] =>
           Settled(i) \/ Excused \/ (phase = "backoff" /\ pos = i)
    /\ phase = "scanning" /\ ~active =>
           Excused \/ \A i \in Modules : i < pos => Settled(i)
    /\ phase \in StopPhases => Excused \/ \A i \in Modules : Settled(i)

LEMMA IsolationInit == Init => IsolationInv
BY DEF Init, IsolationInv, StopPhases

\* A step that leaves processes and reasons alone leaves the verdicts alone.
LEMMA Undisturbed ==
    ASSUME UNCHANGED <<proc, code, disabled, asked, raised>>
    PROVE  (Excused' <=> Excused) /\ \A i \in Modules : Settled(i)' <=> Settled(i)
BY DEF Excused, Settled, TaskFailed

LEMMA IsolationStep == TypeOK /\ BudgetInv /\ IsolationInv /\ [Next]_vars => IsolationInv'
<1> SUFFICES ASSUME TypeOK, BudgetInv, IsolationInv, [Next]_vars PROVE IsolationInv'
    OBVIOUS
<1>t. /\ LoopType /\ ChildType /\ N \in Nat \ {0} /\ Kind \in [Modules -> {"daemon", "task"}]
      /\ LaunchInv /\ BackoffInv
    BY ConstantTypes DEF TypeOK, BudgetInv
<1> USE <1>t DEF IsolationInv, Settled, Excused, TaskFailed, StopPhases, LoopType,
        ChildType, Modules, envVars
<1>1. CASE Launch
    BY <1>1 DEF Launch, StartProcess, LaunchInv
<1>2. CASE LaunchRaises
    BY <1>2, Undisturbed DEF LaunchRaises, childVars
<1>11. CASE Wake
    BY <1>11, Undisturbed DEF Wake, childVars
<1>3. CASE Relaunch
    BY <1>3 DEF Relaunch, StartProcess, BackoffInv
<1>4. CASE RelaunchRaises
    BY <1>4 DEF RelaunchRaises, childVars
<1>5. CASE EndOfPass
    BY <1>5 DEF EndOfPass, childVars
<1>6. CASE SendInterrupt \/ SendTerminate \/ SendKill
  <2>1. /\ phase \in StopPhases /\ phase' \in StopPhases /\ phase' # "backoff"
        /\ UNCHANGED <<proc, code, disabled, asked, raised, handled, shutdown>>
    BY <1>6 DEF SendInterrupt, SendTerminate, SendKill, StopWith
  <2>2. (Excused' <=> Excused) /\ \A i \in Modules : Settled(i)' <=> Settled(i)
    BY ONLY <2>1, Undisturbed
  <2>3. phase # "backoff" /\ phase' # "scanning" /\ phase' # "launching"
    BY <2>1
  <2> QED
    BY <2>1, <2>2, <2>3
<1>7. ASSUME NEW i \in Modules, Poll(i) PROVE IsolationInv'
  <2> USE DEF Scanning, NewExit, DaemonExit
  <2>1. CASE PassOver(i)
    BY <2>1 DEF PassOver, childVars
  <2>2. CASE PollAlive(i)
    BY <2>2 DEF PollAlive, childVars
  <2>3. CASE AcceptExit(i)
    BY <2>3 DEF AcceptExit
  <2>4. CASE TaskFails(i)
    BY <2>4 DEF TaskFails
  <2>5. CASE GiveUp(i)
    <3>1. /\ phase = "scanning" /\ phase' = phase /\ pos = i /\ pos' = i + 1
          /\ Kind[i] = "daemon" /\ proc[i] = "dead" /\ ~shutdown
          /\ handled' = [handled EXCEPT ![i] = TRUE]
          /\ disabled' = [disabled EXCEPT ![i] = TRUE]
          /\ UNCHANGED <<active, shutdown, proc, code, asked, raised>>
      BY <2>5 DEF GiveUp
    <3>2. Excused' <=> Excused
      BY <3>1
    <3>3. Settled(i)' /\ \A j \in Modules : Settled(j) => Settled(j)'
      BY ONLY <3>1, <1>t DEF Settled, ChildType
    <3>4. /\ \A j \in Modules : disabled'[j] => Kind[j] = "daemon"
          /\ \A j \in Modules : handled'[j] => proc'[j] = "dead"
      BY ONLY <3>1, <1>t, IsolationInv DEF IsolationInv, ChildType
    <3>5. \A j \in Modules : j # i => (handled'[j] <=> handled[j])
      BY <3>1
    <3>6. \A j \in Modules : proc'[j] = "dead" /\ handled'[j] => Settled(j)' \/ Excused'
      BY ONLY <3>1, <3>2, <3>3, <3>5, IsolationInv DEF IsolationInv
    <3>7. ~active' => Excused' \/ \A j \in Modules : j < pos' => Settled(j)'
      BY ONLY <3>1, <3>2, <3>3, IsolationInv DEF IsolationInv, Modules
    <3>8. phase \notin StopPhases /\ phase # "launching" /\ phase # "backoff"
      BY <3>1
    <3> HIDE DEF Settled, Excused, StopPhases
    <3> QED
      BY ONLY <3>1, <3>4, <3>6, <3>7, <3>8 DEF IsolationInv, StopPhases
  <2>6. CASE BackOff(i)
    BY <2>6 DEF BackOff
  <2> QED
    BY <1>7, <2>1, <2>2, <2>3, <2>4, <2>5, <2>6 DEF Poll
<1>8. ASSUME NEW i \in Modules, NEW c \in ExitCodes, Exit(i, c) PROVE IsolationInv'
  <2>1. /\ proc[i] = "running" /\ proc' = [proc EXCEPT ![i] = "dead"]
        /\ code' = [code EXCEPT ![i] = c]
        /\ UNCHANGED <<handled, disabled, asked, raised, loopVars>>
    BY <1>8 DEF Exit
  <2>2. \A j \in Modules : Settled(j) => Settled(j)'
    BY <2>1
  <2>3. Excused => Excused'
    BY <2>1
  <2>4. UNCHANGED <<phase, pos, active, shutdown>>
    BY <2>1 DEF loopVars
  <2>5. ~handled[i] /\ \A j \in Modules : handled'[j] => proc'[j] = "dead"
    BY ONLY <1>t, <2>1, IsolationInv DEF IsolationInv, ChildType
  <2>6. \A j \in Modules : handled[j] => proc[j] = "dead"
    BY DEF IsolationInv
  <2> HIDE DEF Settled, Excused
  <2> QED
    BY ONLY <2>1, <2>2, <2>3, <2>4, <2>5, <2>6, IsolationInv DEF IsolationInv
<1>9. CASE Signal
    BY <1>9 DEF Signal, childVars
<1>10. CASE Tick \/ UNCHANGED vars
  <2>1. UNCHANGED <<proc, code, disabled, asked, raised, handled, loopVars>>
    BY <1>10 DEF Tick, vars, childVars
  <2> QED
    BY <2>1, Undisturbed DEF loopVars
<1> QED
    BY <1>1, <1>2, <1>3, <1>4, <1>5, <1>6, <1>7, <1>8, <1>9, <1>10, <1>11, NextCases

\* Nothing but a handled signal, a failed task or an exception makes the
\* supervisor stop children while one of them still has work or budget left.
THEOREM CrashesAreIsolated == Spec => []FailuresAreIsolated
<1>1. IsolationInv => FailuresAreIsolated
    BY DEF IsolationInv, FailuresAreIsolated, Settled, Excused
<1> QED
    BY <1>1, IsolationInit, IsolationStep, BudgetInit, BudgetStep, TypeCorrect, PTL
    DEF Spec

-----------------------------------------------------------------------------
(***************************************************************************)
(* Stopping.  A child still alive has had every signal of the phases that  *)
(* are over, and nothing is launched from the first phase on.              *)
(***************************************************************************)

LastSent(signal) == \A i \in Modules : proc[i] = "running" => sent[i] = signal

StopInv ==
    /\ phase = "terminate" => LastSent("SIGINT")
    /\ phase = "kill" => LastSent("SIGTERM")
    /\ phase = "returned" => LastSent("SIGKILL")
    /\ phase \notin {"terminate", "kill", "returned"} =>
           \A i \in Modules : sent[i] = "none"

LEMMA StopInit == Init => StopInv
BY DEF Init, StopInv

LEMMA StopStep == TypeOK /\ StopInv /\ [Next]_vars => StopInv'
<1> SUFFICES ASSUME TypeOK, StopInv, [Next]_vars PROVE StopInv'
    OBVIOUS
<1>t. LoopType /\ ChildType
    BY DEF TypeOK
<1> USE <1>t DEF StopInv, LastSent, StopPhases, LoopType, ChildType, Phases
<1>1. CASE Launch
    BY <1>1 DEF Launch, StartProcess
<1>2. CASE Relaunch
    BY <1>2 DEF Relaunch, StartProcess
<1>3. CASE LaunchRaises \/ Wake \/ RelaunchRaises \/ EndOfPass \/ Signal
    BY <1>3 DEF LaunchRaises, Wake, RelaunchRaises, EndOfPass, Signal, childVars
<1>4. CASE SendInterrupt \/ SendTerminate \/ SendKill
    BY <1>4 DEF SendInterrupt, SendTerminate, SendKill, StopWith
<1>5. ASSUME NEW i \in Modules, Poll(i) PROVE StopInv'
    BY <1>5 DEF Poll, PassOver, PollAlive, AcceptExit, TaskFails, GiveUp,
                BackOff, NewExit, DaemonExit, Scanning, childVars
<1>6. ASSUME NEW i \in Modules, NEW c \in ExitCodes, Exit(i, c) PROVE StopInv'
    BY <1>6 DEF Exit, loopVars
<1>7. CASE Tick \/ UNCHANGED vars
    BY <1>7 DEF Tick, vars, loopVars, childVars
<1> QED
    BY <1>1, <1>2, <1>3, <1>4, <1>5, <1>6, <1>7, NextCases

LEMMA StopInvariant == Spec => []StopInv
BY StopInit, StopStep, TypeCorrect, PTL DEF Spec

\* A child that is alive when supervise_modules returns has been sent SIGKILL.
THEOREM NothingOutlives == Spec => []NothingOutlivesSupervisor
<1>1. StopInv => NothingOutlivesSupervisor
    BY DEF StopInv, LastSent, NothingOutlivesSupervisor
<1> QED
    BY <1>1, StopInvariant, PTL

\* SIGINT, SIGTERM and SIGKILL reach a child in that order and stopping
\* launches nothing.
THEOREM StopsInOrder == Spec => GracefulStop
<1> DEFINE Ordered ==
      /\ \A i \in Modules :
            sent'[i] # sent[i] =>
                <<sent[i], sent'[i]>> \in {<<"none", "SIGINT">>,
                    <<"SIGINT", "SIGTERM">>, <<"SIGTERM", "SIGKILL">>}
      /\ phase \in StopPhases =>
            \A i \in Modules : proc'[i] = "running" => proc[i] = "running"
<1>1. ASSUME TypeOK, StopInv, [Next]_vars PROVE [Ordered]_vars
  <2>t. LoopType /\ ChildType
    BY <1>1 DEF TypeOK
  <2> USE <1>1, <2>t DEF StopInv, LastSent, StopPhases, LoopType, ChildType, Phases
  <2>1. CASE Launch \/ Relaunch
    BY <2>1 DEF Launch, Relaunch, StartProcess
  <2>2. CASE SendInterrupt \/ SendTerminate \/ SendKill
    BY <2>2 DEF SendInterrupt, SendTerminate, SendKill, StopWith
  <2>3. CASE LaunchRaises \/ Wake \/ RelaunchRaises \/ EndOfPass \/ Signal \/ Tick
    BY <2>3 DEF LaunchRaises, Wake, RelaunchRaises, EndOfPass, Signal, Tick,
                childVars
  <2>4. ASSUME NEW i \in Modules, Poll(i) PROVE Ordered
    BY <2>4 DEF Poll, PassOver, PollAlive, AcceptExit, TaskFails, GiveUp,
                BackOff, childVars
  <2>5. ASSUME NEW i \in Modules, NEW c \in ExitCodes, Exit(i, c) PROVE Ordered
    BY <2>5 DEF Exit
  <2> QED
    BY <2>1, <2>2, <2>3, <2>4, <2>5, NextCases
<1> QED
    BY <1>1, StopInvariant, TypeCorrect, PTL DEF Spec, GracefulStop

=============================================================================
