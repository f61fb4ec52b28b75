-------------------------- MODULE DagSchedulerProofs --------------------------
(***************************************************************************)
(* For every graph, every number of workers and every choice of modules    *)
(* that hang: run_dag implements DependencyOrder, leaves no call behind    *)
(* between two levels, and leaves out only what stands on or behind a      *)
(* cycle.                                                                  *)
(***************************************************************************)
EXTENDS DagScheduler, TLAPS

\* The bookkeeping of run_dag, between and inside its levels.

FailedInv == \A m \in Modules : m \in failed <=> results[m] \notin {"none", "success"}

PassedInv == \A m \in passed : results[m] # "none"

\* What is submitted has all its dependencies behind it, as successes.
LevelInv ==
    \A m \in level :
        /\ m \notin passed
        /\ \A d \in Upstream(m) : d \in passed /\ results[d] = "success"

AheadInv ==
    \A m \in Modules : m \notin passed \cup level => work[m] = "idle" /\ results[m] = "none"

CallInv == \A m \in Modules : work[m] \in {"queued", "running"} => m \in level

PcInv ==
    /\ pc \in {"levels", "returned"} => level = {}
    /\ pc = "leave" => Uncollected = {}
    /\ pc = "returned" => NextLevel = {}

\* The whole inductive invariant.
DagInv ==
    /\ TypeOK
    /\ FailedInv
    /\ PassedInv
    /\ LevelInv
    /\ AheadInv
    /\ CallInv
    /\ PcInv

LEMMA DagInvInit == Init => DagInv
BY DEF Init, DagInv, TypeOK, FailedInv, PassedInv, LevelInv, AheadInv, CallInv, PcInv,
       Uncollected

\* One level is left and the next is submitted or skipped.
LEMMA StartLevelKeepsInv == ASSUME DagInv, StartLevel PROVE DagInv'
<1> DEFINE run == NextLevel \ Blocked
<1> USE DEF DagInv, TypeOK
<1>1. level = {} /\ pc = "levels"
  BY DEF StartLevel, PcInv
<1>2. \A m \in NextLevel :
        m \in Modules /\ m \notin passed /\ Upstream(m) \subseteq passed
  BY DEF NextLevel
<1>3. \A m \in NextLevel : work[m] = "idle" /\ results[m] = "none" /\ m \notin failed
  BY <1>1, <1>2 DEF AheadInv, FailedInv
<1>4. /\ Blocked \subseteq NextLevel
      /\ run \subseteq NextLevel
      /\ run \cap Blocked = {}
      /\ run \cup Blocked = NextLevel
  BY DEF Blocked
<1>5. /\ results' = [m \in Modules |-> IF m \in Blocked THEN "skipped" ELSE results[m]]
      /\ failed' = failed \cup Blocked
      /\ level' = run
      /\ work' = [m \in Modules |-> IF m \in run THEN "queued" ELSE work[m]]
      /\ passed' = passed \cup Blocked
      /\ pc' = IF NextLevel = Blocked THEN "levels" ELSE "collect"
  BY DEF StartLevel
<1>6. \A m \in run : \A d \in Upstream(m) : d \in passed /\ results[d] = "success"
  <2> SUFFICES ASSUME NEW m \in run, NEW d \in Upstream(m)
               PROVE  d \in passed /\ results[d] = "success"
    OBVIOUS
  <2>1. d \in passed /\ d \in Modules /\ d \in DependsOn[m]
    BY <1>2, <1>4 DEF Upstream
  <2>2. d \notin failed
    BY <2>1, <1>4 DEF Blocked
  <2> QED  BY <2>1, <2>2 DEF PassedInv, FailedInv
<1> HIDE DEF run
<1>7. TypeOK'
  BY <1>2, <1>4, <1>5
<1>8. FailedInv'
  BY <1>2, <1>3, <1>4, <1>5 DEF FailedInv
<1>9. PassedInv'
  BY <1>2, <1>4, <1>5 DEF PassedInv
<1>10. LevelInv'
  <2> SUFFICES ASSUME NEW m \in run
               PROVE  /\ m \notin passed \cup Blocked
                      /\ \A d \in Upstream(m) : d \in passed' /\ results'[d] = "success"
    BY <1>5 DEF LevelInv, Upstream
  <2>1. m \notin passed \cup Blocked
    BY <1>2, <1>4
  <2>2. ASSUME NEW d \in Upstream(m) PROVE d \in passed' /\ results'[d] = "success"
    <3>1. d \in passed /\ results[d] = "success" /\ d \in Modules
      BY <1>6 DEF Upstream
    <3>2. d \notin Blocked
      BY <3>1, <1>2, <1>4
    <3> QED  BY <3>1, <3>2, <1>5
  <2> QED  BY <2>1, <2>2
<1>11. AheadInv'
  BY <1>1, <1>4, <1>5 DEF AheadInv
<1>12. CallInv'
  BY <1>1, <1>5 DEF CallInv
<1>13. PcInv'
  BY <1>4, <1>5 DEF PcInv
<1> QED  BY <1>7, <1>8, <1>9, <1>10, <1>11, <1>12, <1>13

\* A call begins or ends: only work changes.
LEMMA CallKeepsInv ==
    ASSUME DagInv,
           \/ \E m \in Modules : Call(m)
           \/ \E m \in Modules, status \in {"success", "error"} : Finish(m, status)
    PROVE  DagInv'
<1> USE DEF DagInv
<1>1. UNCHANGED <<pc, passed, level, results, failed>>
  BY DEF Call, Finish
<1>2. PICK m \in Modules, to \in {"running", "success", "error"} :
        /\ work[m] \in {"queued", "running"}
        /\ work' = [work EXCEPT ![m] = to]
  BY DEF Call, Finish
<1>3. m \in level
  BY <1>2 DEF CallInv
<1>4. TypeOK' /\ CallInv' /\ AheadInv'
  BY <1>1, <1>2, <1>3 DEF TypeOK, CallInv, AheadInv
<1>5. FailedInv' /\ PassedInv' /\ LevelInv' /\ PcInv'
  BY <1>1 DEF FailedInv, PassedInv, LevelInv, PcInv, Uncollected, NextLevel, Upstream
<1> QED  BY <1>4, <1>5

\* A status is recorded, for one module or for all that are late.
LEMMA RecordKeepsInv ==
    ASSUME DagInv, (\E m \in Modules : Collect(m)) \/ Timeout
    PROVE  DagInv'
<1> USE DEF DagInv, TypeOK
<1>1. PICK late \in SUBSET Uncollected, status \in [Modules -> {"success", "error", "timeout"}] :
        /\ results' = [m \in Modules |-> IF m \in late THEN status[m] ELSE results[m]]
        /\ failed' = failed \cup {m \in late : status[m] # "success"}
        /\ pc' = "leave" => late = Uncollected
  <2>1. CASE \E m \in Modules : Collect(m)
    <3>1. PICK m \in Modules : Collect(m)
      BY <2>1
    <3>2. work[m] \in {"success", "error"} /\ m \in Uncollected /\ pc = "collect"
      BY <3>1 DEF Collect, Finished
    <3> DEFINE st == [n \in Modules |-> IF n = m THEN work[m] ELSE "error"]
    <3>3. st \in [Modules -> {"success", "error", "timeout"}]
      BY <3>2
    <3>4. results' = [n \in Modules |-> IF n \in {m} THEN st[n] ELSE results[n]]
      BY <3>1 DEF Collect
    <3>5. failed' = failed \cup {n \in {m} : st[n] # "success"}
      BY <3>1 DEF Collect
    <3>6. pc' # "leave"
      BY <3>1 DEF Collect
    <3> HIDE DEF st
    <3> QED  BY <3>2, <3>3, <3>4, <3>5, <3>6
  <2>2. CASE Timeout
    <3> DEFINE st == [n \in Modules |-> "timeout"]
    <3>1. st \in [Modules -> {"success", "error", "timeout"}]
      OBVIOUS
    <3>2. results' = [n \in Modules |-> IF n \in Uncollected THEN st[n] ELSE results[n]]
      BY <2>2 DEF Timeout
    <3>3. Uncollected \subseteq Modules
      BY DEF Uncollected
    <3>4. failed' = failed \cup {n \in Uncollected : st[n] # "success"}
      BY <2>2, <3>3 DEF Timeout
    <3> HIDE DEF st
    <3> QED  BY <3>1, <3>2, <3>4
  <2> QED  BY <2>1, <2>2
<1>2. /\ pc = "collect" /\ pc' \in {"collect", "leave"}
      /\ UNCHANGED <<passed, level, work>>
  BY DEF Collect, Timeout
<1>3. \A m \in late : m \in level /\ m \in Modules /\ results[m] = "none" /\ m \notin failed
  BY DEF Uncollected, FailedInv
<1>4. \A m \in Modules : m \notin late => results'[m] = results[m]
  BY <1>1
<1>5. \A m \in late : results'[m] = status[m] /\ status[m] # "none"
  BY <1>1, <1>3
<1>6. TypeOK' /\ FailedInv'
  BY <1>1, <1>2, <1>3, <1>4, <1>5 DEF FailedInv
<1>7. PassedInv' /\ AheadInv' /\ CallInv'
  BY <1>1, <1>2, <1>3, <1>4, <1>5 DEF PassedInv, AheadInv, CallInv
<1>8. LevelInv'
  BY <1>2, <1>3, <1>4 DEF LevelInv, Upstream
<1>9. PcInv'
  <2>1. ASSUME pc' = "leave" PROVE Uncollected' = {}
    BY <1>1, <1>2, <1>5, <2>1 DEF Uncollected
  <2> QED  BY <1>2, <2>1 DEF PcInv
<1> QED  BY <1>6, <1>7, <1>8, <1>9

\* The scheduling thread moves on.
LEMMA MoveOnKeepsInv ==
    ASSUME DagInv, AllCollected \/ LeaveLevel \/ Return
    PROVE  DagInv'
<1> USE DEF DagInv, TypeOK
<1>1. CASE AllCollected
  <2>1. pc' = "leave" /\ Uncollected = {} /\ UNCHANGED <<passed, level, work, results, failed>>
    BY <1>1 DEF AllCollected
  <2> QED
    BY <2>1 DEF FailedInv, PassedInv, LevelInv, AheadInv, CallInv, PcInv, Uncollected, Upstream
<1>2. CASE LeaveLevel
  <2>1. /\ pc = "leave" /\ pc' = "levels"
        /\ \A m \in level : Finished(m)
        /\ passed' = passed \cup level
        /\ level' = {}
        /\ UNCHANGED <<work, results, failed>>
    BY <1>2 DEF LeaveLevel
  <2>2. \A m \in level : results[m] # "none"
    BY <2>1 DEF PcInv, Uncollected
  <2>3. \A m \in Modules : work[m] \notin {"queued", "running"}
    BY <2>1 DEF CallInv, Finished
  <2>4. TypeOK' /\ FailedInv' /\ PassedInv' /\ LevelInv'
    BY <2>1, <2>2 DEF FailedInv, PassedInv, LevelInv
  <2>5. AheadInv' /\ CallInv' /\ PcInv'
    BY <2>1, <2>3 DEF AheadInv, CallInv, PcInv
  <2> QED  BY <2>4, <2>5
<1>3. CASE Return
  <2>1. /\ pc = "levels" /\ pc' = "returned"
        /\ NextLevel = {}
        /\ UNCHANGED <<passed, level, work, results, failed>>
    BY <1>3 DEF Return
  <2> QED
    BY <2>1 DEF FailedInv, PassedInv, LevelInv, AheadInv, CallInv, PcInv, Uncollected,
                NextLevel, Upstream
<1> QED  BY <1>1, <1>2, <1>3

LEMMA DagInvStep == DagInv /\ [Next]_vars => DagInv'
<1> SUFFICES ASSUME DagInv, [Next]_vars PROVE DagInv'
  OBVIOUS
<1>1. CASE StartLevel
  BY <1>1, StartLevelKeepsInv
<1>2. CASE \/ \E m \in Modules : Call(m)
           \/ \E m \in Modules, status \in {"success", "error"} : Finish(m, status)
  BY <1>2, CallKeepsInv
<1>3. CASE (\E m \in Modules : Collect(m)) \/ Timeout
  BY <1>3, RecordKeepsInv
<1>4. CASE AllCollected \/ LeaveLevel \/ Return
  BY <1>4, MoveOnKeepsInv
<1>5. CASE UNCHANGED vars
  BY <1>5 DEF vars, DagInv, TypeOK, FailedInv, PassedInv, LevelInv, AheadInv, CallInv, PcInv,
              Uncollected, NextLevel, Upstream
<1> QED  BY <1>1, <1>2, <1>3, <1>4, <1>5 DEF Next

LEMMA DagInvHolds == Spec => []DagInv
BY DagInvInit, DagInvStep, PTL DEF Spec

\* The state variables of run_dag keep their types.
THEOREM DagTypeCorrect == Spec => []TypeOK
<1>1. DagInv => TypeOK
  BY DEF DagInv
<1> QED  BY <1>1, DagInvHolds, PTL

\* Between two levels, and after run_dag returned, no module is being called,
\* those that were given up included.
THEOREM NothingRunsBetweenLevels == Spec => []NoCallBetweenLevels
<1>1. DagInv => NoCallBetweenLevels
  BY DEF DagInv, CallInv, PcInv, NoCallBetweenLevels
<1> QED  BY <1>1, DagInvHolds, PTL

------------------------------------------------------------------------------
\* The refinement: a level's head is a Skip of what it blocks, a call is an
\* Enter, a status collected is a Report, the deadline is a GiveUpOn.

LEMMA InitRefines == Init => Order!Init
BY DEF Init, Order!Init, Entered

LEMMA StartLevelRefines == ASSUME DagInv, StartLevel PROVE Order!Skip(Blocked)
<1>1. /\ results' = [m \in Modules |-> IF m \in Blocked THEN "skipped" ELSE results[m]]
      /\ work' = [m \in Modules |-> IF m \in NextLevel \ Blocked THEN "queued" ELSE work[m]]
      /\ level = {}
  BY DEF StartLevel, DagInv, PcInv
<1>2. \A m \in NextLevel : m \in Modules /\ work[m] = "idle" /\ results[m] = "none"
  BY <1>1 DEF DagInv, AheadInv, NextLevel
<1>3. ASSUME NEW m \in Blocked
      PROVE  results[m] = "none" /\ m \notin Entered /\ Order!SomeFailed(m)
  <2>1. m \in NextLevel
    BY DEF Blocked
  <2>2. PICK d \in DependsOn[m] : d \in failed
    BY DEF Blocked
  <2> QED
    BY <1>2, <2>1, <2>2 DEF Entered, Order!SomeFailed, Order!Upstream, DagInv, TypeOK, FailedInv
<1>4. Entered' = Entered
  BY <1>1, <1>2 DEF Entered, DagInv, TypeOK
<1> QED  BY <1>1, <1>3, <1>4 DEF Order!Skip

LEMMA CallRefines == ASSUME DagInv, NEW m \in Modules, Call(m) PROVE Order!Enter(m)
<1>1. work[m] = "queued" /\ work' = [work EXCEPT ![m] = "running"] /\ UNCHANGED results
  BY DEF Call
<1>2. m \in level
  BY <1>1 DEF DagInv, CallInv
<1>3. Order!AllSucceeded(m)
  BY <1>2 DEF DagInv, LevelInv, Upstream, Order!AllSucceeded, Order!Upstream
<1>4. m \notin Entered /\ Entered' = Entered \cup {m}
  BY <1>1 DEF Entered, DagInv, TypeOK
<1> QED  BY <1>1, <1>3, <1>4 DEF Order!Enter

LEMMA FinishRefines ==
    ASSUME DagInv, NEW m \in Modules, NEW status \in {"success", "error"}, Finish(m, status)
    PROVE  UNCHANGED <<Entered, results>>
BY DEF DagInv, TypeOK, Finish, Entered

LEMMA CollectRefines ==
    ASSUME DagInv, NEW m \in Modules, Collect(m)
    PROVE  work[m] \in {"success", "error"} /\ Order!Report(m, work[m])
BY DEF DagInv, TypeOK, Collect, Finished, Uncollected, Entered, Order!Report

LEMMA TimeoutRefines == ASSUME DagInv, Timeout PROVE Order!GiveUpOn(Uncollected)
<1>1. /\ results' = [m \in Modules |-> IF m \in Uncollected THEN "timeout" ELSE results[m]]
      /\ Entered' = Entered
  BY DEF Timeout, Entered
<1>2. \A m \in Uncollected : results[m] = "none" /\ Order!AllSucceeded(m)
  BY DEF Uncollected, DagInv, LevelInv, Upstream, Order!AllSucceeded, Order!Upstream
<1> QED  BY <1>1, <1>2 DEF Order!GiveUpOn

LEMMA StepRefines == DagInv /\ [Next]_vars => [Order!Next]_(Order!vars)
<1> SUFFICES ASSUME DagInv, [Next]_vars PROVE [Order!Next]_(Order!vars)
  OBVIOUS
<1>1. CASE StartLevel
  <2>1. Blocked \subseteq Modules
    BY DEF Blocked, NextLevel
  <2> QED  BY <1>1, <2>1, StartLevelRefines DEF Order!Next
<1>2. ASSUME NEW m \in Modules, Call(m) PROVE Order!Next
  BY <1>2, CallRefines DEF Order!Next
<1>3. ASSUME NEW m \in Modules, NEW status \in {"success", "error"}, Finish(m, status)
      PROVE  UNCHANGED Order!vars
  BY <1>3, FinishRefines DEF Order!vars
<1>4. ASSUME NEW m \in Modules, Collect(m) PROVE Order!Next
  BY <1>4, CollectRefines DEF Order!Next
<1>5. CASE Timeout
  <2>1. Uncollected \subseteq Modules
    BY DEF Uncollected, DagInv, TypeOK
  <2> QED  BY <1>5, <2>1, TimeoutRefines DEF Order!Next
<1>6. CASE AllCollected \/ LeaveLevel \/ Return \/ UNCHANGED vars
  BY <1>6 DEF AllCollected, LeaveLevel, Return, vars, Order!vars, Entered
<1> QED  BY <1>1, <1>2, <1>3, <1>4, <1>5, <1>6 DEF Next

\* run_dag implements the order of the logic layer: a module is called at most
\* once and only after all it depends on was recorded as a success, it is
\* skipped only for a dependency that was not, and a status is final.
THEOREM DagImplementsOrder == Spec => RespectsDependencies
BY DagInvHolds, InitRefines, StepRefines, PTL DEF Spec, Order!Spec, RespectsDependencies

------------------------------------------------------------------------------
\* No level reaches a module that stands on or behind a cycle.
CircularInv == (passed \cup level) \cap Circular = {}

LEMMA CircularHasUpstream ==
    ASSUME NEW m \in Circular PROVE m \in Modules /\ Upstream(m) \cap Circular # {}
<1>1. PICK knot \in SUBSET Modules :
        m \in knot /\ \A n \in knot : Upstream(n) \cap knot # {}
  BY DEF Circular
<1>2. knot \subseteq Circular
  BY <1>1 DEF Circular
<1> QED  BY <1>1, <1>2

LEMMA CircularInvStep == DagInv /\ CircularInv /\ [Next]_vars => CircularInv'
<1> SUFFICES ASSUME DagInv, CircularInv, [Next]_vars PROVE CircularInv'
  OBVIOUS
<1> USE DEF CircularInv
<1>0. Circular' = Circular
  BY DEF Circular, Upstream
<1>1. CASE StartLevel
  <2>1. \A m \in NextLevel : Upstream(m) \subseteq passed
    BY DEF NextLevel
  <2>2. NextLevel \cap Circular = {}
    BY <2>1, CircularHasUpstream
  <2>3. passed' \cup level' \subseteq passed \cup NextLevel
    BY <1>1 DEF StartLevel, Blocked
  <2> QED  BY <1>0, <2>2, <2>3
<1>2. CASE LeaveLevel
  BY <1>0, <1>2 DEF LeaveLevel
<1>3. CASE UNCHANGED <<passed, level>>
  BY <1>0, <1>3
<1> QED
  BY <1>1, <1>2, <1>3 DEF Next, vars, Call, Finish, Collect, Timeout, AllCollected, Return

\* A run has a status for every module except those that stand on a cycle or
\* depend, through any number of modules, on one that does.
THEOREM OnlyCircularLeftOut == Spec => []OnlyCyclesAreLeftOut
<1>1. Init => CircularInv
  BY DEF Init, CircularInv
<1>2. DagInv /\ CircularInv => OnlyCyclesAreLeftOut
  <2> SUFFICES ASSUME DagInv, CircularInv, pc = "returned"
               PROVE  {m \in Modules : results[m] = "none"} = Circular
    BY DEF OnlyCyclesAreLeftOut
  <2>1. level = {} /\ NextLevel = {}
    BY DEF DagInv, PcInv
  <2>2. {m \in Modules : results[m] = "none"} = Modules \ passed
    BY <2>1 DEF DagInv, AheadInv, PassedInv
  <2>3. \A m \in Modules \ passed : Upstream(m) \cap (Modules \ passed) # {}
    BY <2>1 DEF NextLevel, Upstream
  <2>4. Modules \ passed \subseteq Circular
    BY <2>3 DEF Circular
  <2>5. Circular \subseteq Modules \ passed
    BY CircularHasUpstream DEF CircularInv
  <2> QED  BY <2>2, <2>4, <2>5
<1> QED  BY <1>1, <1>2, CircularInvStep, DagInvHolds, PTL DEF Spec
==============================================================================
