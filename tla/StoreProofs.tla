----------------------------- MODULE StoreProofs -----------------------------
(***************************************************************************)
(* What holds of StoreSessions for any jobs and programs: types, one       *)
(* writer at a time, and that saves are atomic (AtomicSaves).  What holds  *)
(* of jobs whose programs keep a rule of ProgramRules: the newest row only *)
(* advances and has its history, the lock is given back and not held while *)
(* the network is asked, what was written is committed at the end, and no  *)
(* session is stuck with an old snapshot.  And which programs keep the     *)
(* rules by the way they are built in the language of StorePrograms.       *)
(***************************************************************************)
EXTENDS StoreSessions, TLAPS

\* No program replaces the newest row of a latest_* table whatever its time.
Guarded == \A j \in Jobs : Guards(Program[j], DOMAIN Histories)

\* Nor that of a history, except by dropping it.
Growing ==
    \A j \in Jobs : Grows(Program[j], {Histories[latest] : latest \in DOMAIN Histories})

RunStates ==
    [session : Threads \cup {None}, pc : Nat, stamp : Stamp, again : 0..MaxAgain, clean : BOOLEAN]

LEMMA ConstantTypes ==
    /\ Deployments \subseteq SUBSET Jobs
    /\ Program \in [Jobs -> Seq([op : STRING, table : STRING, dist : Nat, rescue : Nat])]
    /\ \A j \in Jobs : WellFormed(Program[j])
    /\ MaxStamp \in Nat
    /\ MaxAgain \in Nat
  BY StoreAssumption DEF StoreAssumption

\* What a sequence holds.
LEMMA Elements ==
    ASSUME NEW S, NEW p \in Seq(S), NEW i \in 1..Len(p)
    PROVE  p[i] \in S
  OBVIOUS

\* A job is at a step of its program unless the run is over.
LEMMA AtStep ==
    ASSUME TypeOK, NEW j \in deployed, NEW ops, At(j, ops)
    PROVE  /\ j \in Jobs
           /\ Running(j)
           /\ run[j].pc \in 1..Len(Program[j])
           /\ Len(Program[j]) \in Nat
           /\ Here(j) \in [op : STRING, table : STRING, dist : Nat, rescue : Nat]
           /\ Here(j).op \in ops
  <1>1. j \in Jobs
    BY ConstantTypes DEF TypeOK
  <1>2. Program[j] \in Seq([op : STRING, table : STRING, dist : Nat, rescue : Nat])
    BY <1>1, ConstantTypes
  <1>3. Len(Program[j]) \in Nat
    BY <1>2
  <1>4. Running(j) /\ ~Over(j)
    BY DEF At
  <1>5. run[j].pc \in 1..(Len(Program[j]) + 1)
    BY <1>4 DEF TypeOK, RunsOK
  <1>6. run[j].pc \in 1..Len(Program[j])
    BY ONLY <1>3, <1>4, <1>5 DEF Over
  <1>7. Here(j) \in [op : STRING, table : STRING, dist : Nat, rescue : Nat]
    BY ONLY <1>2, <1>6, Elements DEF Here
  <1>8. Here(j).op \in ops
    BY DEF At, Here
  <1> QED
    BY <1>1, <1>3, <1>4, <1>6, <1>7, <1>8

\* Where an exception leads.
LEMMA ThrowTarget ==
    ASSUME TypeOK, NEW j \in deployed, NEW ops, At(j, ops)
    PROVE  (IF Here(j).rescue = 0 THEN Len(Program[j]) + 1 ELSE run[j].pc + Here(j).rescue)
                \in 1..(Len(Program[j]) + 1)
  <1>1. /\ run[j].pc \in 1..Len(Program[j])
        /\ Len(Program[j]) \in Nat
        /\ Here(j).rescue \in Nat
        /\ j \in Jobs
    BY AtStep
  <1>2. run[j].pc + Program[j][run[j].pc].rescue <= Len(Program[j]) + 1
    <2>1. Program[j] \in Seq([op : STRING, table : STRING, dist : Nat, rescue : Nat])
      BY <1>1, ConstantTypes
    <2>2. run[j].pc \in DOMAIN Program[j]
      BY ONLY <1>1, <2>1
    <2> QED
      BY <1>1, <2>2, ConstantTypes DEF WellFormed
  <1> QED
    BY ONLY <1>1, <1>2 DEF Here

\* A step that moves a run on keeps the runs well formed.
LEMMA MoveRun ==
    ASSUME TypeOK, NEW j \in deployed, deployed' = deployed, Running(j),
           NEW next \in RunStates,
           next.session = run[j].session,
           next.pc \in 1..(Len(Program[j]) + 1),
           run' = [run EXCEPT ![j] = next]
    PROVE  RunsOK'
  <1>1. run' \in [deployed -> RunStates]
    BY DEF TypeOK, RunsOK, RunStates
  <1>2. ASSUME NEW k \in deployed, run'[k] # Idle
        PROVE  /\ run'[k].session \in Pool[k]
               /\ run'[k].pc \in 1..(Len(Program[k]) + 1)
    <2>1. CASE k = j
      BY <2>1 DEF TypeOK, RunsOK
    <2>2. CASE k # j
      BY <1>2, <2>2 DEF TypeOK, RunsOK, Running
    <2> QED
      BY <2>1, <2>2
  <1>3. Threads' = Threads /\ RunStates' = RunStates
    BY DEF Threads, RunStates
  <1> QED
    BY <1>1, <1>2, <1>3 DEF RunsOK, Running, RunStates

\* The step of a run in its session.
LEMMA RunType ==
    ASSUME TypeOK, NEW j \in deployed
    PROVE  /\ run[j] \in RunStates
           /\ run[j].session \in Threads \cup {None}
           /\ run[j].pc \in Nat
           /\ run[j].stamp \in Stamp
           /\ run[j].again \in 0..MaxAgain
           /\ run[j].clean \in BOOLEAN
  BY DEF TypeOK, RunsOK, RunStates
\* An exception keeps the runs well formed.
LEMMA Thrown ==
    ASSUME TypeOK, NEW j \in deployed, NEW ops, At(j, ops), Throw(j), deployed' = deployed
    PROVE  RunsOK'
  <1> DEFINE there == IF Here(j).rescue = 0 THEN Len(Program[j]) + 1
                      ELSE run[j].pc + Here(j).rescue
             next == [run[j] EXCEPT !.pc = there, !.clean = FALSE]
  <1>1. Running(j) /\ Len(Program[j]) \in Nat
    BY AtStep
  <1>2. there \in 1..(Len(Program[j]) + 1)
    BY ThrowTarget
  <1>3. there \in Nat
    BY ONLY <1>1, <1>2
  <1>4. run[j] \in RunStates
    BY RunType
  <1> HIDE DEF there
  <1>5. next \in RunStates /\ next.session = run[j].session /\ next.pc = there
    BY <1>3, <1>4 DEF RunStates
  <1>6. run' = [run EXCEPT ![j] = next]
    BY DEF Throw, there
  <1> QED
    BY <1>1, <1>2, <1>5, <1>6, MoveRun

\* So does going on at a step of the program, with another answer or not.
LEMMA Moved ==
    ASSUME TypeOK, NEW j \in deployed, Running(j), deployed' = deployed,
           NEW pc \in 1..(Len(Program[j]) + 1), Len(Program[j]) \in Nat,
           NEW stamp \in Stamp, NEW again \in 0..MaxAgain,
           run' = [run EXCEPT ![j].pc = pc, ![j].stamp = stamp, ![j].again = again]
    PROVE  RunsOK'
  <1> DEFINE next == [run[j] EXCEPT !.pc = pc, !.stamp = stamp, !.again = again]
  <1>1. pc \in Nat
    OBVIOUS
  <1>2. run[j] \in RunStates
    BY RunType
  <1>3. next \in RunStates /\ next.session = run[j].session /\ next.pc = pc
    BY <1>1, <1>2 DEF RunStates
  <1>4. run' = [run EXCEPT ![j] = next]
    OBVIOUS
  <1> QED
    BY <1>3, <1>4, MoveRun

LEMMA Gone ==
    ASSUME TypeOK, NEW j \in deployed, Running(j), deployed' = deployed,
           NEW pc \in 1..(Len(Program[j]) + 1), Len(Program[j]) \in Nat, Goto(j, pc)
    PROVE  RunsOK'
  <1>1. run[j] \in RunStates /\ run[j].stamp \in Stamp /\ run[j].again \in 0..MaxAgain
    BY RunType
  <1>2. run' = [run EXCEPT ![j].pc = pc, ![j].stamp = run[j].stamp, ![j].again = run[j].again]
    BY <1>1 DEF Goto, RunStates, TypeOK, RunsOK
  <1> QED
    BY <1>1, <1>2, Moved

LEMMA Continued ==
    ASSUME TypeOK, NEW j \in deployed, NEW ops, At(j, ops), Continue(j), deployed' = deployed
    PROVE  RunsOK'
  <1>1. Running(j) /\ Len(Program[j]) \in Nat /\ run[j].pc \in 1..Len(Program[j])
    BY AtStep
  <1>2. run[j].pc + 1 \in 1..(Len(Program[j]) + 1)
    BY ONLY <1>1
  <1> QED
    BY <1>1, <1>2, Gone DEF Continue

------------------------------------------------------------------------------
(***************************************************************************)
(* Type correctness.                                                       *)
(***************************************************************************)
LEMMA InitType == Init => TypeOK
  <1> SUFFICES ASSUME Init PROVE TypeOK
    OBVIOUS
  <1>1. 0 \in Stamp /\ 0 \in 0..MaxAgain
    BY ConstantTypes DEF Stamp
  <1>2. RunsOK
    <2>1. run \in [deployed -> RunStates]
      BY <1>1 DEF Init, Idle, RunStates
    <2>2. \A j \in deployed : ~Running(j)
      BY DEF Init, Running
    <2> QED
      BY <2>1, <2>2 DEF RunsOK, RunStates
  <1>3. txn \in [Threads -> States]
    BY DEF Init, Threads, States
  <1>4. stored \in [Tables -> Stamp] /\ draft \in [Tables -> Stamp] /\ emptied \subseteq Tables
    BY <1>1 DEF Init
  <1> QED
    BY <1>2, <1>3, <1>4 DEF Init, TypeOK

\* The times an answer can carry are times.
LEMMA StampsType == \A j : Stamps(j) \subseteq Stamp
  BY ConstantTypes DEF Stamps, Stamp

LEMMA BegunType ==
    ASSUME TypeOK, NEW s
    PROVE  Begun(s) \in [Threads -> States]
  BY DEF TypeOK, Begun, States

LEMMA WrittenType ==
    ASSUME TypeOK, NEW j \in deployed
    PROVE  Written(j) \in [Tables -> Stamp]
  BY RunType DEF TypeOK, Written

LEMMA EmptiesType ==
    ASSUME TypeOK, NEW j, Empties(j)
    PROVE  draft' \in [Tables -> Stamp] /\ emptied' \subseteq Tables
  <1>1. 0 \in Stamp
    BY ConstantTypes DEF Stamp
  <1> QED
    BY <1>1 DEF TypeOK, Empties

LEMMA CloseType ==
    ASSUME TypeOK, NEW closed, CloseAll(closed)
    PROVE  /\ txn' \in [Threads -> States]
           /\ draft' \in [Tables -> Stamp]
           /\ emptied' \subseteq Tables
  BY DEF TypeOK, CloseAll, Sessions, States

LEMMA PublishType ==
    ASSUME TypeOK, NEW s, Publish(s)
    PROVE  /\ txn' \in [Threads -> States]
           /\ stored' \in [Tables -> Stamp]
           /\ emptied' \subseteq Tables
  BY DEF TypeOK, Publish, Sessions, States

\* deployed never changes, and with it the threads there are.
LEMMA SameThreads == ASSUME deployed' = deployed PROVE Threads' = Threads
  BY DEF Threads

LEMMA StartType ==
    ASSUME TypeOK, NEW j \in deployed, Start(j)
    PROVE  TypeOK'
  <1>1. PICK s \in Pool[j] : run' = [run EXCEPT ![j] = Begin(s)]
    BY DEF Start
  <1>2. UNCHANGED <<deployed, txn, stored, draft, emptied>>
    BY DEF Start
  <1>3. j \in Jobs /\ Len(Program[j]) \in Nat
    BY ConstantTypes DEF TypeOK
  <1>4. Begin(s) \in RunStates
    <2>1. s \in Threads
      BY DEF Threads
    <2>2. 0 \in Stamp /\ 0 \in 0..MaxAgain /\ 1 \in Nat
      BY ConstantTypes DEF Stamp
    <2>3. (txn[s] = "none") \in BOOLEAN
      OBVIOUS
    <2> QED
      BY ONLY <2>1, <2>2, <2>3 DEF Begin, RunStates
  <1>5. RunsOK'
    <2>1. run' \in [deployed -> RunStates]
      BY <1>1, <1>4 DEF TypeOK, RunsOK, RunStates
    <2>2. ASSUME NEW k \in deployed, run'[k] # Idle
          PROVE  run'[k].session \in Pool[k] /\ run'[k].pc \in 1..(Len(Program[k]) + 1)
      <3>1. CASE k = j
        <4>1. run'[k] = Begin(s)
          BY <1>1, <3>1 DEF TypeOK, RunsOK
        <4>2. Begin(s).session = s /\ Begin(s).pc = 1
          BY DEF Begin
        <4> QED
          BY <1>3, <3>1, <4>1, <4>2
      <3>2. CASE k # j
        <4>1. run'[k] = run[k]
          BY <1>1, <3>2 DEF TypeOK, RunsOK
        <4> QED
          BY <2>2, <4>1 DEF TypeOK, RunsOK, Running
      <3> QED
        BY <3>1, <3>2
    <2>3. RunStates' = RunStates
      BY <1>2, SameThreads DEF RunStates
    <2> QED
      BY <1>2, <2>1, <2>2, <2>3 DEF RunsOK, RunStates, Running
  <1> QED
    BY <1>2, <1>5, SameThreads DEF TypeOK

LEMMA AnswerType ==
    ASSUME TypeOK, NEW j \in deployed, Answer(j)
    PROVE  TypeOK'
  <1>1. PICK stamp \in Stamps(j) : run' = [run EXCEPT ![j].pc = @ + 1, ![j].stamp = stamp]
    BY DEF Answer
  <1>2. UNCHANGED <<deployed, txn, stored, draft, emptied>> /\ At(j, {"fetch"})
    BY DEF Answer
  <1>3. Running(j) /\ Len(Program[j]) \in Nat /\ run[j].pc \in 1..Len(Program[j])
    BY <1>2, AtStep
  <1>4. run[j].pc + 1 \in 1..(Len(Program[j]) + 1)
    BY ONLY <1>3
  <1>5. run[j] \in RunStates /\ run[j].again \in 0..MaxAgain /\ stamp \in Stamp
    BY RunType, StampsType
  <1>6. run' = [run EXCEPT ![j].pc = run[j].pc + 1, ![j].stamp = stamp, ![j].again = run[j].again]
    BY <1>1, <1>5 DEF RunStates, TypeOK, RunsOK
  <1>7. RunsOK'
    BY <1>2, <1>3, <1>4, <1>5, <1>6, Moved
  <1> QED
    BY <1>2, <1>7, SameThreads DEF TypeOK

LEMMA TripType ==
    ASSUME TypeOK, NEW j \in deployed, Trip(j)
    PROVE  TypeOK'
  <1>1. PICK ops : At(j, ops)
    BY DEF Trip, Failing
  <1>2. Throw(j) /\ UNCHANGED <<deployed, stored, draft, emptied>>
    BY DEF Trip
  <1>3. RunsOK'
    BY <1>1, <1>2, Thrown
  <1>4. txn' \in [Threads -> States]
    BY BegunType DEF Trip, TypeOK
  <1> QED
    BY <1>2, <1>3, <1>4, SameThreads DEF TypeOK

LEMMA ControlType ==
    ASSUME TypeOK, NEW j \in deployed, Control(j)
    PROVE  TypeOK'
  <1>1. UNCHANGED <<deployed, txn, stored, draft, emptied>>
    BY DEF Control
  <1>2. RunsOK'
    <2>1. CASE At(j, {"branch"}) /\ Continue(j)
      BY <1>1, <2>1, Continued
    <2>2. CASE At(j, {"again"}) /\ Continue(j)
      BY <1>1, <2>2, Continued
    <2>3. CASE At(j, {"branch", "jump"}) /\ Goto(j, run[j].pc + Here(j).dist)
      <3>1. /\ Running(j) /\ j \in Jobs
            /\ Len(Program[j]) \in Nat
            /\ run[j].pc \in 1..Len(Program[j])
            /\ Here(j).dist \in Nat
            /\ Here(j).op \in {"branch", "jump"}
        BY <2>3, AtStep
      <3>2. run[j].pc \in DOMAIN Program[j]
        BY <3>1, ConstantTypes
      <3>3. run[j].pc + Here(j).dist <= Len(Program[j]) + 1
        BY <3>1, <3>2, ConstantTypes DEF WellFormed, Here
      <3>4. run[j].pc + Here(j).dist \in 1..(Len(Program[j]) + 1)
        BY ONLY <3>1, <3>3
      <3> QED
        BY <1>1, <2>3, <3>1, <3>4, Gone
    <2>4. CASE /\ At(j, {"again"})
               /\ run[j].again < MaxAgain
               /\ run' = [run EXCEPT ![j].pc = @ - Here(j).dist, ![j].again = @ + 1]
      <3>1. /\ Running(j) /\ j \in Jobs
            /\ Len(Program[j]) \in Nat
            /\ run[j].pc \in 1..Len(Program[j])
            /\ Here(j).dist \in Nat
            /\ Here(j).op = "again"
        BY <2>4, AtStep
      <3>2. run[j].pc \in DOMAIN Program[j]
        BY <3>1, ConstantTypes
      <3>3. Here(j).dist < run[j].pc
        BY <3>1, <3>2, ConstantTypes DEF WellFormed, Here
      <3>4. run[j].pc - Here(j).dist \in 1..(Len(Program[j]) + 1)
        BY ONLY <3>1, <3>3
      <3>5. run[j] \in RunStates /\ run[j].again \in 0..MaxAgain /\ run[j].stamp \in Stamp
        BY RunType
      <3>6. run[j].again + 1 \in 0..MaxAgain
        BY <2>4, <3>5, ConstantTypes
      <3>7. run' = [run EXCEPT ![j].pc = run[j].pc - Here(j).dist, ![j].stamp = run[j].stamp,
                               ![j].again = run[j].again + 1]
        BY <2>4, <3>5 DEF RunStates, TypeOK, RunsOK
      <3> QED
        BY <1>1, <3>1, <3>4, <3>5, <3>6, <3>7, Moved
    <2>5. CASE At(j, {"jump"}) /\ Goto(j, run[j].pc + Here(j).dist)
      <3>1. At(j, {"branch", "jump"})
        BY <2>5 DEF At
      <3> QED
        BY <2>3, <2>5, <3>1
    <2>6. CASE At(j, {"branch"}) /\ Goto(j, run[j].pc + Here(j).dist)
      <3>1. At(j, {"branch", "jump"})
        BY <2>6 DEF At
      <3> QED
        BY <2>3, <2>6, <3>1
    <2> QED
      BY <2>1, <2>2, <2>4, <2>5, <2>6 DEF Control
  <1> QED
    BY <1>1, <1>2, SameThreads DEF TypeOK

LEMMA WriteType ==
    ASSUME TypeOK, NEW j \in deployed, Write(j)
    PROVE  TypeOK'
  <1>1. RunsOK'
    BY Continued DEF Write
  <1>2. txn' \in [Threads -> States]
    BY DEF Write, TypeOK, States
  <1>3. draft' \in [Tables -> Stamp] /\ emptied' \subseteq Tables
    BY WrittenType, EmptiesType DEF Write, TypeOK
  <1> QED
    BY <1>1, <1>2, <1>3, SameThreads DEF Write, TypeOK

LEMMA WritePartlyType ==
    ASSUME TypeOK, NEW j \in deployed, WritePartly(j)
    PROVE  TypeOK'
  <1>1. RunsOK'
    BY Thrown DEF WritePartly
  <1>2. txn' \in [Threads -> States]
    BY DEF WritePartly, TypeOK, States
  <1>3. draft' \in [Tables -> Stamp]
    BY WrittenType DEF WritePartly, TypeOK
  <1> QED
    BY <1>1, <1>2, <1>3, SameThreads DEF WritePartly, TypeOK

LEMMA TimeOutType ==
    ASSUME TypeOK, NEW j \in deployed, TimeOut(j)
    PROVE  TypeOK'
  <1>1. RunsOK'
    BY Thrown DEF TimeOut
  <1>2. txn' \in [Threads -> States]
    BY BegunType DEF TimeOut
  <1> QED
    BY <1>1, <1>2, SameThreads DEF TimeOut, TypeOK

LEMMA FindStaleType ==
    ASSUME TypeOK, NEW j \in deployed, FindStale(j)
    PROVE  TypeOK'
  <1>1. RunsOK'
    BY Thrown DEF FindStale
  <1> QED
    BY <1>1, SameThreads DEF FindStale, TypeOK

LEMMA ReadRowsType ==
    ASSUME TypeOK, NEW j \in deployed, ReadRows(j)
    PROVE  TypeOK'
  <1>1. UNCHANGED <<deployed, stored, draft, emptied>> /\ At(j, Reads)
    BY DEF ReadRows
  <1>2. Running(j) /\ Len(Program[j]) \in Nat /\ run[j].pc \in 1..Len(Program[j])
    BY <1>1, AtStep
  <1>3. run[j].pc + 1 \in 1..(Len(Program[j]) + 1)
    BY ONLY <1>2
  <1>4. run[j] \in RunStates /\ run[j].again \in 0..MaxAgain /\ run[j].stamp \in Stamp
    BY RunType
  <1>5. PICK stamp \in Stamp : run' = [run EXCEPT ![j].pc = @ + 1, ![j].stamp = stamp]
    BY <1>4, StampsType DEF ReadRows
  <1>6. run' = [run EXCEPT ![j].pc = run[j].pc + 1, ![j].stamp = stamp, ![j].again = run[j].again]
    BY <1>4, <1>5 DEF RunStates, TypeOK, RunsOK
  <1>7. RunsOK'
    BY <1>1, <1>2, <1>3, <1>4, <1>6, Moved
  <1>8. txn' \in [Threads -> States]
    BY DEF ReadRows, TypeOK, States
  <1> QED
    BY <1>1, <1>7, <1>8, SameThreads DEF TypeOK

LEMMA CommitWritesType ==
    ASSUME TypeOK, NEW j \in deployed, CommitWrites(j)
    PROVE  TypeOK'
  <1>1. RunsOK'
    BY Continued DEF CommitWrites
  <1>2. txn' \in [Threads -> States] /\ stored' \in [Tables -> Stamp] /\ emptied' \subseteq Tables
    BY PublishType DEF CommitWrites, TypeOK, States
  <1> QED
    BY <1>1, <1>2, SameThreads DEF CommitWrites, TypeOK

LEMMA IdleType == TypeOK => Idle \in RunStates
  BY ConstantTypes DEF Idle, RunStates, Stamp

LEMMA EndType ==
    ASSUME TypeOK, NEW j \in deployed, End(j)
    PROVE  TypeOK'
  <1>1. run' = [run EXCEPT ![j] = Idle] /\ UNCHANGED <<deployed, stored>>
    BY DEF End
  <1>2. RunsOK'
    BY <1>1, IdleType, SameThreads DEF TypeOK, RunsOK, RunStates, Running
  <1>3. txn' \in [Threads -> States] /\ draft' \in [Tables -> Stamp] /\ emptied' \subseteq Tables
    BY CloseType DEF End
  <1> QED
    BY <1>1, <1>2, <1>3, SameThreads DEF TypeOK

LEMMA RestartType ==
    ASSUME TypeOK, NEW j \in deployed, Restart(j)
    PROVE  TypeOK'
  <1>1. /\ run' = [k \in deployed |-> IF Pool[k] \cap Pool[j] # {} THEN Idle ELSE run[k]]
        /\ UNCHANGED <<deployed, stored>>
    BY DEF Restart
  <1>2. RunsOK'
    BY <1>1, IdleType, SameThreads DEF TypeOK, RunsOK, RunStates, Running
  <1>3. txn' \in [Threads -> States] /\ draft' \in [Tables -> Stamp] /\ emptied' \subseteq Tables
    BY CloseType DEF Restart
  <1> QED
    BY <1>1, <1>2, <1>3, SameThreads DEF TypeOK

LEMMA NextType == TypeOK /\ [Next]_vars => TypeOK'
  <1> SUFFICES ASSUME TypeOK, [Next]_vars PROVE TypeOK'
    OBVIOUS
  <1>1. CASE UNCHANGED vars
    BY <1>1, SameThreads DEF vars, TypeOK, RunsOK, Running
  <1>2. ASSUME NEW j \in deployed, Start(j) \/ Work(j) \/ Restart(j) PROVE TypeOK'
    BY <1>2, StartType, AnswerType, TripType, ControlType, WriteType, WritePartlyType,
       TimeOutType, FindStaleType, ReadRowsType, CommitWritesType, EndType, RestartType DEF Work
  <1> QED
    BY <1>1, <1>2 DEF Next

\* Whatever the jobs and their programs, runs are at a step of their program in
\* a session of their service: no jump or handler leads out of a program.
THEOREM TypeCorrect == Spec => []TypeOK
  BY InitType, NextType, PTL DEF Spec

------------------------------------------------------------------------------
(***************************************************************************)
(* The write lock: one session writes at a time, and when none does the    *)
(* draft is what has been committed.                                       *)
(***************************************************************************)
Writing(s) == txn[s] = "writing"

OneWriter == \A r, s \in Sessions : Writing(r) /\ Writing(s) => r = s

DraftIsTheWriters == (\A s \in Sessions : ~Writing(s)) => draft = stored

LockInv == OneWriter /\ DraftIsTheWriters

\* Steps that let nobody begin or stop writing.
LEMMA SameWriters ==
    ASSUME LockInv, UNCHANGED <<stored, draft>>, Sessions' = Sessions,
           \A s \in Sessions : Writing(s)' <=> Writing(s)
    PROVE  LockInv'
  BY DEF LockInv, OneWriter, DraftIsTheWriters

LEMMA BegunWriters ==
    ASSUME TypeOK, NEW s, txn' = Begun(s)
    PROVE  Sessions' = Sessions /\ \A r \in Sessions : Writing(r)' <=> Writing(r)
  BY DEF TypeOK, Begun, Sessions, Writing

\* A write takes the lock, and nobody else has it.
LEMMA TakeLock ==
    ASSUME TypeOK, LockInv, NEW s \in Sessions, MayWrite(s),
           txn' = [txn EXCEPT ![s] = "writing"]
    PROVE  LockInv'
  <1>1. Sessions' = Sessions
    BY DEF Sessions, TypeOK
  <1>2. \A r \in Sessions \ {s} : ~Writing(r)
    BY DEF MayWrite, Locked, Writing
  <1>3. \A r \in Sessions : Writing(r)' => r = s
    BY <1>2 DEF Sessions, Writing, TypeOK
  <1>4. Writing(s)'
    BY DEF Sessions, Writing, TypeOK
  <1> QED
    BY <1>1, <1>3, <1>4 DEF LockInv, OneWriter, DraftIsTheWriters

\* Closing sessions gives the lock back and the draft up.
LEMMA CloseLock ==
    ASSUME TypeOK, LockInv, NEW closed, closed \subseteq Sessions, CloseAll(closed),
           UNCHANGED stored
    PROVE  LockInv'
  <1>1. Sessions' = Sessions
    BY DEF CloseAll, Sessions, TypeOK
  <1>2. \A s \in Sessions : Writing(s)' <=> s \notin closed /\ Writing(s)
    BY DEF CloseAll, Writing, Sessions
  <1>3. OneWriter'
    BY <1>1, <1>2 DEF LockInv, OneWriter
  <1>4. DraftIsTheWriters'
    <2>1. CASE \E s \in closed : txn[s] = "writing"
      BY <2>1 DEF CloseAll, DraftIsTheWriters
    <2>2. CASE ~\E s \in closed : txn[s] = "writing"
      <3>1. draft' = draft
        BY <2>2 DEF CloseAll
      <3>2. \A s \in Sessions : Writing(s) => Writing(s)'
        BY <1>2, <2>2 DEF Writing
      <3> QED
        BY <1>1, <3>1, <3>2 DEF LockInv, DraftIsTheWriters
    <2> QED
      BY <2>1, <2>2
  <1> QED
    BY <1>3, <1>4 DEF LockInv

LEMMA InitLock == Init => LockInv
  BY DEF Init, LockInv, OneWriter, DraftIsTheWriters, Writing, Sessions

LEMMA PoolThere == ASSUME TypeOK, NEW j \in deployed PROVE Pool[j] \subseteq Sessions
  BY DEF TypeOK, Sessions, Threads

\* The session of a run is one of those there are.
LEMMA SessionThere ==
    ASSUME TypeOK, NEW j \in deployed, Running(j)
    PROVE  Session(j) \in Sessions
  <1>1. run[j].session \in Pool[j]
    BY DEF TypeOK, RunsOK
  <1> QED
    BY <1>1, PoolThere DEF Session

LEMMA CommitLock ==
    ASSUME TypeOK, LockInv, NEW j \in deployed, CommitWrites(j)
    PROVE  LockInv'
  <1>1. draft' = draft /\ Running(j)
    BY DEF CommitWrites, At
  <1>2. Session(j) \in Sessions
    BY <1>1, SessionThere
  <1>3. CASE txn[Session(j)] = "writing"
    <2>1. Publish(Session(j))
      BY <1>3 DEF CommitWrites
    <2>2. Sessions' = Sessions /\ stored' = draft'
      BY <1>1, <2>1 DEF Publish, Sessions, TypeOK
    <2>3. \A s \in Sessions : Writing(s)' => s # Session(j) /\ Writing(s)
      BY <2>1 DEF Publish, Writing, Sessions
    <2>4. \A s \in Sessions : ~Writing(s)'
      BY <1>2, <1>3, <2>3 DEF LockInv, OneWriter, Writing
    <2> QED
      BY <2>2, <2>4 DEF LockInv, OneWriter, DraftIsTheWriters
  <1>4. CASE txn[Session(j)] # "writing"
    <2>1. txn' = [txn EXCEPT ![Session(j)] = "none"] /\ stored' = stored
      BY <1>4 DEF CommitWrites
    <2>2. Sessions' = Sessions
      BY <2>1 DEF Sessions, TypeOK
    <2>3. \A s \in Sessions : Writing(s)' <=> Writing(s)
      BY <1>4, <2>1 DEF Sessions, Writing, TypeOK
    <2> QED
      BY <1>1, <2>1, <2>2, <2>3, SameWriters
  <1> QED
    BY <1>3, <1>4

LEMMA NextLock == TypeOK /\ LockInv /\ [Next]_vars => LockInv'
  <1> SUFFICES ASSUME TypeOK, LockInv, [Next]_vars PROVE LockInv'
    OBVIOUS
  <1>1. CASE UNCHANGED <<txn, stored, draft>>
    BY <1>1, SameWriters DEF Sessions, Writing
  <1>2. ASSUME NEW j \in deployed, Trip(j) PROVE LockInv'
    <2>1. CASE txn' = txn
      BY <1>1, <1>2, <2>1 DEF Trip
    <2>2. CASE txn' = Begun(Session(j))
      BY <1>2, <2>2, BegunWriters, SameWriters DEF Trip
    <2> QED
      BY <1>2, <2>1, <2>2 DEF Trip
  <1>3. ASSUME NEW j \in deployed, Write(j) \/ WritePartly(j) PROVE LockInv'
    <2>1. Session(j) \in Sessions
      BY <1>3, SessionThere DEF Write, WritePartly, At
    <2> QED
      BY <1>3, <2>1, TakeLock DEF Write, WritePartly
  <1>4. ASSUME NEW j \in deployed, TimeOut(j) PROVE LockInv'
    BY <1>4, BegunWriters, SameWriters DEF TimeOut
  <1>5. ASSUME NEW j \in deployed, ReadRows(j) PROVE LockInv'
    <2>1. Sessions' = Sessions /\ \A s \in Sessions : Writing(s)' <=> Writing(s)
      BY <1>5 DEF ReadRows, Sessions, Writing, TypeOK
    <2> QED
      BY <1>5, <2>1, SameWriters DEF ReadRows
  <1>6. ASSUME NEW j \in deployed, End(j) PROVE LockInv'
    <2>1. Session(j) \in Sessions
      BY <1>6, SessionThere DEF End
    <2> QED
      BY <1>6, <2>1, CloseLock DEF End
  <1>7. ASSUME NEW j \in deployed, Restart(j) PROVE LockInv'
    BY <1>7, PoolThere, CloseLock DEF Restart
  <1>8. ASSUME NEW j \in deployed, Start(j) \/ Answer(j) \/ Control(j) \/ FindStale(j)
        PROVE  LockInv'
    BY <1>1, <1>8 DEF Start, Answer, Control, FindStale
  <1>9. CASE UNCHANGED vars
    BY <1>1, <1>9 DEF vars
  <1> QED
    BY <1>2, <1>3, <1>4, <1>5, <1>6, <1>7, <1>8, <1>9, CommitLock DEF Next, Work

\* However the jobs interleave, fail and are restarted, at most one session has
\* the write lock, and without a writer there is nothing uncommitted.
THEOREM OneWriterAtATime == Spec => []LockInv
  <1>1. Init => TypeOK /\ LockInv
    BY InitType, InitLock
  <1>2. TypeOK /\ LockInv /\ [Next]_vars => (TypeOK /\ LockInv)'
    BY NextType, NextLock
  <1> QED
    BY <1>1, <1>2, PTL DEF Spec

------------------------------------------------------------------------------
(***************************************************************************)
(* AtomicSaves: the writer's transaction is the one batch there is.        *)
(***************************************************************************)
TheBatch == [base |-> stored, rows |-> draft]

\* Steps without a write, a commit or a rollback change nothing of it.
LEMMA SameBatches ==
    ASSUME UNCHANGED stored, Sessions' = Sessions,
           \A s \in Sessions : Writing(s)' <=> Writing(s),
           (\E s \in Sessions : Writing(s)) => draft' = draft
    PROVE  UNCHANGED Saves!vars
  <1>1. Writers' = Writers
    BY DEF Writers, Writing
  <1>2. \A s \in Writers : draft' = draft
    BY DEF Writers, Writing
  <1>3. Batches' = Batches
    BY <1>1, <1>2 DEF Batches
  <1> QED
    BY <1>3 DEF Saves!vars

\* What a write makes of the draft is what one statement may make of it.
LEMMA WrittenChanged ==
    ASSUME TypeOK, NEW j \in deployed
    PROVE  Written(j) \in Saves!Changed(draft)
  <1>1. run[j].stamp \in Stamp
    BY RunType
  <1>2. CASE Written(j) = draft
    BY <1>2 DEF Saves!Changed
  <1>3. CASE Here(j).table \in Tables
    <2>1. PICK stamp \in Stamp :
            Written(j) = [draft EXCEPT ![Here(j).table] = stamp] \/ Written(j) = draft
      BY <1>1, <1>3 DEF Written, TypeOK
    <2> QED
      BY <1>3, <2>1 DEF Saves!Changed
  <1> QED
    BY <1>2, <1>3 DEF Written

LEMMA EmptiesChanged ==
    ASSUME TypeOK, NEW j, Empties(j)
    PROVE  draft' \in Saves!Changed(draft)
  <1>1. 0 \in Stamp
    BY ConstantTypes DEF Stamp
  <1>2. PICK table \in Tables : draft' = [draft EXCEPT ![table] = 0]
    BY DEF Empties
  <1>3. \A t \in Tables, stamp \in Stamp : [draft EXCEPT ![t] = stamp] \in Saves!Changed(draft)
    BY DEF Saves!Changed
  <1> QED
    BY <1>1, <1>2, <1>3

\* A write adds to the batch of the session, or begins it with what is stored.
LEMMA SaveBatch ==
    ASSUME TypeOK, LockInv, NEW s \in Sessions, MayWrite(s), UNCHANGED stored,
           txn' = [txn EXCEPT ![s] = "writing"], draft' \in Saves!Changed(draft)
    PROVE  Saves!Save(s)
  <1>1. Sessions' = Sessions
    BY DEF Sessions, TypeOK
  <1>2. Writers \subseteq {s}
    BY DEF Writers, MayWrite, Locked
  <1>3. Writers' = {s}
    BY <1>1, <1>2 DEF Writers, Sessions, TypeOK
  <1>4. DOMAIN Batches = Writers /\ \A r \in Writers : Batches[r] = TheBatch
    BY DEF Batches, TheBatch
  <1>5. Saves!BatchOf(s) = TheBatch
    <2>1. CASE s \in Writers
      BY <1>4, <2>1 DEF Saves!BatchOf
    <2>2. CASE s \notin Writers
      <3>1. draft = stored
        BY <1>2, <2>2 DEF LockInv, DraftIsTheWriters, Writing, Writers
      <3> QED
        BY <1>4, <2>2, <3>1 DEF Saves!BatchOf, TheBatch
    <2> QED
      BY <2>1, <2>2
  <1>6. Batches' = [r \in {s} |-> [base |-> stored, rows |-> draft']]
    BY <1>3 DEF Batches
  <1>7. DOMAIN Batches \cup {s} = {s}
    BY <1>2, <1>4
  <1>8. Batches' = [r \in DOMAIN Batches \cup {s} |->
                     IF r = s THEN [base |-> Saves!BatchOf(s).base, rows |-> draft']
                     ELSE Batches[r]]
    BY <1>5, <1>6, <1>7 DEF TheBatch
  <1>9. draft' \in Saves!Changed(Saves!BatchOf(s).rows)
    BY <1>5 DEF TheBatch
  <1> QED
    BY <1>1, <1>8, <1>9 DEF Saves!Save

\* A commit stores the batch, begun with what is still stored.
LEMMA CommitBatch ==
    ASSUME TypeOK, LockInv, NEW s \in Sessions, txn[s] = "writing", Publish(s),
           UNCHANGED draft
    PROVE  Saves!Commit(s)
  <1>1. Sessions' = Sessions
    BY DEF Publish, Sessions
  <1>2. Writers = {s}
    BY DEF Writers, LockInv, OneWriter, Writing
  <1>3. Writers' = {}
    BY <1>1, <1>2 DEF Writers, Publish, Sessions
  <1>4. DOMAIN Batches = {s} /\ Batches[s] = TheBatch
    BY <1>2 DEF Batches, TheBatch
  <1>5. Batches' = [r \in DOMAIN Batches \ {s} |-> Batches[r]]
    BY <1>3, <1>4 DEF Batches
  <1> QED
    BY <1>1, <1>4, <1>5 DEF Saves!Commit, TheBatch, Publish

\* Closing sessions drops the batch of the writer, if it is one of them.
LEMMA CloseBatch ==
    ASSUME TypeOK, LockInv, NEW closed, closed \subseteq Sessions, CloseAll(closed),
           UNCHANGED stored
    PROVE  [Saves!Next]_(Saves!vars)
  <1>1. Sessions' = Sessions
    BY DEF CloseAll, Sessions
  <1>2. CASE \E s \in closed : txn[s] = "writing"
    <2>1. PICK s \in closed : txn[s] = "writing"
      BY <1>2
    <2>2. Writers = {s}
      BY <2>1 DEF Writers, LockInv, OneWriter, Writing
    <2>3. Writers' = {}
      BY <1>1, <2>1, <2>2 DEF Writers, CloseAll, Sessions
    <2>4. DOMAIN Batches = {s}
      BY <2>2 DEF Batches
    <2>5. Batches' = [r \in DOMAIN Batches \ {s} |-> Batches[r]]
      BY <2>3, <2>4 DEF Batches
    <2>6. Saves!Drop(s)
      BY <1>1, <2>5 DEF Saves!Drop
    <2> QED
      BY <2>1, <2>6 DEF Saves!Next
  <1>3. CASE ~\E s \in closed : txn[s] = "writing"
    <2>1. draft' = draft /\ \A s \in Sessions : Writing(s)' <=> Writing(s)
      BY <1>3 DEF CloseAll, Sessions, Writing
    <2> QED
      BY <1>1, <2>1, SameBatches
  <1> QED
    BY <1>2, <1>3

LEMMA InitBatch == Init => Saves!Init
  <1> SUFFICES ASSUME Init PROVE Saves!Init
    OBVIOUS
  <1>1. Writers = {}
    BY DEF Init, Writers, Sessions
  <1>2. Batches = [s \in {} |-> stored]
    BY <1>1 DEF Batches
  <1> QED
    BY <1>2 DEF Init, Saves!Init

LEMMA NextBatch == TypeOK /\ LockInv /\ [Next]_vars => [Saves!Next]_(Saves!vars)
  <1> SUFFICES ASSUME TypeOK, LockInv, [Next]_vars PROVE [Saves!Next]_(Saves!vars)
    OBVIOUS
  <1>1. CASE UNCHANGED <<txn, stored, draft>>
    BY <1>1, SameBatches DEF Sessions, Writing
  <1>2. ASSUME NEW j \in deployed, Trip(j) PROVE UNCHANGED Saves!vars
    <2>1. CASE txn' = txn
      BY <1>2, <2>1, SameBatches DEF Trip, Sessions, Writing
    <2>2. CASE txn' = Begun(Session(j))
      BY <1>2, <2>2, BegunWriters, SameBatches DEF Trip
    <2> QED
      BY <1>2, <2>1, <2>2 DEF Trip
  <1>3. ASSUME NEW j \in deployed, Write(j) \/ WritePartly(j) PROVE Saves!Next
    <2>1. Session(j) \in Sessions
      BY <1>3, SessionThere DEF Write, WritePartly, At
    <2>2. draft' \in Saves!Changed(draft)
      <3>1. draft \in Saves!Changed(draft)
        BY DEF Saves!Changed
      <3>2. draft' \in {draft, Written(j)} \/ Empties(j)
        BY <1>3 DEF Write, WritePartly
      <3> QED
        BY <3>1, <3>2, WrittenChanged, EmptiesChanged
    <2>3. Saves!Save(Session(j))
      BY <1>3, <2>1, <2>2, SaveBatch DEF Write, WritePartly
    <2> QED
      BY <2>1, <2>3 DEF Saves!Next
  <1>4. ASSUME NEW j \in deployed, TimeOut(j) PROVE UNCHANGED Saves!vars
    BY <1>4, BegunWriters, SameBatches DEF TimeOut
  <1>5. ASSUME NEW j \in deployed, ReadRows(j) PROVE UNCHANGED Saves!vars
    <2>1. Sessions' = Sessions /\ \A s \in Sessions : Writing(s)' <=> Writing(s)
      BY <1>5 DEF ReadRows, Sessions, Writing, TypeOK
    <2> QED
      BY <1>5, <2>1, SameBatches DEF ReadRows
  <1>6. ASSUME NEW j \in deployed, CommitWrites(j) PROVE [Saves!Next]_(Saves!vars)
    <2>1. Session(j) \in Sessions /\ draft' = draft
      BY <1>6, SessionThere DEF CommitWrites, At
    <2>2. CASE txn[Session(j)] = "writing"
      <3>1. Saves!Commit(Session(j))
        BY <1>6, <2>1, <2>2, CommitBatch DEF CommitWrites
      <3> QED
        BY <2>1, <3>1 DEF Saves!Next
    <2>3. CASE txn[Session(j)] # "writing"
      <3>1. txn' = [txn EXCEPT ![Session(j)] = "none"] /\ stored' = stored
        BY <1>6, <2>3 DEF CommitWrites
      <3>2. Sessions' = Sessions /\ \A s \in Sessions : Writing(s)' <=> Writing(s)
        BY <2>3, <3>1 DEF Sessions, Writing, TypeOK
      <3> QED
        BY <2>1, <3>1, <3>2, SameBatches
    <2> QED
      BY <2>2, <2>3
  <1>7. ASSUME NEW j \in deployed, End(j) PROVE [Saves!Next]_(Saves!vars)
    <2>1. Session(j) \in Sessions
      BY <1>7, SessionThere DEF End
    <2> QED
      BY <1>7, <2>1, CloseBatch DEF End
  <1>8. ASSUME NEW j \in deployed, Restart(j) PROVE [Saves!Next]_(Saves!vars)
    BY <1>8, PoolThere, CloseBatch DEF Restart
  <1>9. ASSUME NEW j \in deployed, Start(j) \/ Answer(j) \/ Control(j) \/ FindStale(j)
        PROVE  [Saves!Next]_(Saves!vars)
    BY <1>1, <1>9 DEF Start, Answer, Control, FindStale
  <1>10. CASE UNCHANGED vars
    BY <1>1, <1>10 DEF vars
  <1> QED
    BY <1>2, <1>3, <1>4, <1>5, <1>6, <1>7, <1>8, <1>9, <1>10 DEF Next, Work

\* The sessions of the file implement AtomicSaves: whatever the programs, and
\* however writes fail halfway and processes are killed, what is stored is what
\* one session saved upon what was stored before.
THEOREM SavesStayAtomic == Spec => SavesAreAtomic
  <1>1. Init => TypeOK /\ LockInv /\ Saves!Init
    BY InitType, InitLock, InitBatch
  <1>2. TypeOK /\ LockInv /\ [Next]_vars => (TypeOK /\ LockInv)'
    BY NextType, NextLock
  <1>3. TypeOK /\ LockInv /\ [Next]_vars => [Saves!Next]_(Saves!vars)
    BY NextBatch
  <1> QED
    BY <1>1, <1>2, <1>3, PTL DEF Spec, SavesAreAtomic, Saves!Spec

------------------------------------------------------------------------------
(***************************************************************************)
(* The newest row of a table.                                              *)
(***************************************************************************)
Ahead == \A latest \in DOMAIN Histories : draft[latest] >= stored[latest]

LEMMA ConstantHistories ==
    /\ DOMAIN Histories \subseteq Tables
    /\ \A t \in DOMAIN Histories : Histories[t] \in Tables
  BY StoreAssumption DEF StoreAssumption

LEMMA WrittenAhead ==
    ASSUME TypeOK, NEW j \in deployed, NEW ops, At(j, ops),
           NEW tables \in SUBSET Tables, Grows(Program[j], tables)
    PROVE  \A t \in tables : Written(j)[t] >= draft[t]
  <1>1. \A t \in tables : t \in Tables /\ draft[t] \in Nat
    BY ConstantTypes DEF TypeOK, Stamp
  <1>2. run[j].stamp \in Nat
    BY RunType, ConstantTypes DEF Stamp
  <1>3. j \in Jobs /\ run[j].pc \in 1..Len(Program[j])
    BY AtStep
  <1>4. run[j].pc \in DOMAIN Program[j]
    BY <1>3, ConstantTypes
  <1>5. Here(j).op = "put" => Here(j).table \notin tables
    BY <1>3, <1>4 DEF Grows, Here
  <1> QED
    BY <1>1, <1>2, <1>5 DEF Written, TypeOK

LEMMA AdvanceStep ==
    ASSUME TypeOK, Ahead, Guarded, [Next]_vars
    PROVE  Ahead' /\ \A t \in DOMAIN Histories : stored'[t] >= stored[t]
  <1>1. \A t \in DOMAIN Histories : t \in Tables /\ draft[t] \in Nat /\ stored[t] \in Nat
    BY ConstantTypes, ConstantHistories DEF TypeOK, Stamp
  <1>2. CASE UNCHANGED <<stored, draft>>
    BY <1>1, <1>2 DEF Ahead
  <1>3. ASSUME NEW j \in deployed, Write(j) \/ WritePartly(j)
        PROVE  Ahead' /\ \A t \in DOMAIN Histories : stored'[t] >= stored[t]
    <2>1. (draft' \in {draft, Written(j)} \/ Empties(j)) /\ stored' = stored
      BY <1>3 DEF Write, WritePartly
    <2>2. j \in Jobs /\ run[j].pc \in DOMAIN Program[j]
      <3>1. \E ops : At(j, ops)
        BY <1>3 DEF Write, WritePartly
      <3> QED
        BY <3>1, AtStep, ConstantTypes
    <2>3. Guards(Program[j], DOMAIN Histories)
      BY <2>2 DEF Guarded
    <2>4. \A t \in DOMAIN Histories : Written(j)[t] >= draft[t]
      BY <1>3, <2>3, ConstantHistories, WrittenAhead DEF Write, WritePartly, Guards
    <2>5. \A t \in DOMAIN Histories : Written(j)[t] \in Nat
      BY <1>1, WrittenType, ConstantTypes DEF Stamp
    <2>6. ASSUME Empties(j), NEW t \in DOMAIN Histories PROVE draft'[t] = draft[t]
      <3>1. Here(j).table # t
        BY <2>2, <2>3, <2>6 DEF Guards, Empties, At, Here
      <3> QED
        BY <1>1, <2>6, <3>1 DEF Empties, TypeOK
    <2> QED
      BY <1>1, <2>1, <2>4, <2>5, <2>6 DEF Ahead
  <1>4. ASSUME NEW j \in deployed, CommitWrites(j)
        PROVE  Ahead' /\ \A t \in DOMAIN Histories : stored'[t] >= stored[t]
    <2>1. draft' = draft /\ stored' \in {draft, stored}
      BY <1>4 DEF CommitWrites, Publish
    <2> QED
      BY <1>1, <2>1 DEF Ahead
  <1>5. ASSUME NEW j \in deployed, End(j) \/ Restart(j)
        PROVE  Ahead' /\ \A t \in DOMAIN Histories : stored'[t] >= stored[t]
    <2>1. draft' \in {draft, stored} /\ stored' = stored
      BY <1>5 DEF End, Restart, CloseAll
    <2> QED
      BY <1>1, <2>1 DEF Ahead
  <1>6. ASSUME NEW j \in deployed,
               \/ Start(j) \/ Answer(j) \/ Trip(j) \/ Control(j)
               \/ TimeOut(j) \/ FindStale(j) \/ ReadRows(j)
        PROVE  Ahead' /\ \A t \in DOMAIN Histories : stored'[t] >= stored[t]
    BY <1>2, <1>6 DEF Start, Answer, Trip, Control, TimeOut, FindStale, ReadRows
  <1>7. CASE UNCHANGED vars
    BY <1>2, <1>7 DEF vars
  <1> QED
    BY <1>3, <1>4, <1>5, <1>6, <1>7 DEF Next, Work

LEMMA InitAhead == Init => Ahead
  BY ConstantHistories DEF Init, Ahead

\* If every program guards its latest_* upsert by the time of the row, and drops
\* no rows there, the row others see never goes back in time: whatever the jobs,
\* their number, the order of their answers, failures and restarts.
THEOREM LatestAdvances == Guarded => (Spec => LatestOnlyAdvances)
  <1> SUFFICES ASSUME Guarded PROVE Spec => LatestOnlyAdvances
    OBVIOUS
  <1>1. Init => TypeOK /\ Ahead
    BY InitType, InitAhead
  <1>2. TypeOK /\ Ahead /\ [Next]_vars => (TypeOK /\ Ahead)'
    BY NextType, AdvanceStep
  <1>3. TypeOK /\ Ahead /\ [Next]_vars =>
          [\A latest \in DOMAIN Histories : stored'[latest] >= stored[latest]]_vars
    BY AdvanceStep
  <1> QED
    BY <1>1, <1>2, <1>3, PTL DEF Spec, LatestOnlyAdvances
------------------------------------------------------------------------------
(***************************************************************************)
(* What a step of a run does to it and to the transaction of its session,  *)
(* and that it leaves the other runs and sessions alone.                   *)
(***************************************************************************)
Step(j) ==
    \/ Answer(j) \/ Trip(j) \/ Control(j)
    \/ Write(j) \/ WritePartly(j) \/ TimeOut(j) \/ FindStale(j)
    \/ ReadRows(j) \/ CommitWrites(j)

Place(j) == run[j].pc

Succeeds(j) ==
    /\ run'[j].pc \in Normally(Program[j], Place(j))
    /\ run'[j].clean = run[j].clean
    /\ LET op == Here(j).op
           s == Session(j)
       IN \/ op \in Writes /\ txn'[s] = "writing" /\ txn[s] # "stale"
          \/ op = "commit" /\ txn'[s] = "none"
          \/ op \in Reads /\ txn'[s] = IF txn[s] = "begun" THEN "reading" ELSE txn[s]
          \/ op \notin Writes \cup Reads \cup {"commit"} /\ txn'[s] = txn[s]

Fails(j) ==
    /\ run'[j].pc = Handler(Program[j], Place(j))
    /\ ~run'[j].clean
    /\ LET op == Here(j).op
           s == Session(j)
       IN \/ op \in Refusable /\ txn'[s] = "writing" /\ txn[s] # "stale"
          \/ op \in Failing /\ txn'[s] = txn[s]
          \/ op \in Writes /\ txn[s] # "writing" /\ txn'[s] = txn[s]
          \/ op \in Writes /\ txn[s] = "none" /\ txn'[s] = "begun"

\* The other runs do not move, and at most lose their snapshots.
OthersStay(j) ==
    /\ \A k \in deployed : k # j => run'[k] = run[k]
    /\ \A r \in Sessions \ {Session(j)} :
        txn'[r] = txn[r] \/ (txn[r] = "reading" /\ txn'[r] = "stale")

LEMMA Ops == Refusable \subseteq Failing /\ Refusable \subseteq Writes /\ Reads \subseteq Failing
  BY DEF Refusable, Failing, Writes, Reads

LEMMA ThrowFails ==
    ASSUME TypeOK, NEW j \in deployed, Throw(j)
    PROVE  /\ run'[j].pc = Handler(Program[j], Place(j))
           /\ ~run'[j].clean
           /\ run'[j].session = run[j].session
           /\ run'[j].stamp = run[j].stamp
           /\ \A k \in deployed : k # j => run'[k] = run[k]
  BY DEF Throw, Handler, PlaceAfter, Place, Here, TypeOK, RunsOK

LEMMA GotoGoes ==
    ASSUME TypeOK, NEW j \in deployed, NEW pc, Goto(j, pc)
    PROVE  /\ run'[j].pc = pc
           /\ run'[j].clean = run[j].clean
           /\ run'[j].session = run[j].session
           /\ run'[j].stamp = run[j].stamp
           /\ \A k \in deployed : k # j => run'[k] = run[k]
  BY DEF Goto, TypeOK, RunsOK

LEMMA StepStays ==
    ASSUME TypeOK, NEW j \in deployed, Step(j)
    PROVE  /\ deployed' = deployed
           /\ Running(j)
           /\ Sessions' = Sessions
           /\ Session(j)' = Session(j)
           /\ Session(j) \in Sessions
  <1>1. deployed' = deployed /\ Running(j)
    BY DEF Step, Answer, Trip, Control, Write, WritePartly, TimeOut, FindStale, ReadRows,
           CommitWrites, At
  <1>2. Session(j) \in Sessions
    BY <1>1, SessionThere
  <1>3. Sessions' = Sessions
    BY DEF Step, Answer, Trip, Control, Write, WritePartly, TimeOut, FindStale, ReadRows,
           CommitWrites, Publish, Begun, Sessions, TypeOK
  <1>4. run'[j].session = run[j].session
    <2>1. CASE \E pc : Goto(j, pc)
      BY <2>1, GotoGoes
    <2>2. CASE Throw(j)
      BY <2>2, ThrowFails
    <2>3. CASE Answer(j) \/ ReadRows(j)
      BY <2>3 DEF Answer, ReadRows, TypeOK, RunsOK
    <2>4. CASE run' = [run EXCEPT ![j].pc = @ - Here(j).dist, ![j].again = @ + 1]
      BY <2>4 DEF TypeOK, RunsOK
    <2> QED
      BY <2>1, <2>2, <2>3, <2>4
      DEF Step, Trip, Control, Write, WritePartly, TimeOut, FindStale, CommitWrites, Continue
  <1> QED
    BY <1>1, <1>2, <1>3, <1>4 DEF Session

LEMMA ContinueSucceeds ==
    ASSUME TypeOK, NEW j \in deployed, Continue(j), Here(j).op \notin {"jump", "raise"}
    PROVE  /\ run'[j].pc \in Normally(Program[j], Place(j))
           /\ run'[j].clean = run[j].clean
           /\ \A k \in deployed : k # j => run'[k] = run[k]
  BY GotoGoes DEF Continue, Normally, Place, Here

LEMMA StepCases ==
    ASSUME TypeOK, LockInv, NEW j \in deployed, Step(j)
    PROVE  (Succeeds(j) \/ Fails(j)) /\ OthersStay(j)
  <1> USE DEF Failing, Refusable, Writes, Reads
  <1>0. Session(j) \in Sessions /\ Sessions = DOMAIN txn
    BY StepStays DEF Sessions
  <1>1. CASE Answer(j) \/ ReadRows(j)
    <2>1. PICK stamp : run' = [run EXCEPT ![j].pc = @ + 1, ![j].stamp = stamp]
      BY <1>1 DEF Answer, ReadRows
    <2>2. Here(j).op \in {"fetch"} \cup Reads
      BY <1>1 DEF Answer, ReadRows, At, Here
    <2>3. /\ run'[j].pc \in Normally(Program[j], Place(j))
          /\ run'[j].clean = run[j].clean
          /\ \A k \in deployed : k # j => run'[k] = run[k]
      BY <2>1, <2>2 DEF Normally, Place, Here, TypeOK, RunsOK
    <2>4. CASE Answer(j)
      <3>1. Here(j).op = "fetch" /\ txn' = txn
        BY <2>4 DEF Answer, At, Here
      <3> QED
        BY <2>3, <3>1 DEF Succeeds, OthersStay
    <2>5. CASE ReadRows(j)
      <3>1. /\ Here(j).op \in Reads
            /\ txn' = [txn EXCEPT ![Session(j)] = IF @ = "begun" THEN "reading" ELSE @]
        BY <2>5 DEF ReadRows, At, Here
      <3> QED
        BY <1>0, <2>3, <3>1 DEF Succeeds, OthersStay
    <2> QED
      BY <1>1, <2>4, <2>5
  <1>2. CASE Trip(j)
    <2>1. /\ run'[j].pc = Handler(Program[j], Place(j))
          /\ ~run'[j].clean
          /\ \A k \in deployed : k # j => run'[k] = run[k]
      BY <1>2, ThrowFails DEF Trip
    <2>2. CASE At(j, Failing) /\ txn' = txn
      <3>1. Here(j).op \in Failing
        BY <2>2 DEF At, Here
      <3> QED
        BY <2>1, <2>2, <3>1 DEF Fails, OthersStay
    <2>3. CASE At(j, Refusable) /\ txn' = Begun(Session(j))
      <3>1. Here(j).op \in Refusable
        BY <2>3 DEF At, Here
      <3>2. txn'[Session(j)] = IF txn[Session(j)] = "none" THEN "begun" ELSE txn[Session(j)]
        BY <1>0, <2>3 DEF Begun
      <3>3. \A r \in Sessions \ {Session(j)} : txn'[r] = txn[r]
        BY <1>0, <2>3 DEF Begun
      <3> QED
        BY <2>1, <3>1, <3>2, <3>3 DEF Fails, OthersStay
    <2> QED
      BY <1>2, <2>2, <2>3 DEF Trip
  <1>3. CASE Control(j)
    <2>1. txn' = txn
      BY <1>3 DEF Control
    <2>2. /\ Here(j).op \in {"branch", "jump", "again"}
          /\ run'[j].pc \in Normally(Program[j], Place(j))
          /\ run'[j].clean = run[j].clean
          /\ \A k \in deployed : k # j => run'[k] = run[k]
      <3>1. CASE At(j, {"branch", "again"}) /\ Continue(j)
        BY <3>1, ContinueSucceeds DEF At, Here
      <3>2. CASE At(j, {"branch", "jump"}) /\ Goto(j, run[j].pc + Here(j).dist)
        BY <3>2, GotoGoes DEF At, Here, Normally, Place
      <3>3. CASE At(j, {"again"})
                 /\ run' = [run EXCEPT ![j].pc = @ - Here(j).dist, ![j].again = @ + 1]
        BY <3>3 DEF At, Here, Normally, Place, TypeOK, RunsOK
      <3> QED
        BY <1>3, <3>1, <3>2, <3>3 DEF Control, At
    <2> QED
      BY <2>1, <2>2 DEF Succeeds, OthersStay
  <1>4. CASE Write(j)
    <2>1. Here(j).op \in Writes /\ txn[Session(j)] # "stale"
      BY <1>4 DEF Write, At, Here, MayWrite
    <2>2. /\ run'[j].pc \in Normally(Program[j], Place(j))
          /\ run'[j].clean = run[j].clean
          /\ \A k \in deployed : k # j => run'[k] = run[k]
      BY <1>4, <2>1, ContinueSucceeds DEF Write
    <2>3. txn' = [txn EXCEPT ![Session(j)] = "writing"]
      BY <1>4 DEF Write
    <2> QED
      BY <1>0, <2>1, <2>2, <2>3 DEF Succeeds, OthersStay
  <1>5. CASE WritePartly(j)
    <2>1. Here(j).op \in Refusable /\ txn[Session(j)] # "stale"
      BY <1>5 DEF WritePartly, At, Here, MayWrite
    <2>2. txn' = [txn EXCEPT ![Session(j)] = "writing"]
      BY <1>5 DEF WritePartly
    <2> QED
      BY <1>0, <1>5, <2>1, <2>2, ThrowFails DEF WritePartly, Fails, OthersStay
  <1>6. CASE TimeOut(j)
    <2>1. Here(j).op \in Writes
      BY <1>6 DEF TimeOut, At, Here
    <2>2. txn[Session(j)] # "writing"
      BY <1>0, <1>6 DEF TimeOut, Locked, LockInv, OneWriter, Writing
    <2>3. /\ txn'[Session(j)] = IF txn[Session(j)] = "none" THEN "begun" ELSE txn[Session(j)]
          /\ \A r \in Sessions \ {Session(j)} : txn'[r] = txn[r]
      BY <1>0, <1>6 DEF TimeOut, Begun
    <2> QED
      BY <1>6, <2>1, <2>2, <2>3, ThrowFails DEF TimeOut, Fails, OthersStay
  <1>7. CASE FindStale(j)
    <2>1. Here(j).op \in Writes /\ txn[Session(j)] # "writing" /\ txn' = txn
      BY <1>7 DEF FindStale, At, Here
    <2> QED
      BY <1>7, <2>1, ThrowFails DEF FindStale, Fails, OthersStay
  <1>8. CASE CommitWrites(j)
    <2>1. Here(j).op = "commit"
      BY <1>8 DEF CommitWrites, At, Here
    <2>2. /\ run'[j].pc \in Normally(Program[j], Place(j))
          /\ run'[j].clean = run[j].clean
          /\ \A k \in deployed : k # j => run'[k] = run[k]
      BY <1>8, <2>1, ContinueSucceeds DEF CommitWrites
    <2>3. /\ txn'[Session(j)] = "none"
          /\ \A r \in Sessions \ {Session(j)} :
                txn'[r] = txn[r] \/ (txn[r] = "reading" /\ txn'[r] = "stale")
      BY <1>0, <1>8 DEF CommitWrites, Publish
    <2> QED
      BY <2>1, <2>2, <2>3 DEF Succeeds, OthersStay
  <1> QED
    BY <1>1, <1>2, <1>3, <1>4, <1>5, <1>6, <1>7, <1>8 DEF Step

------------------------------------------------------------------------------
(***************************************************************************)
(* The history of a latest_* table.                                        *)
(***************************************************************************)
HistoriesFirst == \A j \in Jobs : HistoryFirst(Program[j], Histories)

\* A run about to save a row of a latest_* table.
Saving(j) == At(j, Writes \ {"delete", "revise"}) /\ Here(j).table \in DOMAIN Histories

HistoryOf(j) == Histories[Here(j).table]

\* No two runs share a session.
Exclusive ==
    \A j, k \in deployed : Running(j) /\ Running(k) /\ Session(j) = Session(k) => j = k

\* Who is about to save a latest row has the lock and has saved the history.
SavingInv ==
    \A j \in deployed :
        Saving(j) => Writing(Session(j)) /\ draft[HistoryOf(j)] >= run[j].stamp

\* What a transaction has made of them is good to be committed.
CoveredBy(history, latest) ==
    /\ draft[history] >= stored[history]
    /\ draft[latest] > stored[latest] => draft[history] >= draft[latest]

CoveredInv ==
    \A latest \in DOMAIN Histories :
        Histories[latest] \notin emptied => CoveredBy(Histories[latest], latest)

HistoryInv == SavingInv /\ CoveredInv

\* The runs that end, and those that go on.
Survive(closed) ==
    \A k \in deployed : \/ run'[k] = Idle
                        \/ run'[k] = run[k] /\ (Running(k) => Session(k) \notin closed)

LEMMA EndSurvives ==
    ASSUME TypeOK, Exclusive, NEW j \in deployed, End(j)
    PROVE  \E closed \in SUBSET Sessions : CloseAll(closed) /\ Survive(closed)
  <1> DEFINE closed == IF j \in Fresh THEN {Session(j)} ELSE {}
  <1>1. run' = [run EXCEPT ![j] = Idle] /\ CloseAll(closed) /\ Running(j)
    BY DEF End
  <1>2. closed \subseteq Sessions
    BY <1>1, SessionThere
  <1>3. Survive(closed)
    BY <1>1 DEF TypeOK, RunsOK, Exclusive, Survive
  <1> QED
    BY <1>1, <1>2, <1>3

LEMMA RestartSurvives ==
    ASSUME TypeOK, NEW j \in deployed, Restart(j)
    PROVE  \E closed \in SUBSET Sessions : CloseAll(closed) /\ Survive(closed)
  <1>1. /\ run' = [k \in deployed |-> IF Pool[k] \cap Pool[j] # {} THEN Idle ELSE run[k]]
        /\ CloseAll(Pool[j])
    BY DEF Restart
  <1>2. \A k \in deployed : Running(k) => Session(k) \in Pool[k]
    BY DEF TypeOK, RunsOK, Session
  <1>3. Survive(Pool[j])
    BY <1>1, <1>2 DEF Survive
  <1> QED
    BY <1>1, <1>3, PoolThere

LEMMA InitExclusive == Init => Exclusive
  BY DEF Init, Exclusive, Running

LEMMA NextExclusive == TypeOK /\ Exclusive /\ LockInv /\ [Next]_vars => Exclusive'
  <1> SUFFICES ASSUME TypeOK, Exclusive, LockInv, [Next]_vars PROVE Exclusive'
    OBVIOUS
  <1>1. CASE UNCHANGED vars
    BY <1>1 DEF vars, Exclusive, Running, Session
  <1>2. ASSUME NEW j \in deployed, Step(j) PROVE Exclusive'
    <2>1. /\ deployed' = deployed
          /\ Running(j)
          /\ Session(j)' = Session(j)
          /\ \A k \in deployed : k # j => run'[k] = run[k]
      BY <1>2, StepStays, StepCases DEF OthersStay
    <2> QED
      BY <2>1 DEF Exclusive, Running, Session
  <1>3. ASSUME NEW j \in deployed, Start(j) PROVE Exclusive'
    <2>1. PICK s \in Pool[j] : ~Busy(s) /\ run' = [run EXCEPT ![j] = Begin(s)]
      BY <1>3 DEF Start
    <2>2. run'[j].session = s /\ \A k \in deployed : k # j => run'[k] = run[k]
      BY <2>1 DEF Begin, TypeOK, RunsOK
    <2> QED
      BY <1>3, <2>1, <2>2 DEF Start, Exclusive, Running, Session, Busy
  <1>4. ASSUME NEW j \in deployed, End(j) \/ Restart(j) PROVE Exclusive'
    <2>1. PICK closed : Survive(closed)
      BY <1>4, EndSurvives, RestartSurvives
    <2> QED
      BY <1>4, <2>1 DEF End, Restart, Survive, Exclusive, Running, Session
  <1> QED
    BY <1>1, <1>2, <1>3, <1>4 DEF Next, Work, Step

\* Types, the lock and the sessions of runs, which all that follows needs.
Ground == TypeOK /\ LockInv /\ Exclusive

LEMMA InitGround == Init => Ground
  BY InitType, InitLock, InitExclusive DEF Ground

LEMMA NextGround == Ground /\ [Next]_vars => Ground'
  BY NextType, NextLock, NextExclusive DEF Ground

LEMMA StepPlace ==
    ASSUME Ground, [Next]_vars, NEW j \in deployed, Step(j)
    PROVE  /\ TypeOK'
           /\ j \in Jobs
           /\ Place(j) \in DOMAIN Program[j]
           /\ Place(j) \in 1..Len(Program[j])
           /\ Here(j) = Program[j][Place(j)]
           /\ run'[j].session = run[j].session
           /\ run'[j].pc \in Nat
  <1>1. TypeOK'
    BY NextType DEF Ground
  <1>2. \E ops : At(j, ops)
    BY DEF Step, Answer, Trip, Control, Write, WritePartly, TimeOut, FindStale, ReadRows,
           CommitWrites
  <1>3. j \in Jobs /\ Place(j) \in 1..Len(Program[j])
    BY <1>2, AtStep DEF Ground, Place
  <1>4. Place(j) \in DOMAIN Program[j]
    BY <1>3, ConstantTypes
  <1>5. run'[j].session = run[j].session /\ deployed' = deployed
    BY StepStays DEF Ground, Session
  <1> QED
    BY <1>1, <1>3, <1>4, <1>5 DEF Here, Place, TypeOK, RunsOK

\* Only an insert into the history leads to the save of a latest row.
LEMMA Arrives ==
    ASSUME Ground, HistoriesFirst, [Next]_vars, NEW j \in deployed, Step(j), Saving(j)'
    PROVE  /\ Succeeds(j)
           /\ run'[j].pc # Handler(Program[j], Place(j))
           /\ Here(j).op = "insert"
           /\ Here(j).table = HistoryOf(j)'
  <1>1. /\ j \in Jobs /\ TypeOK' /\ deployed' = deployed
        /\ Place(j) \in DOMAIN Program[j]
        /\ Here(j) = Program[j][Place(j)]
        /\ run'[j].pc \in Nat
    BY StepPlace, StepStays DEF Ground
  <1> DEFINE i == run'[j].pc
  <1>2. /\ i \in DOMAIN Program[j]
        /\ Program[j][i].op \in Writes \ {"delete", "revise"}
        /\ Program[j][i].table \in DOMAIN Histories
        /\ HistoryOf(j)' = Histories[Program[j][i].table]
    <2>1. (run'[j].session \in Pool[j] /\ i \in 1..(Len(Program[j]) + 1)) /\ i # Len(Program[j]) + 1
      BY <1>1 DEF Saving, At, Over, Running, TypeOK, RunsOK
    <2>2. Len(Program[j]) \in Nat
      BY <1>1, ConstantTypes
    <2>3. i \in 1..Len(Program[j])
      BY ONLY <2>1, <2>2
    <2>4. i \in DOMAIN Program[j]
      BY <1>1, <2>3, ConstantTypes
    <2> QED
      BY <2>4 DEF Saving, At, Here, HistoryOf
  <1>3. /\ i # Handler(Program[j], Place(j))
        /\ i \in Normally(Program[j], Place(j)) =>
            /\ Program[j][Place(j)].op = "insert"
            /\ Program[j][Place(j)].table = Histories[Program[j][i].table]
    <2>1. HistoryFirst(Program[j], Histories)
      BY <1>1 DEF HistoriesFirst
    <2> HIDE DEF i
    <2> QED
      BY <1>1, <1>2, <2>1 DEF HistoryFirst
  <1>4. Succeeds(j)
    BY <1>3, StepCases DEF Fails, Ground
  <1> QED
    BY <1>1, <1>2, <1>3, <1>4 DEF Succeeds

LEMMA StepSaving ==
    ASSUME Ground, SavingInv, HistoriesFirst, [Next]_vars, NEW j \in deployed, Step(j)
    PROVE  SavingInv'
  <1>1. /\ deployed' = deployed /\ Running(j)
        /\ Session(j)' = Session(j) /\ Session(j) \in Sessions
    BY StepStays DEF Ground
  <1> SUFFICES ASSUME NEW k \in deployed, Saving(k)'
               PROVE  Writing(Session(k))' /\ draft'[HistoryOf(k)'] >= run'[k].stamp
    BY <1>1 DEF SavingInv
  <1>2. CASE k = j
    <2>1. /\ Here(j).op = "insert"
          /\ Here(j).table = HistoryOf(j)'
          /\ run'[j].pc # Handler(Program[j], Place(j))
      BY <1>2, Arrives
    <2>2. Write(j)
      <3>1. ~Throw(j)
        BY <2>1, ThrowFails DEF Ground
      <3> QED
        BY <2>1, <3>1 DEF Step, Answer, Trip, Control, WritePartly, TimeOut, FindStale,
                          ReadRows, CommitWrites, At, Here, Reads
    <2>3. txn'[Session(j)] = "writing" /\ draft' = Written(j) /\ run'[j].stamp = run[j].stamp
      <3>1. ~Empties(j)
        BY <2>1 DEF Empties, At, Here
      <3> QED
        BY <1>1, <2>2, <3>1, GotoGoes DEF Write, Continue, Ground, Sessions
    <2> DEFINE t == Here(j).table
    <2>4. t \in Tables /\ draft \in [Tables -> Stamp]
      BY <1>2, <2>1, ConstantHistories DEF Saving, HistoryOf, Ground, TypeOK
    <2>5. run[j].stamp \in Nat /\ draft[t] \in Nat
      BY <2>4, RunType, ConstantTypes DEF Stamp, Ground
    <2>6. Written(j) = [draft EXCEPT ![t] = IF run[j].stamp > @ THEN run[j].stamp ELSE @]
      BY <2>1, <2>4 DEF Written
    <2>7. Written(j)[t] = IF run[j].stamp > draft[t] THEN run[j].stamp ELSE draft[t]
      BY <2>4, <2>6
    <2>8. Written(j)[t] >= run[j].stamp
      BY ONLY <2>5, <2>7
    <2> QED
      BY <1>1, <1>2, <2>1, <2>3, <2>8 DEF Writing
  <1>3. CASE k # j
    <2>1. run'[k] = run[k]
      BY <1>3, StepCases DEF Ground, OthersStay
    <2>2. /\ Saving(k) /\ Running(k)
          /\ Session(k)' = Session(k)
          /\ HistoryOf(k)' = HistoryOf(k)
      BY <2>1 DEF Saving, At, Running, Over, Here, Session, HistoryOf
    <2>3. Writing(Session(k)) /\ draft[HistoryOf(k)] >= run[k].stamp
      BY <2>2 DEF SavingInv
    <2>4. Session(k) # Session(j) /\ Session(k) \in Sessions
      BY <1>1, <1>3, <2>2, SessionThere DEF Ground, Exclusive
    <2>5. txn'[Session(k)] = "writing"
      BY <2>3, <2>4, StepCases DEF Ground, OthersStay, Writing
    <2>6. Locked(Session(j))
      BY <2>3, <2>4 DEF Locked, Writing
    <2>7. draft' = draft
      BY <2>6 DEF Step, Answer, Trip, Control, Write, WritePartly, TimeOut, FindStale, ReadRows,
                  CommitWrites, MayWrite
    <2> QED
      BY <2>1, <2>2, <2>3, <2>5, <2>7 DEF Writing
  <1> QED
    BY <1>2, <1>3

\* A write keeps the draft covered.
LEMMA WrittenCovered ==
    ASSUME TypeOK, SavingInv, Growing, NEW j \in deployed, At(j, Writes),
           NEW latest \in DOMAIN Histories, CoveredBy(Histories[latest], latest),
           UNCHANGED stored, draft' \in {draft, Written(j)}
    PROVE  CoveredBy(Histories[latest], latest)'
  <1> DEFINE history == Histories[latest]
  <1>1. latest \in Tables /\ history \in Tables
    BY ConstantHistories
  <1>2. /\ stored[latest] \in Nat /\ stored[history] \in Nat
        /\ draft[latest] \in Nat /\ draft[history] \in Nat
        /\ Written(j)[history] \in Nat /\ Written(j)[latest] \in Nat
        /\ run[j].stamp \in Nat
    BY <1>1, WrittenType, RunType, ConstantTypes DEF TypeOK, Stamp
  <1>3. j \in Jobs /\ run[j].pc \in 1..Len(Program[j]) /\ Here(j).op \in Writes
    BY AtStep
  <1>4. Written(j)[history] >= draft[history]
    <2>1. Grows(Program[j], {history})
      BY <1>3 DEF Growing, Grows
    <2> QED
      BY <1>1, <2>1, WrittenAhead
  <1>5. CASE Written(j)[latest] = draft[latest]
    BY <1>2, <1>4, <1>5 DEF CoveredBy
  <1>6. CASE Written(j)[latest] # draft[latest]
    <2>1. Here(j).table = latest /\ Here(j).op \notin {"delete", "revise"}
      BY <1>1, <1>6 DEF Written, TypeOK
    <2>2. Written(j)[latest] = run[j].stamp
      BY <1>1, <1>6, <2>1 DEF Written, TypeOK
    <2>3. Saving(j) /\ HistoryOf(j) = history
      BY <1>3, <2>1 DEF Saving, At, Here, HistoryOf
    <2>4. draft[history] >= run[j].stamp
      BY <2>3 DEF SavingInv
    <2> HIDE DEF history
    <2>5. Written(j)[history] >= Written(j)[latest]
      BY ONLY <1>2, <1>4, <2>2, <2>4
    <2> QED
      BY <1>2, <1>4, <2>5 DEF CoveredBy, history
  <1> QED
    BY <1>5, <1>6

\* A delete excuses the table it empties, and covers no latest row less.
LEMMA EmptiesCovered ==
    ASSUME TypeOK, CoveredInv, NEW j \in deployed, Empties(j), UNCHANGED stored
    PROVE  CoveredInv'
  <1> SUFFICES ASSUME NEW latest \in DOMAIN Histories, Histories[latest] \notin emptied'
               PROVE  CoveredBy(Histories[latest], latest)'
    BY DEF CoveredInv
  <1> DEFINE history == Histories[latest]
  <1>1. latest \in Tables /\ history \in Tables
    BY ConstantHistories
  <1>2. CoveredBy(history, latest) /\ history # Here(j).table
    BY DEF Empties, CoveredInv
  <1>3. draft'[history] = draft[history] /\ draft'[latest] \in {0, draft[latest]}
    BY <1>1, <1>2 DEF Empties, TypeOK
  <1>4. stored[latest] \in Nat
    BY <1>1, ConstantTypes DEF TypeOK, Stamp
  <1> QED
    BY <1>2, <1>3, <1>4 DEF CoveredBy

\* Nothing is to be covered once the draft is what is stored.
LEMMA NothingToCover ==
    ASSUME TypeOK', draft' = stored'
    PROVE  CoveredInv'
  <1>1. \A latest \in DOMAIN Histories :
          stored'[latest] \in Nat /\ stored'[Histories[latest]] \in Nat
    BY ConstantHistories, ConstantTypes DEF TypeOK, Stamp
  <1> QED
    BY <1>1 DEF CoveredInv, CoveredBy

LEMMA StepHistory ==
    ASSUME Ground, HistoryInv, Growing, HistoriesFirst, [Next]_vars, NEW j \in deployed, Step(j)
    PROVE  HistoryInv'
  <1>1. SavingInv' /\ TypeOK'
    BY StepSaving, NextType DEF HistoryInv, Ground
  <1>2. CASE Write(j) \/ WritePartly(j)
    <2>1. At(j, Writes) /\ UNCHANGED stored
      BY <1>2, Ops DEF Write, WritePartly, At
    <2>2. CASE Empties(j)
      BY <1>1, <2>1, <2>2, EmptiesCovered DEF HistoryInv, Ground
    <2>3. CASE draft' \in {draft, Written(j)} /\ UNCHANGED emptied
      BY <1>1, <2>1, <2>3, WrittenCovered DEF HistoryInv, CoveredInv, Ground
    <2> QED
      BY <1>2, <2>2, <2>3 DEF Write, WritePartly
  <1>3. CASE CommitWrites(j)
    <2>1. CASE stored' = draft'
      BY <1>1, <2>1, NothingToCover DEF HistoryInv
    <2>2. CASE UNCHANGED <<stored, draft, emptied>>
      BY <1>1, <2>2 DEF HistoryInv, CoveredInv, CoveredBy
    <2> QED
      BY <1>3, <2>1, <2>2 DEF CommitWrites, Publish
  <1>4. CASE UNCHANGED <<stored, draft, emptied>>
    BY <1>1, <1>4 DEF HistoryInv, CoveredInv, CoveredBy
  <1> QED
    BY <1>2, <1>3, <1>4
    DEF Step, Answer, Trip, Control, TimeOut, FindStale, ReadRows

\* Sessions that are closed are not those of runs that go on.
LEMMA CloseHistory ==
    ASSUME Ground, HistoryInv, NEW closed \in SUBSET Sessions, CloseAll(closed), Survive(closed),
           deployed' = deployed, stored' = stored, TypeOK'
    PROVE  HistoryInv'
  <1>1. SavingInv'
    <2> SUFFICES ASSUME NEW k \in deployed, Saving(k)'
                 PROVE  Writing(Session(k))' /\ draft'[HistoryOf(k)'] >= run'[k].stamp
      BY DEF SavingInv
    <2>1. run'[k] # Idle
      BY DEF Saving, At, Running
    <2>2. run'[k] = run[k] /\ (Running(k) => Session(k) \notin closed)
      BY <2>1 DEF Survive
    <2>3. /\ Saving(k) /\ Running(k)
          /\ Session(k)' = Session(k)
          /\ HistoryOf(k)' = HistoryOf(k)
      BY <2>2 DEF Saving, At, Running, Over, Here, Session, HistoryOf
    <2>4. Writing(Session(k)) /\ draft[HistoryOf(k)] >= run[k].stamp
      BY <2>3 DEF HistoryInv, SavingInv
    <2>5. Session(k) \in Sessions /\ Session(k) \notin closed
      BY <2>2, <2>3, SessionThere DEF Ground
    <2>6. txn'[Session(k)] = "writing"
      BY <2>4, <2>5 DEF CloseAll, Writing
    <2>7. draft' = draft
      BY <2>4, <2>5 DEF CloseAll, Ground, LockInv, OneWriter, Writing
    <2> QED
      BY <2>2, <2>3, <2>4, <2>6, <2>7 DEF Writing
  <1>2. CASE UNCHANGED <<draft, emptied>>
    BY <1>1, <1>2 DEF HistoryInv, CoveredInv, CoveredBy
  <1>3. CASE draft' = stored
    BY <1>1, <1>3, NothingToCover DEF HistoryInv
  <1> QED
    BY <1>2, <1>3 DEF CloseAll

LEMMA StartHistory ==
    ASSUME Ground, HistoryInv, HistoriesFirst, NEW j \in deployed, Start(j)
    PROVE  HistoryInv'
  <1>1. PICK s \in Pool[j] : run' = [run EXCEPT ![j] = Begin(s)]
    BY DEF Start
  <1>2. UNCHANGED <<deployed, txn, stored, draft, emptied>>
    BY DEF Start
  <1>3. run'[j].pc = 1 /\ \A k \in deployed : k # j => run'[k] = run[k]
    BY <1>1 DEF Begin, Ground, TypeOK, RunsOK
  <1>4. SavingInv'
    <2> SUFFICES ASSUME NEW k \in deployed, Saving(k)'
                 PROVE  Writing(Session(k))' /\ draft'[HistoryOf(k)'] >= run'[k].stamp
      BY <1>2 DEF SavingInv
    <2>1. CASE k = j
      <3>1. j \in Jobs /\ Len(Program[j]) \in Nat
        BY ConstantTypes DEF Ground, TypeOK
      <3>2. 1 # Len(Program[j]) + 1
        BY <1>3, <2>1 DEF Saving, At, Over
      <3>3. 1 \in 1..Len(Program[j])
        BY ONLY <3>1, <3>2
      <3>4. 1 \in DOMAIN Program[j]
        BY <3>1, <3>3, ConstantTypes
      <3>5. /\ Program[j][1].op \in Writes \ {"delete", "revise"}
            /\ Program[j][1].table \in DOMAIN Histories
        BY <1>3, <2>1 DEF Saving, At, Here
      <3> QED
        BY <3>1, <3>4, <3>5 DEF HistoriesFirst, HistoryFirst
    <2>2. CASE k # j
      <3>1. run'[k] = run[k]
        BY <1>3, <2>2
      <3>2. Saving(k) /\ Session(k)' = Session(k) /\ HistoryOf(k)' = HistoryOf(k)
        BY <3>1 DEF Saving, At, Running, Over, Here, Session, HistoryOf
      <3>3. Writing(Session(k)) /\ draft[HistoryOf(k)] >= run[k].stamp
        BY <3>2 DEF HistoryInv, SavingInv
      <3> QED
        BY <1>2, <3>1, <3>2, <3>3 DEF Writing
    <2> QED
      BY <2>1, <2>2
  <1> QED
    BY <1>2, <1>4 DEF HistoryInv, CoveredInv, CoveredBy

LEMMA InitHistory == Init => HistoryInv
  <1> SUFFICES ASSUME Init PROVE HistoryInv
    OBVIOUS
  <1>1. \A j \in deployed : ~Running(j)
    BY DEF Init, Running
  <1>2. CoveredInv
    BY ConstantHistories DEF Init, CoveredInv, CoveredBy
  <1> QED
    BY <1>1, <1>2 DEF HistoryInv, SavingInv, Saving, At

LEMMA NextHistory ==
    ASSUME Growing, HistoriesFirst
    PROVE  Ground /\ HistoryInv /\ [Next]_vars => HistoryInv'
  <1> SUFFICES ASSUME Ground, HistoryInv, [Next]_vars PROVE HistoryInv'
    OBVIOUS
  <1>1. CASE UNCHANGED vars
    BY <1>1 DEF vars, HistoryInv, SavingInv, CoveredInv, CoveredBy, Saving, At, Running, Over,
                Here, Session, HistoryOf, Writing
  <1>2. ASSUME NEW j \in deployed, Start(j) PROVE HistoryInv'
    BY <1>2, StartHistory
  <1>3. ASSUME NEW j \in deployed, Step(j) PROVE HistoryInv'
    BY <1>3, StepHistory
  <1>4. ASSUME NEW j \in deployed, End(j) \/ Restart(j) PROVE HistoryInv'
    <2>1. TypeOK'
      BY NextType DEF Ground
    <2> QED
      BY <1>4, <2>1, EndSurvives, RestartSurvives, CloseHistory DEF Ground, End, Restart
  <1> QED
    BY <1>1, <1>2, <1>3, <1>4 DEF Next, Work, Step

\* A commit stores a draft that is covered, and nothing else stores anything.
LEMMA CommitCovered ==
    ASSUME Ground, HistoryInv, [Next]_vars,
           NEW latest \in DOMAIN Histories, Histories[latest] \notin emptied
    PROVE  /\ stored'[Histories[latest]] >= stored[Histories[latest]]
           /\ stored'[latest] > stored[latest] => stored'[Histories[latest]] >= stored'[latest]
  <1>1. stored[latest] \in Nat /\ stored[Histories[latest]] \in Nat
    BY ConstantHistories, ConstantTypes DEF Ground, TypeOK, Stamp
  <1>2. stored' \in {stored, draft}
    BY DEF Next, Work, Start, Answer, Trip, Control, Write, WritePartly, TimeOut, FindStale,
           ReadRows, CommitWrites, Publish, End, Restart, vars
  <1>3. CoveredBy(Histories[latest], latest)
    BY DEF HistoryInv, CoveredInv
  <1> QED
    BY <1>1, <1>2, <1>3 DEF CoveredBy

\* If each program saves a latest_* row only directly after its history, and
\* replaces no newer row of that, what others come to see in the one is in the
\* other from that commit on, until a cleanup drops it: the session that has saved
\* one of them keeps the lock until both are committed or neither, whatever the
\* jobs, failures and restarts.
THEOREM HistoryIsKept == Growing /\ HistoriesFirst => (Spec => HistoryCoversLatest)
  <1> SUFFICES ASSUME Growing, HistoriesFirst PROVE Spec => HistoryCoversLatest
    OBVIOUS
  <1> DEFINE Kept == \A latest \in DOMAIN Histories :
                       LET history == Histories[latest]
                       IN history \notin emptied =>
                            /\ stored'[history] >= stored[history]
                            /\ stored'[latest] > stored[latest] =>
                                 stored'[history] >= stored'[latest]
  <1>1. Init => Ground /\ HistoryInv
    BY InitGround, InitHistory
  <1>2. Ground /\ HistoryInv /\ [Next]_vars => (Ground /\ HistoryInv)'
    BY NextGround, NextHistory
  <1>3. Ground /\ HistoryInv /\ [Next]_vars => [Kept]_vars
    BY CommitCovered
  <1>4. [][Kept]_vars => HistoryCoversLatest
    BY DEF HistoryCoversLatest
  <1> QED
    BY <1>1, <1>2, <1>3, <1>4, PTL DEF Spec

------------------------------------------------------------------------------
(***************************************************************************)
(* Runs that have met no failure: the places where they hold the lock.     *)
(***************************************************************************)

\* What a step of a run changes of another run and its session.
LEMMA OtherRun ==
    ASSUME Ground, NEW j \in deployed, Step(j), NEW k \in deployed, k # j, run'[k] # Idle
    PROVE  /\ Running(k)
           /\ run'[k] = run[k]
           /\ Session(k) \in Sessions \ {Session(j)}
           /\ \/ txn'[Session(k)] = txn[Session(k)]
              \/ txn[Session(k)] = "reading" /\ txn'[Session(k)] = "stale"
  <1>1. OthersStay(j) /\ Running(j)
    BY StepStays, StepCases DEF Ground
  <1>2. run'[k] = run[k] /\ Running(k)
    BY <1>1 DEF OthersStay, Running
  <1>3. Session(k) \in Sessions /\ Session(k) # Session(j)
    BY <1>1, <1>2, SessionThere DEF Ground, Exclusive
  <1> QED
    BY <1>1, <1>2, <1>3 DEF OthersStay

\* What the start of a run changes.
LEMMA StartBegins ==
    ASSUME TypeOK, NEW j \in deployed, Start(j)
    PROVE  /\ UNCHANGED <<deployed, txn, stored, draft, emptied>>
           /\ ~Running(j)
           /\ ~Busy(run'[j].session)
           /\ run'[j].session \in Pool[j]
           /\ run'[j].pc = 1
           /\ run'[j].clean = (txn[run'[j].session] = "none")
           /\ run'[j] # Idle
           /\ \A k \in deployed : k # j => run'[k] = run[k]
  <1>1. PICK s \in Pool[j] : ~Busy(s) /\ run' = [run EXCEPT ![j] = Begin(s)]
    BY DEF Start
  <1>2. run'[j] = Begin(s) /\ \A k \in deployed : k # j => run'[k] = run[k]
    BY <1>1 DEF TypeOK, RunsOK
  <1>3. Begin(s) # Idle
    BY DEF Begin, Idle
  <1> QED
    BY <1>1, <1>2, <1>3 DEF Start, Begin

\* Runs of these jobs that met no failure hold the lock at these places at most.
Tidy(jobs, held) ==
    \A j \in deployed \cap jobs :
        Running(j) /\ run[j].clean /\ Writing(Session(j)) => Place(j) \in held[j]

LEMMA StepTidy ==
    ASSUME NEW jobs, NEW held, \A j \in jobs : HoldsAt(Program[j], held[j]),
           Ground, Tidy(jobs, held), [Next]_vars, NEW j \in deployed, Step(j)
    PROVE  Tidy(jobs, held)'
  <1>1. /\ deployed' = deployed /\ Running(j)
        /\ run'[j].session = run[j].session
        /\ Place(j) \in DOMAIN Program[j]
        /\ Here(j) = Program[j][Place(j)]
    BY StepStays, StepPlace DEF Ground
  <1> SUFFICES ASSUME NEW k \in deployed \cap jobs,
                      run'[k] # Idle, run'[k].clean, txn'[run'[k].session] = "writing"
               PROVE  run'[k].pc \in held[k]
    BY <1>1 DEF Tidy, Running, Writing, Session, Place
  <1>2. CASE k = j
    <2>1. Succeeds(j)
      BY <1>2, StepCases DEF Ground, Fails
    <2>2. /\ run'[j].pc \in Normally(Program[j], Place(j))
          /\ run[j].clean
          /\ txn'[Session(j)] = "writing"
      BY <1>1, <1>2, <2>1 DEF Succeeds, Session
    <2>3. Here(j).op \in Writes \/ (Here(j).op # "commit" /\ txn[Session(j)] = "writing")
      BY <2>1, <2>2 DEF Succeeds, Reads
    <2>4. Here(j).op \in Writes \/ (Here(j).op # "commit" /\ Place(j) \in held[j])
      BY <1>1, <1>2, <2>2, <2>3 DEF Tidy, Writing
    <2>5. Normally(Program[j], Place(j)) \subseteq held[j]
      BY <1>1, <1>2, <2>4 DEF HoldsAt
    <2> QED
      BY <1>2, <2>2, <2>5
  <1>3. CASE k # j
    BY <1>3, OtherRun DEF Tidy, Writing, Session, Place
  <1> QED
    BY <1>2, <1>3

LEMMA CloseTidy ==
    ASSUME NEW jobs, NEW held, Ground, Tidy(jobs, held), deployed' = deployed,
           NEW closed \in SUBSET Sessions, CloseAll(closed), Survive(closed)
    PROVE  Tidy(jobs, held)'
  <1> SUFFICES ASSUME NEW k \in deployed \cap jobs,
                      run'[k] # Idle, run'[k].clean, txn'[run'[k].session] = "writing"
               PROVE  run'[k].pc \in held[k]
    BY DEF Tidy, Running, Writing, Session, Place
  <1>1. run'[k] = run[k] /\ Running(k) /\ Session(k) \in Sessions
    BY SessionThere DEF Survive, Running, Ground
  <1>2. txn[Session(k)] = "writing"
    BY <1>1 DEF CloseAll, Session
  <1> QED
    BY <1>1, <1>2 DEF Tidy, Writing, Place

LEMMA NextTidy ==
    ASSUME NEW jobs, NEW held, \A j \in jobs : HoldsAt(Program[j], held[j])
    PROVE  Ground /\ Tidy(jobs, held) /\ [Next]_vars => Tidy(jobs, held)'
  <1> SUFFICES ASSUME Ground, Tidy(jobs, held), [Next]_vars PROVE Tidy(jobs, held)'
    OBVIOUS
  <1>1. CASE UNCHANGED vars
    BY <1>1 DEF vars, Tidy, Running, Writing, Session, Place
  <1>2. ASSUME NEW j \in deployed, Start(j) PROVE Tidy(jobs, held)'
    <2>1. /\ UNCHANGED <<deployed, txn>>
          /\ run'[j].clean = (txn[run'[j].session] = "none")
          /\ \A k \in deployed : k # j => run'[k] = run[k]
      BY <1>2, StartBegins DEF Ground
    <2> QED
      BY <2>1 DEF Tidy, Running, Writing, Session, Place
  <1>3. ASSUME NEW j \in deployed, Step(j) PROVE Tidy(jobs, held)'
    BY <1>3, StepTidy
  <1>4. ASSUME NEW j \in deployed, End(j) \/ Restart(j) PROVE Tidy(jobs, held)'
    BY <1>4, EndSurvives, RestartSurvives, CloseTidy DEF Ground, End, Restart
  <1> QED
    BY <1>1, <1>2, <1>3, <1>4 DEF Next, Work, Step

LEMMA InitTidy == ASSUME NEW jobs, NEW held PROVE Init => Tidy(jobs, held)
  BY DEF Init, Tidy, Running

\* If every program commits what it writes on each of its ways, a run that met
\* no failure has nothing uncommitted at its end, whatever the others do.
THEOREM CommittedAtTheEnd ==
    (\A j \in Jobs : \E places : Commits(Program[j], places)) => (Spec => []FinishedMeansCommitted)
  <1> SUFFICES ASSUME \A j \in Jobs : \E places : Commits(Program[j], places)
               PROVE  Spec => []FinishedMeansCommitted
    OBVIOUS
  <1> DEFINE held == [j \in Jobs |-> CHOOSE places : Commits(Program[j], places)]
  <1>1. \A j \in Jobs : Commits(Program[j], held[j])
    OBVIOUS
  <1> HIDE DEF held
  <1>2. Init => Ground /\ Tidy(Jobs, held)
    BY InitGround, InitTidy
  <1>3. Ground /\ Tidy(Jobs, held) /\ [Next]_vars => (Ground /\ Tidy(Jobs, held))'
    <2>1. \A j \in Jobs : HoldsAt(Program[j], held[j])
      BY <1>1 DEF Commits
    <2> QED
      BY <2>1, NextGround, NextTidy
  <1>4. Ground /\ Tidy(Jobs, held) => FinishedMeansCommitted
    <2> SUFFICES ASSUME Ground, Tidy(Jobs, held), NEW j \in deployed, Running(j), Over(j),
                        run[j].clean, Writing(Session(j))
                 PROVE  FALSE
      BY DEF FinishedMeansCommitted, Writing
    <2>1. j \in Jobs
      BY ConstantTypes DEF Ground, TypeOK
    <2>2. PlaceAfter(Program[j]) \in held[j]
      BY <2>1 DEF Tidy, Place, Over, PlaceAfter
    <2> QED
      BY <1>1, <2>1, <2>2 DEF Commits
  <1> QED
    BY <1>2, <1>3, <1>4, PTL DEF Spec

\* If the programs of all jobs but the slow ones commit before they ask, none of
\* them waits for an answer with the lock as long as nothing fails.
THEOREM AskingWithoutLock ==
    (\A j \in Jobs \ Slow : \E places : AsksUnlocked(Program[j], places))
        => (Spec => []NobodyWaitsWithLock)
  <1> SUFFICES ASSUME \A j \in Jobs \ Slow : \E places : AsksUnlocked(Program[j], places)
               PROVE  Spec => []NobodyWaitsWithLock
    OBVIOUS
  <1> DEFINE quick == Jobs \ Slow
             held == [j \in quick |-> CHOOSE places : AsksUnlocked(Program[j], places)]
  <1>1. \A j \in quick : AsksUnlocked(Program[j], held[j])
    OBVIOUS
  <1> HIDE DEF held
  <1>2. Init => Ground /\ Tidy(quick, held)
    BY InitGround, InitTidy
  <1>3. Ground /\ Tidy(quick, held) /\ [Next]_vars => (Ground /\ Tidy(quick, held))'
    <2>1. \A j \in quick : HoldsAt(Program[j], held[j])
      BY <1>1 DEF AsksUnlocked
    <2> HIDE DEF quick
    <2> QED
      BY <2>1, NextGround, NextTidy
  <1>4. Ground /\ Tidy(quick, held) => NobodyWaitsWithLock
    <2> SUFFICES ASSUME Ground, Tidy(quick, held), NEW j \in deployed, At(j, {"fetch"}),
                        run[j].clean, Writing(Session(j)), j \notin Slow
                 PROVE  FALSE
      BY DEF NobodyWaitsWithLock, Writing
    <2>1. j \in quick /\ run[j].pc \in 1..Len(Program[j]) /\ Here(j).op = "fetch" /\ Running(j)
      BY AtStep DEF Ground
    <2>2. Place(j) \in DOMAIN Program[j]
      BY <2>1, ConstantTypes DEF Place
    <2>3. Place(j) \in held[j]
      BY <2>1 DEF Tidy
    <2> QED
      BY <1>1, <2>1, <2>2, <2>3 DEF AsksUnlocked, Here, Place
  <1> HIDE DEF quick
  <1> QED
    BY <1>2, <1>3, <1>4, PTL DEF Spec

------------------------------------------------------------------------------
(***************************************************************************)
(* Sessions of idle threads: who gives the lock back, and in whose         *)
(* transactions the next job may find itself.                              *)
(***************************************************************************)
LEMMA ConstantPools ==
    \A j, k \in Jobs : Pool[j] = Pool[k] \/ Pool[j] \cap Pool[k] = {}
  BY StoreAssumption DEF StoreAssumption

RunsIn(j, s) == Running(j) /\ Session(j) = s

\* The runs in other sessions than those of the pool go on.
LEMMA RestartSpares ==
    ASSUME TypeOK, NEW j \in deployed, Restart(j), NEW k \in deployed,
           NEW s, s \notin Pool[j], RunsIn(k, s)
    PROVE  run'[k] = run[k]
  <1>1. j \in Jobs /\ k \in Jobs
    BY ConstantTypes DEF TypeOK
  <1>2. s \in Pool[k]
    BY DEF TypeOK, RunsOK, RunsIn, Session
  <1>3. Pool[k] \cap Pool[j] = {}
    BY <1>1, <1>2, ConstantPools
  <1> QED
    BY <1>3 DEF Restart

\* A run goes on until its end.
LEMMA StepRuns ==
    ASSUME Ground, [Next]_vars, NEW j \in deployed, Step(j)
    PROVE  run'[j] # Idle
  <1>1. /\ j \in Jobs
        /\ Place(j) \in DOMAIN Program[j]
        /\ Place(j) \in 1..Len(Program[j])
        /\ Len(Program[j]) \in Nat
        /\ Program[j][Place(j)] \in [op : STRING, table : STRING, dist : Nat, rescue : Nat]
        /\ WellFormed(Program[j])
    <2>1. j \in Jobs /\ Place(j) \in DOMAIN Program[j] /\ Place(j) \in 1..Len(Program[j])
      BY StepPlace
    <2>2. /\ Program[j] \in Seq([op : STRING, table : STRING, dist : Nat, rescue : Nat])
          /\ WellFormed(Program[j])
      BY <2>1, ConstantTypes
    <2>3. Len(Program[j]) \in Nat
      BY <2>2
    <2>4. Program[j][Place(j)] \in [op : STRING, table : STRING, dist : Nat, rescue : Nat]
      BY ONLY <2>1, <2>2, Elements
    <2> QED
      BY <2>1, <2>2, <2>3, <2>4
  <1> DEFINE i == Place(j)
             step == Program[j][i]
             end == Len(Program[j])
  <1>2. i \in 1..end /\ end \in Nat /\ step.dist \in Nat /\ step.rescue \in Nat
    BY <1>1
  <1>3. step.op = "again" => step.dist < i
    BY <1>1 DEF WellFormed
  <1>4. 0 \notin Normally(Program[j], i)
    <2> HIDE DEF i, end
    <2>1. 0 # i + step.dist /\ 0 # i + 1
      BY ONLY <1>2
    <2>2. step.op = "again" => 0 # i - step.dist
      <3> HIDE DEF step
      <3>1. step.dist < i => 0 # i - step.dist
        BY ONLY <1>2
      <3> QED
        BY <1>3, <3>1
    <2> QED
      BY <2>1, <2>2 DEF Normally
  <1>5. 0 # Handler(Program[j], i)
    <2>1. 0 # end + 1 /\ 0 # i + step.rescue
      <3> HIDE DEF i, step, end
      <3> QED
        BY ONLY <1>2
    <2> QED
      BY <2>1 DEF Handler, PlaceAfter
  <1>6. run'[j].pc # 0
    BY <1>4, <1>5, StepCases DEF Ground, Succeeds, Fails
  <1> QED
    BY <1>6 DEF Idle

\* A step of a run in another session changes nothing for this one.
LEMMA ElsewhereStays ==
    ASSUME Ground, NEW j \in deployed, Step(j), NEW s \in Sessions, s # Session(j)
    PROVE  /\ \A k \in deployed : RunsIn(k, s)' <=> RunsIn(k, s)
           /\ \A k \in deployed : RunsIn(k, s) => run'[k] = run[k]
           /\ txn'[s] = txn[s] \/ (txn[s] = "reading" /\ txn'[s] = "stale")
  <1>1. /\ OthersStay(j) /\ Session(j)' = Session(j)
    BY StepStays, StepCases DEF Ground
  <1> QED
    BY <1>1 DEF OthersStay, RunsIn, Running, Session

\* Whoever holds the lock in a session of recorded jobs is running, at one of
\* these places or with a DBManager of its own.
GivenBack(held) ==
    \A s \in Sessions : Writing(s) /\ ~UsedBy(s, Unrecorded) =>
        \E j \in deployed : RunsIn(j, s) /\ (j \in Fresh \/ Place(j) \in held[j])

Recorded == Jobs \ (Unrecorded \cup Fresh)

LEMMA StepGivesBack ==
    ASSUME NEW held, \A j \in Recorded : GivesBack(Program[j], held[j]),
           Ground, GivenBack(held), [Next]_vars, NEW j \in deployed, Step(j)
    PROVE  GivenBack(held)'
  <1>1. /\ deployed' = deployed /\ Sessions' = Sessions
        /\ Running(j) /\ Session(j) \in Sessions /\ Session(j)' = Session(j)
        /\ j \in Jobs
        /\ Place(j) \in DOMAIN Program[j]
        /\ Here(j) = Program[j][Place(j)]
        /\ Session(j) \in Pool[j]
    BY StepStays, StepPlace DEF Ground, TypeOK, RunsOK, Session
  <1>2. run'[j] # Idle
    BY StepRuns
  <1> SUFFICES ASSUME NEW s \in Sessions, txn'[s] = "writing", ~UsedBy(s, Unrecorded)
               PROVE  \E k \in deployed : RunsIn(k, s)' /\ (k \in Fresh \/ run'[k].pc \in held[k])
    BY <1>1 DEF GivenBack, Writing, UsedBy, Place
  <1>3. CASE s # Session(j)
    <2>1. PICK k \in deployed : RunsIn(k, s) /\ (k \in Fresh \/ Place(k) \in held[k])
      BY <1>3, ElsewhereStays DEF GivenBack, Writing
    <2> QED
      BY <1>3, <2>1, ElsewhereStays DEF Place
  <1>4. CASE s = Session(j)
    <2>1. RunsIn(j, s)'
      BY <1>1, <1>2, <1>4 DEF RunsIn, Running
    <2>2. CASE j \in Fresh
      BY <2>1, <2>2
    <2>3. CASE j \notin Fresh
      <3>1. j \in Recorded
        BY <1>1, <1>4, <2>3 DEF Recorded, UsedBy
      <3>2. HoldsDespiteFailures(Program[j], held[j])
        BY <3>1 DEF GivesBack
      <3>3. Writing(s) => Place(j) \in held[j]
        BY <1>1, <1>4, <2>3 DEF GivenBack, RunsIn, Ground, Exclusive
      <3>4. run'[j].pc \in held[j]
        <4>1. CASE Succeeds(j)
          <5>1. Here(j).op \in Writes \/ (Here(j).op # "commit" /\ Writing(s))
            BY <1>4, <4>1 DEF Succeeds, Reads, Writing
          <5> QED
            BY <1>1, <3>2, <3>3, <4>1, <5>1 DEF Succeeds, HoldsDespiteFailures, HoldsAt
        <4>2. CASE Fails(j)
          <5>1. Here(j).op \in Refusable \/ (Here(j).op \in Failing /\ Writing(s))
            BY <1>4, <4>2 DEF Fails, Writing
          <5> QED
            BY <1>1, <3>2, <3>3, <4>2, <5>1 DEF Fails, HoldsDespiteFailures
        <4> QED
          BY <4>1, <4>2, StepCases DEF Ground
      <3> QED
        BY <2>1, <3>4
    <2> QED
      BY <2>2, <2>3
  <1> QED
    BY <1>3, <1>4

LEMMA NextGivesBack ==
    ASSUME NEW held, \A j \in Recorded : GivesBack(Program[j], held[j])
    PROVE  Ground /\ GivenBack(held) /\ [Next]_vars => GivenBack(held)'
  <1> SUFFICES ASSUME Ground, GivenBack(held), [Next]_vars PROVE GivenBack(held)'
    OBVIOUS
  <1>1. CASE UNCHANGED vars
    BY <1>1 DEF vars, GivenBack, RunsIn, Running, Writing, Session, Sessions, Place, UsedBy
  <1>2. ASSUME NEW j \in deployed, Step(j) PROVE GivenBack(held)'
    BY <1>2, StepGivesBack
  <1>3. ASSUME NEW j \in deployed, Start(j) PROVE GivenBack(held)'
    <2>1. /\ UNCHANGED <<deployed, txn>>
          /\ ~Running(j)
          /\ \A k \in deployed : k # j => run'[k] = run[k]
      BY <1>3, StartBegins DEF Ground
    <2>2. \A k \in deployed, s \in Sessions : RunsIn(k, s) => RunsIn(k, s)' /\ run'[k] = run[k]
      BY <2>1 DEF RunsIn, Running, Session
    <2> QED
      BY <2>1, <2>2 DEF GivenBack, Writing, Sessions, Place, UsedBy
  <1>4. ASSUME NEW j \in deployed, NEW closed \in SUBSET Sessions, CloseAll(closed),
               deployed' = deployed,
               \A k \in deployed, s \in Sessions \ closed :
                  (RunsIn(k, s) => run'[k] = run[k])
                  \/ ~(k \in Fresh \/ Place(k) \in held[k])
                  \/ UsedBy(s, Unrecorded)
        PROVE  GivenBack(held)'
    <2>1. Sessions' = Sessions
      BY <1>4 DEF CloseAll, Sessions
    <2> SUFFICES ASSUME NEW s \in Sessions, txn'[s] = "writing", ~UsedBy(s, Unrecorded)
                 PROVE  \E k \in deployed : RunsIn(k, s)' /\ (k \in Fresh \/ run'[k].pc \in held[k])
      BY <1>4, <2>1 DEF GivenBack, Writing, UsedBy, Place
    <2>2. s \notin closed /\ txn[s] = "writing"
      BY <1>4 DEF CloseAll
    <2>3. PICK k \in deployed : RunsIn(k, s) /\ (k \in Fresh \/ Place(k) \in held[k])
      BY <2>2 DEF GivenBack, Writing
    <2>4. run'[k] = run[k]
      BY <1>4, <2>2, <2>3
    <2> QED
      BY <2>3, <2>4 DEF RunsIn, Running, Session, Place
  <1>5. ASSUME NEW j \in deployed, End(j) PROVE GivenBack(held)'
    <2> DEFINE closed == IF j \in Fresh THEN {Session(j)} ELSE {}
    <2>1. /\ run' = [run EXCEPT ![j] = Idle]
          /\ CloseAll(closed) /\ deployed' = deployed
          /\ Running(j) /\ Over(j)
      BY <1>5 DEF End
    <2>2. closed \in SUBSET Sessions
      BY <2>1, SessionThere DEF Ground
    <2>3. \A k \in deployed : k # j => run'[k] = run[k]
      BY <2>1 DEF Ground, TypeOK, RunsOK
    <2>4. ASSUME NEW s \in Sessions \ closed, RunsIn(j, s)
          PROVE  ~(j \in Fresh \/ Place(j) \in held[j]) \/ UsedBy(s, Unrecorded)
      <3>1. j \notin Fresh
        BY <2>4 DEF RunsIn
      <3>2. j \in Jobs /\ s \in Pool[j]
        BY <2>4, ConstantTypes DEF RunsIn, Session, Ground, TypeOK, RunsOK
      <3>3. CASE j \in Unrecorded
        BY <3>2, <3>3 DEF UsedBy
      <3>4. CASE j \notin Unrecorded
        BY <2>1, <3>1, <3>2, <3>4 DEF Recorded, GivesBack, Over, Place, PlaceAfter
      <3> QED
        BY <3>3, <3>4
    <2> HIDE DEF closed
    <2> QED
      BY <1>4, <2>1, <2>2, <2>3, <2>4
  <1>6. ASSUME NEW j \in deployed, Restart(j) PROVE GivenBack(held)'
    BY <1>4, <1>6, RestartSpares, PoolThere DEF Ground, Restart
  <1> QED
    BY <1>1, <1>2, <1>3, <1>5, <1>6 DEF Next, Work, Step

LEMMA InitGivesBack == ASSUME NEW held PROVE Init => GivenBack(held)
  BY DEF Init, GivenBack, Writing, Sessions

\* If the program of every recorded job gives the lock back whatever fails (and
\* the jobs with a DBManager of their own close it), no idle thread of recorded
\* jobs keeps the lock: at any number of jobs and threads, failures and restarts.
THEOREM LockComesBack ==
    (\A j \in Recorded : \E places : GivesBack(Program[j], places)) => (Spec => []LockIsGivenBack)
  <1> SUFFICES ASSUME \A j \in Recorded : \E places : GivesBack(Program[j], places)
               PROVE  Spec => []LockIsGivenBack
    OBVIOUS
  <1> DEFINE held == [j \in Recorded |-> CHOOSE places : GivesBack(Program[j], places)]
  <1>1. \A j \in Recorded : GivesBack(Program[j], held[j])
    OBVIOUS
  <1> HIDE DEF held
  <1>2. Init => Ground /\ GivenBack(held)
    BY InitGround, InitGivesBack
  <1>3. Ground /\ GivenBack(held) /\ [Next]_vars => (Ground /\ GivenBack(held))'
    BY <1>1, NextGround, NextGivesBack
  <1>4. GivenBack(held) => LockIsGivenBack
    BY DEF GivenBack, LockIsGivenBack, Writing, Busy, RunsIn, Session
  <1> QED
    BY <1>2, <1>3, <1>4, PTL DEF Spec

------------------------------------------------------------------------------
(***************************************************************************)
(* Stale snapshots: a job finds one when it reads in the transaction a     *)
(* failed write has left open, its own or one the thread had before it.    *)
(***************************************************************************)
\* Somebody leaves the transactions open that the job begins with.
Inherits(j) == \E k \in Jobs \ Fresh : Pool[k] \cap Pool[j] # {}

Steady == Jobs \ Rereading

ReadsFreshFrom(j, places) ==
    ReadsFresh(Program[j], places) /\ (Inherits(j) => 1 \in places)

LeftTo(s) == \E k \in Jobs \ Fresh : s \in Pool[k]

\* In the sessions of the other jobs nothing is read in an open transaction, and
\* one that a failed write has begun is at these places or left to the next job.
NothingReread(open) ==
    \A s \in Sessions : ~UsedBy(s, Rereading) =>
        /\ txn[s] \notin {"reading", "stale"}
        /\ txn[s] = "begun" =>
            /\ \A j \in deployed : RunsIn(j, s) => Place(j) \in open[j]
            /\ LeftTo(s) \/ \E j \in deployed : RunsIn(j, s)

LEMMA StepRereads ==
    ASSUME NEW open, \A j \in Steady : ReadsFreshFrom(j, open[j]),
           Ground, NothingReread(open), [Next]_vars, NEW j \in deployed, Step(j)
    PROVE  NothingReread(open)'
  <1>1. /\ deployed' = deployed /\ Sessions' = Sessions
        /\ Running(j) /\ Session(j) \in Sessions /\ Session(j)' = Session(j)
        /\ j \in Jobs
        /\ Place(j) \in DOMAIN Program[j]
        /\ Here(j) = Program[j][Place(j)]
        /\ Session(j) \in Pool[j]
    BY StepStays, StepPlace DEF Ground, TypeOK, RunsOK, Session
  <1>2. run'[j] # Idle
    BY StepRuns
  <1> SUFFICES ASSUME NEW s \in Sessions, ~UsedBy(s, Rereading)
               PROVE  /\ txn'[s] \notin {"reading", "stale"}
                      /\ txn'[s] = "begun" =>
                          /\ \A k \in deployed : RunsIn(k, s)' => run'[k].pc \in open[k]
                          /\ LeftTo(s) \/ \E k \in deployed : RunsIn(k, s)'
    BY <1>1 DEF NothingReread, UsedBy, Place
  <1>3. txn[s] \notin {"reading", "stale"}
    BY DEF NothingReread
  <1>4. CASE s # Session(j)
    <2>1. /\ txn'[s] = txn[s]
          /\ \A k \in deployed : RunsIn(k, s)' <=> RunsIn(k, s)
          /\ \A k \in deployed : RunsIn(k, s) => run'[k] = run[k]
      BY <1>3, <1>4, ElsewhereStays
    <2> QED
      BY <1>3, <2>1 DEF NothingReread, Place
  <1>5. CASE s = Session(j)
    <2>1. RunsIn(j, s)'
      BY <1>1, <1>2, <1>5 DEF RunsIn, Running
    <2>2. \A k \in deployed : RunsIn(k, s)' => k = j
      <3>1. \A k \in deployed : k # j => run'[k] = run[k]
        BY StepCases DEF Ground, OthersStay
      <3> QED
        BY <1>1, <1>5, <3>1 DEF Ground, Exclusive, RunsIn, Running, Session
    <2>3. j \in Steady
      BY <1>1, <1>5 DEF Steady, UsedBy
    <2>4. ReadsFresh(Program[j], open[j])
      BY <2>3 DEF ReadsFreshFrom
    <2>5. txn[s] = "begun" => Place(j) \in open[j]
      BY <1>1, <1>5 DEF NothingReread, RunsIn
    <2>6. CASE Succeeds(j)
      <3>1. txn[s] = "begun" => Here(j).op \notin Reads
        BY <1>1, <2>4, <2>5 DEF ReadsFresh
      <3>2. txn'[s] \notin {"reading", "stale"}
        BY <1>3, <1>5, <2>6, <3>1 DEF Succeeds
      <3>3. txn'[s] = "begun" => txn[s] = "begun" /\ Here(j).op \notin Writes \cup {"commit"}
        BY <1>5, <2>6 DEF Succeeds, Writes, Reads
      <3>4. txn'[s] = "begun" => run'[j].pc \in open[j]
        BY <1>1, <2>4, <2>5, <2>6, <3>3 DEF ReadsFresh, Succeeds
      <3> QED
        BY <2>1, <2>2, <3>2, <3>4
    <2>7. CASE Fails(j)
      <3>1. txn'[s] \notin {"reading", "stale"}
        BY <1>3, <1>5, <2>7 DEF Fails
      <3>2. txn'[s] = "begun" => Here(j).op \in Writes \/ (Here(j).op \in Failing /\ txn[s] = "begun")
        BY <1>5, <2>7 DEF Fails
      <3>3. txn'[s] = "begun" => run'[j].pc \in open[j]
        BY <1>1, <2>4, <2>5, <2>7, <3>2 DEF ReadsFresh, Fails
      <3> QED
        BY <2>1, <2>2, <3>1, <3>3
    <2> QED
      BY <2>6, <2>7, StepCases DEF Ground
  <1> QED
    BY <1>4, <1>5

LEMMA CloseRereads ==
    ASSUME NEW open, Ground, NothingReread(open), deployed' = deployed,
           NEW closed \in SUBSET Sessions, CloseAll(closed), Survive(closed),
           \A k \in deployed, s \in Sessions \ closed :
              RunsIn(k, s) => run'[k] = run[k] \/ LeftTo(s)
    PROVE  NothingReread(open)'
  <1>1. Sessions' = Sessions
    BY DEF CloseAll, Sessions
  <1> SUFFICES ASSUME NEW s \in Sessions, ~UsedBy(s, Rereading)
               PROVE  /\ txn'[s] \notin {"reading", "stale"}
                      /\ txn'[s] = "begun" =>
                          /\ \A k \in deployed : RunsIn(k, s)' => run'[k].pc \in open[k]
                          /\ LeftTo(s) \/ \E k \in deployed : RunsIn(k, s)'
    BY <1>1 DEF NothingReread, UsedBy, Place
  <1>2. txn'[s] = IF s \in closed THEN "none" ELSE txn[s]
    BY DEF CloseAll
  <1>3. \A k \in deployed : RunsIn(k, s)' => RunsIn(k, s) /\ run'[k] = run[k]
    BY DEF Survive, RunsIn, Running, Session
  <1>4. \A k \in deployed : RunsIn(k, s) /\ run'[k] = run[k] => RunsIn(k, s)'
    BY DEF RunsIn, Running, Session
  <1> QED
    BY <1>2, <1>3, <1>4 DEF NothingReread, Place

LEMMA StartRereads ==
    ASSUME NEW open, \A j \in Steady : ReadsFreshFrom(j, open[j]),
           Ground, NothingReread(open), NEW j \in deployed, Start(j)
    PROVE  NothingReread(open)'
  <1>1. /\ UNCHANGED <<deployed, txn>>
        /\ ~Running(j)
        /\ ~Busy(run'[j].session) /\ run'[j].session \in Pool[j] /\ run'[j].pc = 1
        /\ \A k \in deployed : k # j => run'[k] = run[k]
        /\ run'[j] # Idle
    BY StartBegins DEF Ground
  <1> SUFFICES ASSUME NEW s \in Sessions, ~UsedBy(s, Rereading)
               PROVE  /\ txn[s] \notin {"reading", "stale"}
                      /\ txn[s] = "begun" =>
                          /\ \A k \in deployed : RunsIn(k, s)' => run'[k].pc \in open[k]
                          /\ LeftTo(s) \/ \E k \in deployed : RunsIn(k, s)'
    BY <1>1 DEF NothingReread, UsedBy, Place, Sessions
  <1>2. \A k \in deployed : k # j => (RunsIn(k, s)' <=> RunsIn(k, s))
    BY <1>1 DEF RunsIn, Running, Session
  <1>3. CASE s # run'[j].session
    BY <1>1, <1>2, <1>3 DEF NothingReread, RunsIn, Running, Session, Place
  <1>4. CASE s = run'[j].session
    <2>1. \A k \in deployed : ~RunsIn(k, s)
      BY <1>1, <1>4 DEF Busy, RunsIn, Session
    <2>2. RunsIn(j, s)' /\ j \in Steady
      BY <1>1, <1>4, ConstantTypes DEF RunsIn, Running, Session, Steady, UsedBy, Ground, TypeOK
    <2>3. txn[s] = "begun" => 1 \in open[j]
      BY <1>1, <1>4, <2>1, <2>2 DEF NothingReread, LeftTo, Inherits, ReadsFreshFrom
    <2> QED
      BY <1>1, <1>2, <2>1, <2>2, <2>3 DEF NothingReread
  <1> QED
    BY <1>3, <1>4

LEMMA NextRereads ==
    ASSUME NEW open, \A j \in Steady : ReadsFreshFrom(j, open[j])
    PROVE  Ground /\ NothingReread(open) /\ [Next]_vars => NothingReread(open)'
  <1> SUFFICES ASSUME Ground, NothingReread(open), [Next]_vars PROVE NothingReread(open)'
    OBVIOUS
  <1>1. CASE UNCHANGED vars
    BY <1>1 DEF vars, NothingReread, RunsIn, Running, Session, Sessions, Place, UsedBy
  <1>2. ASSUME NEW j \in deployed, Start(j) PROVE NothingReread(open)'
    BY <1>2, StartRereads
  <1>3. ASSUME NEW j \in deployed, Step(j) PROVE NothingReread(open)'
    BY <1>3, StepRereads
  <1>4. ASSUME NEW j \in deployed, End(j) PROVE NothingReread(open)'
    <2> DEFINE closed == IF j \in Fresh THEN {Session(j)} ELSE {}
    <2>1. /\ run' = [run EXCEPT ![j] = Idle]
          /\ CloseAll(closed) /\ deployed' = deployed
          /\ Running(j)
      BY <1>4 DEF End
    <2>2. closed \in SUBSET Sessions
      BY <2>1, SessionThere DEF Ground
    <2>3. \A k \in deployed : k # j => run'[k] = run[k]
      BY <2>1 DEF Ground, TypeOK, RunsOK
    <2>4. Survive(closed)
      BY <2>1, <2>3 DEF Survive, Ground, TypeOK, RunsOK, Exclusive
    <2>5. \A s \in Sessions \ closed : RunsIn(j, s) => LeftTo(s)
      <3> SUFFICES ASSUME NEW s \in Sessions \ closed, RunsIn(j, s) PROVE LeftTo(s)
        OBVIOUS
      <3>1. Session(j) = s
        BY DEF RunsIn
      <3>2. j \notin Fresh
        BY <3>1
      <3>3. j \in Jobs
        BY ConstantTypes DEF Ground, TypeOK
      <3>4. s \in Pool[j]
        BY <2>1, <3>1 DEF Session, Ground, TypeOK, RunsOK
      <3> QED
        BY <3>2, <3>3, <3>4 DEF LeftTo
    <2> HIDE DEF closed
    <2> QED
      BY <2>1, <2>2, <2>3, <2>4, <2>5, CloseRereads
  <1>5. ASSUME NEW j \in deployed, Restart(j) PROVE NothingReread(open)'
    <2>1. Survive(Pool[j])
      BY <1>5 DEF Restart, Survive, Ground, TypeOK, RunsOK, Session
    <2> QED
      BY <1>5, <2>1, RestartSpares, PoolThere, CloseRereads DEF Ground, Restart
  <1> QED
    BY <1>1, <1>2, <1>3, <1>4, <1>5 DEF Next, Work, Step

LEMMA InitRereads == ASSUME NEW open PROVE Init => NothingReread(open)
  BY DEF Init, NothingReread, Sessions

\* If no program but those of the listed jobs reads where the transaction of a
\* failed write may still be open, only sessions of listed jobs go stale.
THEOREM OnlyRereadersGoStale ==
    (\A j \in Steady : \E places : ReadsFreshFrom(j, places)) => (Spec => []OnlyRereadersGetStuck)
  <1> SUFFICES ASSUME \A j \in Steady : \E places : ReadsFreshFrom(j, places)
               PROVE  Spec => []OnlyRereadersGetStuck
    OBVIOUS
  <1> DEFINE open == [j \in Steady |-> CHOOSE places : ReadsFreshFrom(j, places)]
  <1>1. \A j \in Steady : ReadsFreshFrom(j, open[j])
    OBVIOUS
  <1> HIDE DEF open
  <1>2. Init => Ground /\ NothingReread(open)
    BY InitGround, InitRereads
  <1>3. Ground /\ NothingReread(open) /\ [Next]_vars => (Ground /\ NothingReread(open))'
    BY <1>1, NextGround, NextRereads
  <1>4. NothingReread(open) => OnlyRereadersGetStuck
    BY DEF NothingReread, OnlyRereadersGetStuck
  <1> QED
    BY <1>2, <1>3, <1>4, PTL DEF Spec

------------------------------------------------------------------------------
(***************************************************************************)
(* The language of programs: what is built from programs with its          *)
(* operators keeps their rules.                                            *)
(***************************************************************************)
Language == INSTANCE StorePrograms

Operations ==
    {"fetch", "read", "load", "insert", "put", "revise", "latest", "delete", "record", "commit",
     "raise", "branch", "jump", "again"}

StepsOver(names) == [op : Operations, table : names, dist : Nat, rescue : Nat]

\* Programs over tables of these names, whose jumps and handlers stay inside.
ProgramsOver(names) == {p \in Seq(StepsOver(names)) : WellFormed(p)}

\* The steps of part are those of program from place at + 1 on.
Contains(program, part, at) ==
    /\ at + Len(part) <= Len(program)
    /\ \A i \in 1..Len(part) : program[at + i] = part[i]

\* Where the steps of programs stand when they are joined.
Joins(r, S, p, q) ==
    /\ r \in Seq(S)
    /\ Len(r) = Len(p) + Len(q)
    /\ Contains(r, p, 0)
    /\ Contains(r, q, Len(p))
    /\ \A i \in 1..Len(r) : i \in 1..Len(p) \/ \E k \in 1..Len(q) : i = Len(p) + k

LEMMA Joined ==
    ASSUME NEW S, NEW p \in Seq(S), NEW q \in Seq(S), NEW r, r = p \o q
    PROVE  Joins(r, S, p, q)
  <1>1. /\ p \o q \in Seq(S)
        /\ Len(p \o q) = Len(p) + Len(q)
        /\ Len(p) \in Nat
        /\ Len(q) \in Nat
        /\ \A i \in 1..Len(p) : (p \o q)[i] = p[i]
        /\ \A i \in 1..Len(q) : (p \o q)[Len(p) + i] = q[i]
    OBVIOUS
  <1>2. ASSUME NEW i \in 1..Len(p \o q), i \notin 1..Len(p)
        PROVE  \E k \in 1..Len(q) : i = Len(p) + k
    <2>1. i - Len(p) \in 1..Len(q) /\ i = Len(p) + (i - Len(p))
      BY ONLY <1>1, <1>2
    <2> QED
      BY <2>1
  <1>3. Contains(p \o q, p, 0)
    <2>1. \A i \in 1..Len(p) : (p \o q)[0 + i] = p[i]
      BY <1>1
    <2>2. 0 + Len(p) <= Len(p \o q)
      BY ONLY <1>1
    <2> QED
      BY ONLY <2>1, <2>2 DEF Contains
  <1>4. Contains(p \o q, q, Len(p))
    BY <1>1 DEF Contains
  <1>5. Joins(p \o q, S, p, q)
    BY <1>1, <1>2, <1>3, <1>4 DEF Joins
  <1> QED
    BY ONLY <1>5, r = p \o q

\* A program of one step.
LEMMA SingleStep ==
    ASSUME NEW names, NEW op \in Operations, NEW table \in names, NEW dist \in Nat
    PROVE  /\ Language!Step(op, table, dist) \in Seq(StepsOver(names))
           /\ Len(Language!Step(op, table, dist)) = 1
           /\ Language!Step(op, table, dist)[1].op = op
           /\ Language!Step(op, table, dist)[1].dist = dist
           /\ Language!Step(op, table, dist)[1].rescue = 0
  BY DEF Language!Step, StepsOver

\* A step that does not lead out of its program.
Stays(program, i) ==
    /\ program[i].op \in {"branch", "jump"} => i + program[i].dist <= Len(program) + 1
    /\ program[i].op = "again" => program[i].dist < i
    /\ i + program[i].rescue <= Len(program) + 1

LEMMA AllStay ==
    ASSUME NEW names, NEW program \in Seq(StepsOver(names)),
           \A i \in 1..Len(program) : Stays(program, i)
    PROVE  program \in ProgramsOver(names)
  <1>1. DOMAIN program = 1..Len(program)
    OBVIOUS
  <1> QED
    BY <1>1 DEF ProgramsOver, WellFormed, Stays

\* What is known of a step of a program.
LEMMA StepOf ==
    ASSUME NEW names, NEW program \in ProgramsOver(names)
    PROVE  /\ program \in Seq(StepsOver(names))
           /\ Len(program) \in Nat
           /\ DOMAIN program = 1..Len(program)
           /\ \A i \in 1..Len(program) :
                /\ program[i] \in StepsOver(names)
                /\ program[i].op \in Operations
                /\ program[i].dist \in Nat
                /\ program[i].rescue \in Nat
                /\ Stays(program, i)
  <1>1. program \in Seq(StepsOver(names)) /\ WellFormed(program)
    BY DEF ProgramsOver
  <1>2. Len(program) \in Nat /\ DOMAIN program = 1..Len(program)
    BY <1>1
  <1>3. ASSUME NEW i \in 1..Len(program) PROVE program[i] \in StepsOver(names)
    BY <1>1, <1>3, Elements
  <1>4. ASSUME NEW step \in StepsOver(names)
        PROVE  step.op \in Operations /\ step.dist \in Nat /\ step.rescue \in Nat
    BY DEF StepsOver
  <1>5. ASSUME NEW i \in 1..Len(program) PROVE Stays(program, i)
    BY <1>1, <1>2 DEF WellFormed, Stays
  <1> QED
    BY <1>1, <1>2, <1>3, <1>4, <1>5

\* A part stays inside wherever it stands.
LEMMA PartStays ==
    ASSUME NEW names, NEW program \in Seq(StepsOver(names)), NEW part \in ProgramsOver(names),
           NEW at \in Nat, Contains(program, part, at), NEW i \in 1..Len(part)
    PROVE  Stays(program, at + i)
  <1>1. Len(part) \in Nat /\ Len(program) \in Nat
    BY StepOf
  <1>2. program[at + i] = part[i] /\ at + Len(part) <= Len(program)
    BY DEF Contains
  <1> DEFINE step == part[i]
  <1>3. /\ step.op \in {"branch", "jump"} => i + step.dist <= Len(part) + 1
        /\ step.op = "again" => step.dist < i
        /\ i + step.rescue <= Len(part) + 1
        /\ step.dist \in Nat
        /\ step.rescue \in Nat
    BY StepOf DEF Stays
  <1>4. program[at + i] = step
    BY <1>2
  <1> HIDE DEF step
  <1>5. /\ step.op \in {"branch", "jump"} => (at + i) + step.dist <= Len(program) + 1
        /\ step.op = "again" => step.dist < at + i
        /\ (at + i) + step.rescue <= Len(program) + 1
    BY ONLY <1>1, <1>2, <1>3, at \in Nat, i \in 1..Len(part)
  <1> QED
    BY ONLY <1>4, <1>5 DEF Stays

\* A part of a part.
LEMMA Within ==
    ASSUME NEW S, NEW whole \in Seq(S), NEW p \in Seq(S), NEW q \in Seq(S), NEW a \in Nat, NEW b \in Nat,
           Contains(whole, p, a), Contains(p, q, b)
    PROVE  Contains(whole, q, a + b)
  <1>1. Len(whole) \in Nat /\ Len(p) \in Nat /\ Len(q) \in Nat
    OBVIOUS
  <1>2. /\ a + Len(p) <= Len(whole) /\ b + Len(q) <= Len(p)
        /\ \A i \in 1..Len(p) : whole[a + i] = p[i]
        /\ \A i \in 1..Len(q) : p[b + i] = q[i]
    BY DEF Contains
  <1>3. (a + b) + Len(q) <= Len(whole)
    BY ONLY <1>1, <1>2, a \in Nat, b \in Nat
  <1>4. ASSUME NEW i \in 1..Len(q) PROVE whole[(a + b) + i] = q[i]
    <2>1. b + i \in 1..Len(p) /\ a + (b + i) = (a + b) + i
      BY ONLY <1>1, <1>2, a \in Nat, b \in Nat, i \in 1..Len(q)
    <2> QED
      BY <1>2, <2>1
  <1> QED
    BY ONLY <1>3, <1>4 DEF Contains

\* The step of a program at a place.
IsStep(program, i, op, dist) ==
    program[i].op = op /\ program[i].dist = dist /\ program[i].rescue = 0

LEMMA StepIn ==
    ASSUME NEW program, NEW op, NEW table, NEW dist, NEW at \in Nat,
           Contains(program, Language!Step(op, table, dist), at)
    PROVE  IsStep(program, at + 1, op, dist)
  <1> DEFINE step == Language!Step(op, table, dist)
  <1>1. Len(step) = 1 /\ step[1].op = op /\ step[1].dist = dist /\ step[1].rescue = 0
    BY ONLY DEF Language!Step
  <1>2. Contains(program, step, at)
    OBVIOUS
  <1> HIDE DEF step
  <1>3. program[at + 1] = step[1]
    BY <1>1, <1>2 DEF Contains
  <1> QED
    BY ONLY <1>1, <1>3 DEF IsStep

LEMMA OptionalShape ==
    ASSUME NEW names, Language!NoTable \in names, NEW body \in ProgramsOver(names),
           NEW program, program = Language!Optional(body)
    PROVE  /\ program \in Seq(StepsOver(names))
           /\ Len(program) = Len(body) + 1
           /\ IsStep(program, 1, "branch", Len(body) + 1)
           /\ Contains(program, body, 1)
           /\ \A i \in 1..Len(program) : i = 1 \/ \E k \in 1..Len(body) : i = 1 + k
  <1> DEFINE first == Language!Step("branch", Language!NoTable, Len(body) + 1)
  <1>1. body \in Seq(StepsOver(names)) /\ Len(body) \in Nat /\ Len(body) + 1 \in Nat
    BY StepOf
  <1>2. "branch" \in Operations
    BY DEF Operations
  <1>3. first \in Seq(StepsOver(names)) /\ Len(first) = 1
    BY <1>1, <1>2, SingleStep
  <1>4. \A at \in Nat : Contains(program, first, at) => IsStep(program, at + 1, "branch", Len(body) + 1)
    BY <1>1, <1>2, StepIn
  <1>5. program = first \o body
    BY DEF Language!Optional
  <1> HIDE DEF first
  <1>6. /\ program \in Seq(StepsOver(names))
        /\ Len(program) = Len(first) + Len(body)
        /\ Contains(program, first, 0)
        /\ Contains(program, body, Len(first))
        /\ \A i \in 1..Len(program) :
              i \in 1..Len(first) \/ \E k \in 1..Len(body) : i = Len(first) + k
    <2>1. Joins(program, StepsOver(names), first, body)
      BY ONLY <1>1, <1>3, <1>5, Joined
    <2> QED
      BY ONLY <2>1 DEF Joins
  <1>7. IsStep(program, 0 + 1, "branch", Len(body) + 1)
    BY <1>4, <1>6
  <1>8. 1 + Len(body) = Len(body) + 1 /\ 0 + 1 = 1 /\ \A i \in 1..1 : i = 1
    BY ONLY <1>1
  <1> QED
    BY ONLY <1>3, <1>6, <1>7, <1>8

LEMMA EachShape ==
    ASSUME NEW names, Language!NoTable \in names, NEW body \in ProgramsOver(names),
           NEW program, program = Language!Each(body)
    PROVE  /\ program \in Seq(StepsOver(names))
           /\ Len(program) = Len(body) + 2
           /\ IsStep(program, 1, "branch", Len(body) + 2)
           /\ Contains(program, body, 1)
           /\ IsStep(program, Len(body) + 2, "again", Len(body))
           /\ \A i \in 1..Len(program) :
                i = 1 \/ i = Len(body) + 2 \/ \E k \in 1..Len(body) : i = 1 + k
  <1> DEFINE first == Language!Step("branch", Language!NoTable, Len(body) + 2)
             last == Language!Step("again", Language!NoTable, Len(body))
             front == first \o body
  <1>1. body \in Seq(StepsOver(names)) /\ Len(body) \in Nat /\ Len(body) + 2 \in Nat
    BY StepOf
  <1>2. "branch" \in Operations /\ "again" \in Operations
    BY DEF Operations
  <1>3. /\ first \in Seq(StepsOver(names)) /\ Len(first) = 1
        /\ last \in Seq(StepsOver(names)) /\ Len(last) = 1
    BY <1>1, <1>2, SingleStep
  <1>4. \A at \in Nat :
          /\ Contains(program, first, at) => IsStep(program, at + 1, "branch", Len(body) + 2)
          /\ Contains(program, last, at) => IsStep(program, at + 1, "again", Len(body))
    BY <1>1, <1>2, StepIn
  <1>5. program = front \o last
    BY DEF Language!Each
  <1> HIDE DEF first, last
  <1>6. /\ front \in Seq(StepsOver(names))
        /\ Len(front) = Len(first) + Len(body)
        /\ Contains(front, first, 0)
        /\ Contains(front, body, Len(first))
        /\ \A i \in 1..Len(front) :
              i \in 1..Len(first) \/ \E k \in 1..Len(body) : i = Len(first) + k
    <2>1. Joins(front, StepsOver(names), first, body)
      BY ONLY <1>1, <1>3, Joined
    <2> HIDE DEF front
    <2> QED
      BY ONLY <2>1 DEF Joins
  <1> HIDE DEF front
  <1>7. /\ program \in Seq(StepsOver(names))
        /\ Len(program) = Len(front) + Len(last)
        /\ Contains(program, front, 0)
        /\ Contains(program, last, Len(front))
        /\ \A i \in 1..Len(program) :
              i \in 1..Len(front) \/ \E k \in 1..Len(last) : i = Len(front) + k
    <2>1. Joins(program, StepsOver(names), front, last)
      BY ONLY <1>3, <1>5, <1>6, Joined
    <2> QED
      BY ONLY <2>1 DEF Joins
  <1>8. Contains(program, first, 0 + 0) /\ Contains(program, body, 0 + 1)
    BY <1>1, <1>3, <1>6, <1>7, Within
  <1>9. Len(front) = Len(body) + 1 /\ Len(program) = Len(body) + 2
    BY ONLY <1>1, <1>3, <1>6, <1>7
  <1>10. /\ 0 + 0 = 0 /\ 0 + 1 = 1 /\ \A i \in 1..1 : i = 1
         /\ Len(body) + 1 \in Nat /\ (Len(body) + 1) + 1 = Len(body) + 2
    BY ONLY <1>1
  <1>11. IsStep(program, 1, "branch", Len(body) + 2)
    BY <1>4, <1>8, <1>10
  <1>12. IsStep(program, Len(body) + 2, "again", Len(body))
    BY <1>4, <1>7, <1>9, <1>10
  <1> QED
    BY ONLY <1>3, <1>6, <1>7, <1>8, <1>9, <1>10, <1>11, <1>12

LEMMA EitherShape ==
    ASSUME NEW names, Language!NoTable \in names, NEW one \in ProgramsOver(names),
           NEW other \in ProgramsOver(names), NEW program, program = Language!Either(one, other)
    PROVE  /\ program \in Seq(StepsOver(names))
           /\ Len(program) = Len(one) + Len(other) + 2
           /\ IsStep(program, 1, "branch", Len(one) + 2)
           /\ Contains(program, one, 1)
           /\ IsStep(program, Len(one) + 2, "jump", Len(other) + 1)
           /\ Contains(program, other, Len(one) + 2)
           /\ \A i \in 1..Len(program) :
                \/ i = 1 \/ i = Len(one) + 2
                \/ \E k \in 1..Len(one) : i = 1 + k
                \/ \E k \in 1..Len(other) : i = Len(one) + 2 + k
  <1> DEFINE first == Language!Step("branch", Language!NoTable, Len(one) + 2)
             skip == Language!Step("jump", Language!NoTable, Len(other) + 1)
             front == first \o one
             middle == front \o skip
  <1>1. /\ one \in Seq(StepsOver(names)) /\ Len(one) \in Nat /\ Len(one) + 2 \in Nat
        /\ other \in Seq(StepsOver(names)) /\ Len(other) \in Nat /\ Len(other) + 1 \in Nat
    BY StepOf
  <1>2. "branch" \in Operations /\ "jump" \in Operations
    BY DEF Operations
  <1>3. /\ first \in Seq(StepsOver(names)) /\ Len(first) = 1
        /\ skip \in Seq(StepsOver(names)) /\ Len(skip) = 1
    BY <1>1, <1>2, SingleStep
  <1>4. \A at \in Nat :
          /\ Contains(program, first, at) => IsStep(program, at + 1, "branch", Len(one) + 2)
          /\ Contains(program, skip, at) => IsStep(program, at + 1, "jump", Len(other) + 1)
    BY <1>1, <1>2, StepIn
  <1>5. program = middle \o other
    BY DEF Language!Either
  <1> HIDE DEF first, skip
  <1>6. /\ front \in Seq(StepsOver(names))
        /\ Len(front) = Len(first) + Len(one)
        /\ Contains(front, first, 0)
        /\ Contains(front, one, Len(first))
        /\ \A i \in 1..Len(front) :
              i \in 1..Len(first) \/ \E k \in 1..Len(one) : i = Len(first) + k
    <2>1. Joins(front, StepsOver(names), first, one)
      BY ONLY <1>1, <1>3, Joined
    <2> HIDE DEF front
    <2> QED
      BY ONLY <2>1 DEF Joins
  <1> HIDE DEF front
  <1>7. /\ middle \in Seq(StepsOver(names))
        /\ Len(middle) = Len(front) + Len(skip)
        /\ Contains(middle, front, 0)
        /\ Contains(middle, skip, Len(front))
        /\ \A i \in 1..Len(middle) :
              i \in 1..Len(front) \/ \E k \in 1..Len(skip) : i = Len(front) + k
    <2>1. Joins(middle, StepsOver(names), front, skip)
      BY ONLY <1>3, <1>6, Joined
    <2> HIDE DEF middle
    <2> QED
      BY ONLY <2>1 DEF Joins
  <1> HIDE DEF middle
  <1>8. /\ program \in Seq(StepsOver(names))
        /\ Len(program) = Len(middle) + Len(other)
        /\ Contains(program, middle, 0)
        /\ Contains(program, other, Len(middle))
        /\ \A i \in 1..Len(program) :
              i \in 1..Len(middle) \/ \E k \in 1..Len(other) : i = Len(middle) + k
    <2>1. Joins(program, StepsOver(names), middle, other)
      BY ONLY <1>1, <1>5, <1>7, Joined
    <2> QED
      BY ONLY <2>1 DEF Joins
  <1>9. /\ Len(front) = Len(one) + 1
        /\ Len(middle) = Len(one) + 2
        /\ Len(program) = Len(one) + Len(other) + 2
        /\ 0 + 0 = 0 /\ 0 + 1 = 1
        /\ 0 + Len(front) = Len(one) + 1
        /\ Len(one) + 1 \in Nat /\ (Len(one) + 1) + 1 = Len(one) + 2
    BY ONLY <1>1, <1>3, <1>6, <1>7, <1>8
  <1>10. Contains(program, front, 0 + 0) /\ Contains(program, skip, 0 + Len(front))
    BY <1>3, <1>6, <1>7, <1>8, <1>9, Within
  <1>11. Contains(program, front, 0)
    BY <1>9, <1>10
  <1>12. Contains(program, first, 0 + 0) /\ Contains(program, one, 0 + 1)
    BY <1>1, <1>3, <1>6, <1>8, <1>11, Within
  <1>13. Contains(program, one, 1)
    BY <1>9, <1>12
  <1>14. IsStep(program, 1, "branch", Len(one) + 2)
    BY <1>4, <1>9, <1>12
  <1>15. IsStep(program, Len(one) + 2, "jump", Len(other) + 1)
    BY <1>4, <1>9, <1>10
  <1>16. ASSUME NEW i \in 1..Len(program)
         PROVE  \/ i = 1 \/ i = Len(one) + 2
                \/ \E k \in 1..Len(one) : i = 1 + k
                \/ \E k \in 1..Len(other) : i = Len(one) + 2 + k
    BY ONLY <1>1, <1>3, <1>6, <1>7, <1>8, <1>9
  <1> QED
    BY ONLY <1>8, <1>9, <1>13, <1>14, <1>15, <1>16

\* Every step keeps what it does and where it leads; its failures are caught.
LEMMA CaughtShape ==
    ASSUME NEW names, NEW body \in ProgramsOver(names), NEW end \in Nat, end > Len(body),
           NEW caught, caught = Language!Caught(body, end)
    PROVE  /\ caught \in Seq(StepsOver(names))
           /\ Len(caught) = Len(body)
           /\ \A i \in 1..Len(body) :
                /\ caught[i].op = body[i].op
                /\ caught[i].dist = body[i].dist
                /\ caught[i].rescue = IF body[i].rescue = 0 THEN end - i ELSE body[i].rescue
  <1>1. /\ Len(body) \in Nat
        /\ DOMAIN body = 1..Len(body)
        /\ \A i \in 1..Len(body) : body[i] \in StepsOver(names)
    BY StepOf
  <1> DEFINE guarded(i) ==
        IF body[i].rescue = 0 THEN [body[i] EXCEPT !.rescue = end - i] ELSE body[i]
  <1>2. caught = [i \in 1..Len(body) |-> guarded(i)]
    BY <1>1 DEF Language!Caught
  <1>3. ASSUME NEW i \in 1..Len(body), NEW step \in StepsOver(names)
        PROVE  LET new == [step EXCEPT !.rescue = end - i] IN
               /\ new \in StepsOver(names)
               /\ new.op = step.op
               /\ new.dist = step.dist
               /\ new.rescue = end - i
    <2>1. end - i \in Nat
      BY <1>1
    <2> DEFINE late == end - i
    <2> HIDE DEF late
    <2>2. LET new == [step EXCEPT !.rescue = late] IN
          new \in StepsOver(names) /\ new.op = step.op /\ new.dist = step.dist /\ new.rescue = late
      BY <2>1 DEF StepsOver, late
    <2> QED
      BY <2>2 DEF late
  <1>4. ASSUME NEW i \in 1..Len(body)
        PROVE  /\ guarded(i) \in StepsOver(names)
               /\ guarded(i).op = body[i].op
               /\ guarded(i).dist = body[i].dist
               /\ guarded(i).rescue = IF body[i].rescue = 0 THEN end - i ELSE body[i].rescue
    BY <1>1, <1>3
  <1> HIDE DEF guarded
  <1>5. caught \in Seq(StepsOver(names)) /\ Len(caught) = Len(body)
    BY <1>1, <1>2, <1>4
  <1>6. \A i \in 1..Len(body) : caught[i] = guarded(i)
    BY <1>2
  <1> QED
    BY <1>4, <1>5, <1>6

LEMMA RecordShape ==
    ASSUME NEW names, Language!NoTable \in names, "collection_runs" \in names,
           NEW record, record = Language!Record
    PROVE  /\ record \in Seq(StepsOver(names))
           /\ Len(record) = 2
           /\ IsStep(record, 1, "record", 0)
           /\ IsStep(record, 2, "commit", 0)
  <1> DEFINE row == Language!Step("record", "collection_runs", 0)
             commit == Language!Commit
  <1>1. "record" \in Operations /\ "commit" \in Operations /\ 0 \in Nat
    BY DEF Operations
  <1>2. /\ row \in Seq(StepsOver(names)) /\ Len(row) = 1
        /\ commit \in Seq(StepsOver(names)) /\ Len(commit) = 1
    BY <1>1, SingleStep DEF Language!Commit
  <1>3. \A at \in Nat :
          /\ Contains(record, row, at) => IsStep(record, at + 1, "record", 0)
          /\ Contains(record, commit, at) => IsStep(record, at + 1, "commit", 0)
    BY StepIn DEF Language!Commit
  <1>4. record = row \o commit
    BY DEF Language!Record
  <1> HIDE DEF row, commit
  <1>5. Joins(record, StepsOver(names), row, commit)
    BY ONLY <1>2, <1>4, Joined
  <1>6. /\ record \in Seq(StepsOver(names)) /\ Len(record) = Len(row) + Len(commit)
        /\ Contains(record, row, 0) /\ Contains(record, commit, Len(row))
    BY ONLY <1>5 DEF Joins
  <1>7. IsStep(record, 0 + 1, "record", 0) /\ IsStep(record, Len(row) + 1, "commit", 0)
    BY <1>2, <1>3, <1>6
  <1>8. Len(row) + 1 = 2 /\ 0 + 1 = 1 /\ Len(record) = 2
    BY ONLY <1>2, <1>6
  <1> QED
    BY <1>6, <1>7, <1>8

\* What is caught goes on behind the jump over the handler.
Rescues(program, body, handler) ==
    /\ Len(program) = Len(body) + Len(handler) + 1
    /\ \A i \in 1..Len(body) :
         /\ program[i].op = body[i].op
         /\ program[i].dist = body[i].dist
         /\ program[i].rescue = IF body[i].rescue = 0 THEN (Len(body) + 2) - i ELSE body[i].rescue
    /\ IsStep(program, Len(body) + 1, "jump", Len(handler) + 1)
    /\ Contains(program, handler, Len(body) + 1)
    /\ \A i \in 1..Len(program) :
         \/ i \in 1..Len(body)
         \/ i = Len(body) + 1
         \/ \E k \in 1..Len(handler) : i = Len(body) + 1 + k

LEMMA RescuedShape ==
    ASSUME NEW names, Language!NoTable \in names, NEW body \in ProgramsOver(names),
           NEW handler \in ProgramsOver(names),
           NEW program, program = Language!Rescued(body, handler)
    PROVE  program \in Seq(StepsOver(names)) /\ Rescues(program, body, handler)
  <1> DEFINE caught == Language!Caught(body, Len(body) + 2)
             skip == Language!Step("jump", Language!NoTable, Len(handler) + 1)
             front == caught \o skip
  <1>1. /\ Len(body) \in Nat /\ Len(body) + 2 \in Nat /\ Len(body) + 2 > Len(body)
        /\ handler \in Seq(StepsOver(names)) /\ Len(handler) \in Nat /\ Len(handler) + 1 \in Nat
    BY StepOf
  <1>2. "jump" \in Operations
    BY DEF Operations
  <1>3. skip \in Seq(StepsOver(names)) /\ Len(skip) = 1
    BY <1>1, <1>2, SingleStep
  <1>4. \A at \in Nat : Contains(program, skip, at) => IsStep(program, at + 1, "jump", Len(handler) + 1)
    BY StepIn
  <1>5. /\ caught \in Seq(StepsOver(names)) /\ Len(caught) = Len(body)
        /\ \A i \in 1..Len(body) :
             /\ caught[i].op = body[i].op
             /\ caught[i].dist = body[i].dist
             /\ caught[i].rescue = IF body[i].rescue = 0 THEN (Len(body) + 2) - i ELSE body[i].rescue
    BY <1>1, CaughtShape
  <1>6. program = front \o handler
    BY DEF Language!Rescued
  <1> HIDE DEF caught, skip
  <1>7. Joins(front, StepsOver(names), caught, skip)
    BY ONLY <1>3, <1>5, Joined
  <1> HIDE DEF front
  <1>8. /\ front \in Seq(StepsOver(names))
        /\ Len(front) = Len(caught) + Len(skip)
        /\ Contains(front, caught, 0)
        /\ Contains(front, skip, Len(caught))
        /\ \A i \in 1..Len(front) :
             i \in 1..Len(caught) \/ \E k \in 1..Len(skip) : i = Len(caught) + k
    BY ONLY <1>7 DEF Joins
  <1>9. Joins(program, StepsOver(names), front, handler)
    BY ONLY <1>1, <1>6, <1>8, Joined
  <1>10. /\ program \in Seq(StepsOver(names))
         /\ Len(program) = Len(front) + Len(handler)
         /\ Contains(program, front, 0)
         /\ Contains(program, handler, Len(front))
         /\ \A i \in 1..Len(program) :
              i \in 1..Len(front) \/ \E k \in 1..Len(handler) : i = Len(front) + k
    BY ONLY <1>9 DEF Joins
  <1>11. /\ Len(front) = Len(body) + 1
         /\ Len(program) = Len(body) + Len(handler) + 1
         /\ 0 + Len(caught) = Len(body) /\ 0 + 0 = 0
    BY ONLY <1>1, <1>3, <1>5, <1>8, <1>10
  <1>12. Contains(program, caught, 0 + 0) /\ Contains(program, skip, 0 + Len(caught))
    BY <1>3, <1>5, <1>8, <1>10, <1>11, <1>1, Within
  <1>13. IsStep(program, Len(body) + 1, "jump", Len(handler) + 1)
    BY <1>1, <1>4, <1>11, <1>12
  <1>14. \A i \in 1..Len(body) : program[i] = caught[i]
    <2>1. \A i \in 1..Len(body) : program[0 + i] = caught[i]
      BY <1>5, <1>11, <1>12 DEF Contains
    <2>2. \A i \in 1..Len(body) : 0 + i = i
      BY ONLY <1>1
    <2> QED
      BY <2>1, <2>2
  <1>15. ASSUME NEW i \in 1..Len(program)
         PROVE  \/ i \in 1..Len(body)
                \/ i = Len(body) + 1
                \/ \E k \in 1..Len(handler) : i = Len(body) + 1 + k
    BY ONLY <1>1, <1>3, <1>5, <1>8, <1>10, <1>11
  <1> QED
    BY ONLY <1>5, <1>10, <1>11, <1>13, <1>14, <1>15 DEF Rescues

LEMMA JoinedSound ==
    ASSUME NEW names, NEW p \in ProgramsOver(names), NEW q \in ProgramsOver(names)
    PROVE  p \o q \in ProgramsOver(names)
  <1> DEFINE program == p \o q
  <1>1. p \in Seq(StepsOver(names)) /\ q \in Seq(StepsOver(names)) /\ Len(p) \in Nat
    BY StepOf
  <1>2. Joins(program, StepsOver(names), p, q)
    BY <1>1, Joined
  <1> HIDE DEF program
  <1>3. /\ program \in Seq(StepsOver(names))
        /\ Contains(program, p, 0)
        /\ Contains(program, q, Len(p))
        /\ \A i \in 1..Len(program) : i \in 1..Len(p) \/ \E k \in 1..Len(q) : i = Len(p) + k
    BY <1>2 DEF Joins
  <1>4. ASSUME NEW i \in 1..Len(p) PROVE Stays(program, i)
    <2>1. Stays(program, 0 + i)
      BY <1>3, PartStays
    <2> QED
      BY <1>1, <2>1
  <1>5. ASSUME NEW k \in 1..Len(q) PROVE Stays(program, Len(p) + k)
    BY <1>1, <1>3, PartStays
  <1>6. \A i \in 1..Len(program) : Stays(program, i)
    BY <1>3, <1>4, <1>5
  <1>7. program \in ProgramsOver(names)
    BY <1>3, <1>6, AllStay
  <1> QED
    BY <1>7 DEF program

LEMMA OptionalSound ==
    ASSUME NEW names, Language!NoTable \in names, NEW body \in ProgramsOver(names)
    PROVE  Language!Optional(body) \in ProgramsOver(names)
  <1> DEFINE program == Language!Optional(body)
  <1>1. /\ program \in Seq(StepsOver(names))
        /\ Len(program) = Len(body) + 1
        /\ IsStep(program, 1, "branch", Len(body) + 1)
        /\ Contains(program, body, 1)
        /\ \A i \in 1..Len(program) : i = 1 \/ \E k \in 1..Len(body) : i = 1 + k
    BY OptionalShape
  <1> HIDE DEF program
  <1>2. Len(body) \in Nat
    BY StepOf
  <1>3. Stays(program, 1)
    BY <1>1, <1>2 DEF Stays, IsStep
  <1>4. ASSUME NEW k \in 1..Len(body) PROVE Stays(program, 1 + k)
    BY <1>1, PartStays
  <1>5. \A i \in 1..Len(program) : Stays(program, i)
    BY <1>1, <1>3, <1>4
  <1>6. program \in ProgramsOver(names)
    BY <1>1, <1>5, AllStay
  <1> QED
    BY <1>6 DEF program

LEMMA EachSound ==
    ASSUME NEW names, Language!NoTable \in names, NEW body \in ProgramsOver(names)
    PROVE  Language!Each(body) \in ProgramsOver(names)
  <1> DEFINE program == Language!Each(body)
  <1>1. /\ program \in Seq(StepsOver(names))
        /\ Len(program) = Len(body) + 2
        /\ IsStep(program, 1, "branch", Len(body) + 2)
        /\ Contains(program, body, 1)
        /\ IsStep(program, Len(body) + 2, "again", Len(body))
        /\ \A i \in 1..Len(program) :
             i = 1 \/ i = Len(body) + 2 \/ \E k \in 1..Len(body) : i = 1 + k
    BY EachShape
  <1> HIDE DEF program
  <1>2. Len(body) \in Nat
    BY StepOf
  <1>3. Stays(program, 1) /\ Stays(program, Len(body) + 2)
    BY <1>1, <1>2 DEF Stays, IsStep
  <1>4. ASSUME NEW k \in 1..Len(body) PROVE Stays(program, 1 + k)
    BY <1>1, PartStays
  <1>5. \A i \in 1..Len(program) : Stays(program, i)
    BY <1>1, <1>3, <1>4
  <1>6. program \in ProgramsOver(names)
    BY <1>1, <1>5, AllStay
  <1> QED
    BY <1>6 DEF program

LEMMA EitherSound ==
    ASSUME NEW names, Language!NoTable \in names, NEW one \in ProgramsOver(names),
           NEW other \in ProgramsOver(names)
    PROVE  Language!Either(one, other) \in ProgramsOver(names)
  <1> DEFINE program == Language!Either(one, other)
  <1>1. /\ program \in Seq(StepsOver(names))
        /\ Len(program) = Len(one) + Len(other) + 2
        /\ IsStep(program, 1, "branch", Len(one) + 2)
        /\ Contains(program, one, 1)
        /\ IsStep(program, Len(one) + 2, "jump", Len(other) + 1)
        /\ Contains(program, other, Len(one) + 2)
        /\ \A i \in 1..Len(program) :
             \/ i = 1 \/ i = Len(one) + 2
             \/ \E k \in 1..Len(one) : i = 1 + k
             \/ \E k \in 1..Len(other) : i = Len(one) + 2 + k
    BY EitherShape
  <1> HIDE DEF program
  <1>2. Len(one) \in Nat /\ Len(other) \in Nat
    BY StepOf
  <1>3. Stays(program, 1) /\ Stays(program, Len(one) + 2)
    BY <1>1, <1>2 DEF Stays, IsStep
  <1>4. ASSUME NEW k \in 1..Len(one) PROVE Stays(program, 1 + k)
    BY <1>1, PartStays
  <1>5. ASSUME NEW k \in 1..Len(other) PROVE Stays(program, Len(one) + 2 + k)
    <2>1. Len(one) + 2 \in Nat
      BY <1>2
    <2> QED
      BY <1>1, <2>1, PartStays
  <1>6. \A i \in 1..Len(program) : Stays(program, i)
    BY <1>1, <1>3, <1>4, <1>5
  <1>7. program \in ProgramsOver(names)
    BY <1>1, <1>6, AllStay
  <1> QED
    BY <1>7 DEF program

LEMMA AttemptSound ==
    ASSUME NEW names, NEW body \in ProgramsOver(names)
    PROVE  Language!Attempt(body) \in ProgramsOver(names)
  <1> DEFINE program == Language!Attempt(body)
  <1>1. /\ Len(body) \in Nat
        /\ Len(body) + 1 \in Nat
        /\ Len(body) + 1 > Len(body)
        /\ \A i \in 1..Len(body) : Stays(body, i) /\ body[i].rescue \in Nat
    BY StepOf
  <1>2. /\ program \in Seq(StepsOver(names))
        /\ Len(program) = Len(body)
        /\ \A i \in 1..Len(body) :
             /\ program[i].op = body[i].op
             /\ program[i].dist = body[i].dist
             /\ program[i].rescue =
                 IF body[i].rescue = 0 THEN (Len(body) + 1) - i ELSE body[i].rescue
    BY <1>1, CaughtShape DEF Language!Attempt
  <1> HIDE DEF program
  <1>3. ASSUME NEW i \in 1..Len(body) PROVE Stays(program, i)
    BY <1>1, <1>2 DEF Stays
  <1>4. program \in ProgramsOver(names)
    BY <1>2, <1>3, AllStay
  <1> QED
    BY <1>4 DEF program

LEMMA RescuedSound ==
    ASSUME NEW names, Language!NoTable \in names, NEW body \in ProgramsOver(names),
           NEW handler \in ProgramsOver(names)
    PROVE  Language!Rescued(body, handler) \in ProgramsOver(names)
  <1> DEFINE program == Language!Rescued(body, handler)
  <1>1. program \in Seq(StepsOver(names)) /\ Rescues(program, body, handler)
    BY RescuedShape
  <1> HIDE DEF program
  <1>2. /\ Len(program) = Len(body) + Len(handler) + 1
        /\ \A i \in 1..Len(body) :
             /\ program[i].op = body[i].op
             /\ program[i].dist = body[i].dist
             /\ program[i].rescue =
                 IF body[i].rescue = 0 THEN (Len(body) + 2) - i ELSE body[i].rescue
        /\ IsStep(program, Len(body) + 1, "jump", Len(handler) + 1)
        /\ Contains(program, handler, Len(body) + 1)
        /\ \A i \in 1..Len(program) :
             \/ i \in 1..Len(body)
             \/ i = Len(body) + 1
             \/ \E k \in 1..Len(handler) : i = Len(body) + 1 + k
    BY ONLY <1>1 DEF Rescues
  <1>3. /\ Len(body) \in Nat
        /\ Len(handler) \in Nat
        /\ \A i \in 1..Len(body) :
             Stays(body, i) /\ body[i].rescue \in Nat /\ body[i].dist \in Nat
    BY StepOf
  <1>4. ASSUME NEW i \in 1..Len(body) PROVE Stays(program, i)
    <2>1. Stays(body, i) /\ body[i].rescue \in Nat /\ body[i].dist \in Nat
      BY <1>3
    <2>2. i + program[i].rescue <= Len(program) + 1
      <3> DEFINE rescue == body[i].rescue
      <3>1. /\ program[i].rescue = IF rescue = 0 THEN (Len(body) + 2) - i ELSE rescue
            /\ rescue \in Nat
            /\ i + rescue <= Len(body) + 1
        BY <1>2, <2>1 DEF Stays
      <3> HIDE DEF rescue
      <3> QED
        BY ONLY <1>2, <1>3, <3>1, i \in 1..Len(body)
    <2>3. /\ body[i].op \in {"branch", "jump"} => i + body[i].dist <= Len(body) + 1
          /\ body[i].op = "again" => body[i].dist < i
      BY <2>1 DEF Stays
    <2>4. Len(body) + 1 <= Len(program) + 1
      BY <1>1, <1>2, <1>3
    <2>5. program[i].op \in {"branch", "jump"} => i + program[i].dist <= Len(program) + 1
      <3> DEFINE dist == body[i].dist
      <3>1. program[i].dist = dist /\ program[i].op = body[i].op /\ dist \in Nat
        BY <1>1, <1>2, <2>1
      <3>2. body[i].op \in {"branch", "jump"} => i + dist <= Len(body) + 1
        BY <2>3
      <3> HIDE DEF dist
      <3> QED
        BY <1>1, <1>2, <1>3, <2>4, <3>1, <3>2
    <2> QED
      BY <1>1, <1>2, <2>2, <2>3, <2>5 DEF Stays
  <1>5. Stays(program, Len(body) + 1)
    BY <1>1, <1>2, <1>3 DEF Stays, IsStep
  <1>6. ASSUME NEW k \in 1..Len(handler) PROVE Stays(program, Len(body) + 1 + k)
    <2>1. Len(body) + 1 \in Nat
      BY <1>3
    <2> QED
      BY <1>1, <1>2, <2>1, PartStays
  <1>7. \A i \in 1..Len(program) : Stays(program, i)
    BY <1>1, <1>2, <1>4, <1>5, <1>6
  <1>8. program \in ProgramsOver(names)
    BY <1>1, <1>2, <1>7, AllStay
  <1> QED
    BY <1>8 DEF program

LEMMA RecordSound ==
    ASSUME NEW names, Language!NoTable \in names, "collection_runs" \in names
    PROVE  /\ Language!Record \in ProgramsOver(names)
           /\ Language!Record \o Language!Raise \in ProgramsOver(names)
  <1>1. /\ "raise" \in Operations /\ 0 \in Nat
    BY DEF Operations
  <1> DEFINE record == Language!Record
             raise == Language!Raise
  <1>2. /\ record \in Seq(StepsOver(names))
        /\ Len(record) = 2
        /\ IsStep(record, 1, "record", 0)
        /\ IsStep(record, 2, "commit", 0)
    BY RecordShape
  <1>3. /\ raise \in Seq(StepsOver(names)) /\ Len(raise) = 1
    BY <1>1, SingleStep DEF Language!Raise
  <1>4. raise[1].op = "raise" /\ raise[1].dist = 0 /\ raise[1].rescue = 0
    BY ONLY DEF Language!Raise, Language!Step
  <1> HIDE DEF record, raise
  <1>5. Stays(record, 1) /\ Stays(record, 2)
    BY <1>2 DEF Stays, IsStep
  <1>6. \A i \in 1..Len(record) : i = 1 \/ i = 2
    BY ONLY <1>2
  <1>7. record \in ProgramsOver(names)
    BY <1>2, <1>5, <1>6, AllStay
  <1>8. Stays(raise, 1)
    BY <1>3, <1>4 DEF Stays
  <1>9. \A i \in 1..Len(raise) : i = 1
    BY ONLY <1>3
  <1>10. raise \in ProgramsOver(names)
    BY <1>3, <1>8, <1>9, AllStay
  <1> QED
    BY <1>7, <1>10, JoinedSound DEF record, raise

\* Whatever is built from programs whose jumps and handlers stay inside is such
\* a program: in sequence, under an if, in a loop, in a try, recorded by
\* _run_collection_job or in a finally.
THEOREM ProgramsStayWellFormed ==
    \A names : {Language!NoTable, "collection_runs"} \subseteq names =>
        \A p, q \in ProgramsOver(names) :
            {p \o q, Language!Optional(p), Language!Each(p), Language!Either(p, q),
             Language!Attempt(p), Language!Rescued(p, q), Language!Recorded(p),
             Language!Noted(p)} \subseteq ProgramsOver(names)
  <1> SUFFICES ASSUME NEW names, Language!NoTable \in names, "collection_runs" \in names,
                      NEW p \in ProgramsOver(names), NEW q \in ProgramsOver(names)
               PROVE  {p \o q, Language!Optional(p), Language!Each(p), Language!Either(p, q),
                       Language!Attempt(p), Language!Rescued(p, q), Language!Recorded(p),
                       Language!Noted(p)} \subseteq ProgramsOver(names)
    OBVIOUS
  <1>1. Language!Recorded(p) \in ProgramsOver(names)
    BY RecordSound, RescuedSound, JoinedSound DEF Language!Recorded
  <1>2. Language!Noted(p) \in ProgramsOver(names)
    BY RecordSound, AttemptSound, JoinedSound DEF Language!Noted
  <1> QED
    BY <1>1, <1>2, JoinedSound, OptionalSound, EachSound, EitherSound, AttemptSound, RescuedSound

------------------------------------------------------------------------------
(***************************************************************************)
(* Giving the lock back: which programs keep that rule.                    *)
(***************************************************************************)
\* A step lets the lock be held at none but these places.
Flows(program, places, i) ==
    /\ program[i].op \in Writes \/ (i \in places /\ program[i].op # "commit") =>
        Normally(program, i) \subseteq places
    /\ program[i].op \in Refusable \/ (i \in places /\ program[i].op \in Failing) =>
        Handler(program, i) \in places

LEMMA AllFlow ==
    ASSUME NEW names, NEW program \in ProgramsOver(names), NEW places
    PROVE  GivesBack(program, places) <=>
            /\ \A i \in 1..Len(program) : Flows(program, places, i)
            /\ Len(program) + 1 \notin places
  <1>1. DOMAIN program = 1..Len(program)
    BY StepOf
  <1> QED
    BY <1>1 DEF GivesBack, HoldsDespiteFailures, HoldsAt, Flows, PlaceAfter

\* Where a step leads is a place of its program or right after it.
LEMMA NormallyStays ==
    ASSUME NEW names, NEW program \in ProgramsOver(names), NEW i \in 1..Len(program)
    PROVE  Normally(program, i) \subseteq 1..(Len(program) + 1)
  <1> DEFINE step == program[i]
  <1>1. /\ Len(program) \in Nat
        /\ step.dist \in Nat
        /\ step.op \in {"branch", "jump"} => i + step.dist <= Len(program) + 1
        /\ step.op = "again" => step.dist < i
    BY StepOf DEF Stays
  <1>2. Normally(program, i) =
          CASE step.op = "jump" -> {i + step.dist}
            [] step.op = "branch" -> {i + 1, i + step.dist}
            [] step.op = "again" -> {i + 1, i - step.dist}
            [] step.op = "raise" -> {}
            [] OTHER -> {i + 1}
    BY DEF Normally
  <1> HIDE DEF step
  <1>3. i + 1 \in 1..(Len(program) + 1)
    BY ONLY <1>1, i \in 1..Len(program)
  <1>4. step.op \in {"branch", "jump"} => i + step.dist \in 1..(Len(program) + 1)
    BY ONLY <1>1, i \in 1..Len(program)
  <1>5. step.op = "again" => i - step.dist \in 1..(Len(program) + 1)
    BY ONLY <1>1, i \in 1..Len(program)
  <1> QED
    BY ONLY <1>2, <1>3, <1>4, <1>5

\* A step of a part leads where it leads in the part.
LEMMA NormallyMoves ==
    ASSUME NEW names, NEW part \in ProgramsOver(names), NEW program, NEW at \in Nat,
           NEW i \in 1..Len(part), program[at + i] = part[i]
    PROVE  \A there \in Normally(program, at + i) : there - at \in Normally(part, i)
  <1> DEFINE step == part[i]
  <1>1. step.dist \in Nat /\ Len(part) \in Nat
    BY StepOf
  <1>2. program[at + i] = step
    OBVIOUS
  <1>3. Normally(part, i) =
          CASE step.op = "jump" -> {i + step.dist}
            [] step.op = "branch" -> {i + 1, i + step.dist}
            [] step.op = "again" -> {i + 1, i - step.dist}
            [] step.op = "raise" -> {}
            [] OTHER -> {i + 1}
    BY DEF Normally
  <1>4. Normally(program, at + i) =
          CASE step.op = "jump" -> {(at + i) + step.dist}
            [] step.op = "branch" -> {(at + i) + 1, (at + i) + step.dist}
            [] step.op = "again" -> {(at + i) + 1, (at + i) - step.dist}
            [] step.op = "raise" -> {}
            [] OTHER -> {(at + i) + 1}
    BY <1>2 DEF Normally
  <1> HIDE DEF step
  <1>5. /\ ((at + i) + 1) - at = i + 1
        /\ ((at + i) + step.dist) - at = i + step.dist
        /\ ((at + i) - step.dist) - at = i - step.dist
    BY ONLY <1>1, at \in Nat, i \in 1..Len(part)
  <1> QED
    BY ONLY <1>3, <1>4, <1>5

\* A part that gives the lock back does so wherever it stands.
LEMMA PartFlows ==
    ASSUME NEW names, NEW part \in ProgramsOver(names), NEW held, GivesBack(part, held),
           NEW program \in ProgramsOver(names), NEW at \in Nat, Contains(program, part, at), NEW places,
           \A k \in 1..Len(part) : at + k \in places <=> k \in held,
           NEW i \in 1..Len(part)
    PROVE  Flows(program, places, at + i)
  <1>1. /\ Len(part) \in Nat /\ Len(program) \in Nat
        /\ part[i].rescue \in Nat
        /\ part[i].dist \in Nat
        /\ i + part[i].rescue <= Len(part) + 1
    BY StepOf DEF Stays
  <1>2. program[at + i] = part[i] /\ at + Len(part) <= Len(program)
    BY DEF Contains
  <1>3. Flows(part, held, i) /\ Len(part) + 1 \notin held
    BY AllFlow
  <1>4. ASSUME NEW k \in 1..(Len(part) + 1), k \in held PROVE at + k \in places
    <2>1. k # Len(part) + 1
      BY <1>3, <1>4
    <2>2. k \in 1..Len(part)
      BY ONLY <1>1, <2>1, k \in 1..(Len(part) + 1)
    <2> QED
      BY <1>4, <2>2
  <1>5. ASSUME Normally(part, i) \subseteq held PROVE Normally(program, at + i) \subseteq places
    <2> SUFFICES ASSUME NEW there \in Normally(program, at + i) PROVE there \in places
      OBVIOUS
    <2>1. there - at \in Normally(part, i)
      BY <1>2, NormallyMoves
    <2>2. there - at \in 1..(Len(part) + 1)
      BY <2>1, NormallyStays
    <2>3. at + (there - at) \in places
      BY <1>4, <1>5, <2>1, <2>2
    <2>4. there \in Nat
      <3>1. at + i \in 1..Len(program)
        BY ONLY <1>1, <1>2, at \in Nat, i \in 1..Len(part)
      <3> QED
        BY <1>1, <3>1, NormallyStays
    <2> QED
      BY ONLY <2>3, <2>4, at \in Nat
  <1>6. ASSUME Handler(part, i) \in held PROVE Handler(program, at + i) \in places
    <2>1. part[i].rescue # 0
      BY <1>3, <1>6 DEF Handler, PlaceAfter
    <2>2. i + part[i].rescue \in held
      BY <1>6, <2>1 DEF Handler
    <2> DEFINE rescue == part[i].rescue
    <2>3. Handler(program, at + i) = (at + i) + rescue
      BY <1>2, <2>1 DEF Handler
    <2>4. rescue \in Nat /\ i + rescue <= Len(part) + 1 /\ i + rescue \in held
      BY <1>1, <2>2
    <2> HIDE DEF rescue
    <2>5. i + rescue \in 1..(Len(part) + 1) /\ at + (i + rescue) = (at + i) + rescue
      BY ONLY <1>1, <2>4, at \in Nat, i \in 1..Len(part)
    <2> QED
      BY <1>4, <2>3, <2>4, <2>5
  <1>7. at + i \in places <=> i \in held
    OBVIOUS
  <1> QED
    BY <1>2, <1>3, <1>5, <1>6, <1>7 DEF Flows

\* A program gives the lock back before it ends, whatever fails.
ReturnsLock(program) == \E places : GivesBack(program, places)

\* Where the lock is held in a part, as places of the whole.
HeldThere(held, part, at) == {at + k : k \in {i \in 1..Len(part) : i \in held}}

LEMMA PlacesThere ==
    ASSUME NEW held, NEW part, Len(part) \in Nat, NEW at \in Nat
    PROVE  /\ \A k \in 1..Len(part) : at + k \in HeldThere(held, part, at) <=> k \in held
           /\ HeldThere(held, part, at) \subseteq (at + 1)..(at + Len(part))
  <1>1. ASSUME NEW k \in 1..Len(part) PROVE at + k \in HeldThere(held, part, at) <=> k \in held
    <2>1. \A i \in 1..Len(part) : at + i = at + k => i = k
      OBVIOUS
    <2> QED
      BY <2>1 DEF HeldThere
  <1>2. HeldThere(held, part, at) \subseteq (at + 1)..(at + Len(part))
    BY DEF HeldThere
  <1> QED
    BY <1>1, <1>2

LEMMA JoinedReturns ==
    ASSUME NEW names, NEW p \in ProgramsOver(names), NEW q \in ProgramsOver(names),
           ReturnsLock(p), ReturnsLock(q)
    PROVE  ReturnsLock(p \o q)
  <1> DEFINE program == p \o q
  <1>1. /\ p \in Seq(StepsOver(names)) /\ Len(p) \in Nat
        /\ q \in Seq(StepsOver(names)) /\ Len(q) \in Nat
    BY StepOf
  <1>2. Joins(program, StepsOver(names), p, q) /\ program \in ProgramsOver(names)
    BY <1>1, Joined, JoinedSound
  <1> HIDE DEF program
  <1>3. /\ Len(program) = Len(p) + Len(q)
        /\ Contains(program, p, 0)
        /\ Contains(program, q, Len(p))
        /\ \A i \in 1..Len(program) : i \in 1..Len(p) \/ \E k \in 1..Len(q) : i = Len(p) + k
    BY <1>2 DEF Joins
  <1>4. PICK one, two : GivesBack(p, one) /\ GivesBack(q, two)
    BY DEF ReturnsLock
  <1> DEFINE first == HeldThere(one, p, 0)
             second == HeldThere(two, q, Len(p))
             places == first \cup second
  <1>5. /\ \A k \in 1..Len(p) : 0 + k \in first <=> k \in one
        /\ \A k \in 1..Len(q) : Len(p) + k \in second <=> k \in two
        /\ first \subseteq (0 + 1)..(0 + Len(p))
        /\ second \subseteq (Len(p) + 1)..(Len(p) + Len(q))
    BY <1>1, PlacesThere
  <1> HIDE DEF first, second
  <1>6. /\ \A k \in 1..Len(p) : 0 + k \in places <=> k \in one
        /\ \A k \in 1..Len(q) : Len(p) + k \in places <=> k \in two
        /\ Len(program) + 1 \notin places
    BY ONLY <1>1, <1>3, <1>5
  <1> HIDE DEF places
  <1>7. ASSUME NEW i \in 1..Len(p) PROVE Flows(program, places, i)
    <2>1. Flows(program, places, 0 + i)
      BY <1>2, <1>3, <1>4, <1>6, PartFlows
    <2> QED
      BY <1>1, <2>1
  <1>8. ASSUME NEW k \in 1..Len(q) PROVE Flows(program, places, Len(p) + k)
    BY <1>1, <1>2, <1>3, <1>4, <1>6, PartFlows
  <1>9. GivesBack(program, places)
    BY <1>2, <1>3, <1>6, <1>7, <1>8, AllFlow
  <1> QED
    BY <1>9 DEF ReturnsLock, program

\* A branch, a jump and the end of a loop neither take the lock nor fail.
LEMMA ControlFlows ==
    ASSUME NEW program, NEW places, NEW i, NEW op \in {"branch", "jump", "again"}, NEW dist,
           IsStep(program, i, op, dist), i \notin places
    PROVE  Flows(program, places, i)
  BY DEF Flows, IsStep, Writes, Refusable

LEMMA OptionalReturns ==
    ASSUME NEW names, Language!NoTable \in names, NEW body \in ProgramsOver(names),
           ReturnsLock(body)
    PROVE  ReturnsLock(Language!Optional(body))
  <1> DEFINE program == Language!Optional(body)
  <1>1. /\ program \in ProgramsOver(names)
        /\ Len(program) = Len(body) + 1
        /\ IsStep(program, 1, "branch", Len(body) + 1)
        /\ Contains(program, body, 1)
        /\ \A i \in 1..Len(program) : i = 1 \/ \E k \in 1..Len(body) : i = 1 + k
    BY OptionalShape, OptionalSound
  <1> HIDE DEF program
  <1>2. Len(body) \in Nat
    BY StepOf
  <1>3. PICK held : GivesBack(body, held)
    BY DEF ReturnsLock
  <1> DEFINE places == HeldThere(held, body, 1)
  <1>4. /\ \A k \in 1..Len(body) : 1 + k \in places <=> k \in held
        /\ places \subseteq (1 + 1)..(1 + Len(body))
    BY <1>2, PlacesThere
  <1> HIDE DEF places
  <1>5. 1 \notin places /\ Len(program) + 1 \notin places
    BY ONLY <1>1, <1>2, <1>4
  <1>6. Flows(program, places, 1)
    BY <1>1, <1>5, ControlFlows
  <1>7. ASSUME NEW k \in 1..Len(body) PROVE Flows(program, places, 1 + k)
    BY <1>1, <1>3, <1>4, PartFlows
  <1>8. GivesBack(program, places)
    BY <1>1, <1>5, <1>6, <1>7, AllFlow
  <1> QED
    BY <1>8 DEF ReturnsLock, program

LEMMA EachReturns ==
    ASSUME NEW names, Language!NoTable \in names, NEW body \in ProgramsOver(names),
           ReturnsLock(body)
    PROVE  ReturnsLock(Language!Each(body))
  <1> DEFINE program == Language!Each(body)
  <1>1. /\ program \in ProgramsOver(names)
        /\ Len(program) = Len(body) + 2
        /\ IsStep(program, 1, "branch", Len(body) + 2)
        /\ Contains(program, body, 1)
        /\ IsStep(program, Len(body) + 2, "again", Len(body))
        /\ \A i \in 1..Len(program) :
             i = 1 \/ i = Len(body) + 2 \/ \E k \in 1..Len(body) : i = 1 + k
    BY EachShape, EachSound
  <1> HIDE DEF program
  <1>2. Len(body) \in Nat
    BY StepOf
  <1>3. PICK held : GivesBack(body, held)
    BY DEF ReturnsLock
  <1> DEFINE places == HeldThere(held, body, 1)
  <1>4. /\ \A k \in 1..Len(body) : 1 + k \in places <=> k \in held
        /\ places \subseteq (1 + 1)..(1 + Len(body))
    BY <1>2, PlacesThere
  <1> HIDE DEF places
  <1>5. 1 \notin places /\ Len(body) + 2 \notin places /\ Len(program) + 1 \notin places
    BY ONLY <1>1, <1>2, <1>4
  <1>6. Flows(program, places, 1) /\ Flows(program, places, Len(body) + 2)
    BY <1>1, <1>5, ControlFlows
  <1>7. ASSUME NEW k \in 1..Len(body) PROVE Flows(program, places, 1 + k)
    BY <1>1, <1>3, <1>4, PartFlows
  <1>8. GivesBack(program, places)
    BY <1>1, <1>5, <1>6, <1>7, AllFlow
  <1> QED
    BY <1>8 DEF ReturnsLock, program

LEMMA EitherReturns ==
    ASSUME NEW names, Language!NoTable \in names, NEW one \in ProgramsOver(names),
           NEW other \in ProgramsOver(names), ReturnsLock(one), ReturnsLock(other)
    PROVE  ReturnsLock(Language!Either(one, other))
  <1> DEFINE program == Language!Either(one, other)
  <1>1. /\ program \in ProgramsOver(names)
        /\ Len(program) = Len(one) + Len(other) + 2
        /\ IsStep(program, 1, "branch", Len(one) + 2)
        /\ Contains(program, one, 1)
        /\ IsStep(program, Len(one) + 2, "jump", Len(other) + 1)
        /\ Contains(program, other, Len(one) + 2)
        /\ \A i \in 1..Len(program) :
             \/ i = 1 \/ i = Len(one) + 2
             \/ \E k \in 1..Len(one) : i = 1 + k
             \/ \E k \in 1..Len(other) : i = Len(one) + 2 + k
    BY EitherShape, EitherSound
  <1> HIDE DEF program
  <1>2. Len(one) \in Nat /\ Len(other) \in Nat /\ Len(one) + 2 \in Nat
    BY StepOf
  <1>3. PICK here, there : GivesBack(one, here) /\ GivesBack(other, there)
    BY DEF ReturnsLock
  <1> DEFINE first == HeldThere(here, one, 1)
             second == HeldThere(there, other, Len(one) + 2)
             places == first \cup second
  <1>4. /\ \A k \in 1..Len(one) : 1 + k \in first <=> k \in here
        /\ \A k \in 1..Len(other) : (Len(one) + 2) + k \in second <=> k \in there
        /\ first \subseteq (1 + 1)..(1 + Len(one))
        /\ second \subseteq ((Len(one) + 2) + 1)..((Len(one) + 2) + Len(other))
    BY <1>2, PlacesThere
  <1> HIDE DEF first, second
  <1>5. /\ \A k \in 1..Len(one) : 1 + k \in places <=> k \in here
        /\ \A k \in 1..Len(other) : (Len(one) + 2) + k \in places <=> k \in there
        /\ 1 \notin places /\ Len(one) + 2 \notin places /\ Len(program) + 1 \notin places
    BY ONLY <1>1, <1>2, <1>4
  <1> HIDE DEF places
  <1>6. Flows(program, places, 1) /\ Flows(program, places, Len(one) + 2)
    BY <1>1, <1>5, ControlFlows
  <1>7. ASSUME NEW k \in 1..Len(one) PROVE Flows(program, places, 1 + k)
    BY <1>1, <1>3, <1>5, PartFlows
  <1>8. ASSUME NEW k \in 1..Len(other) PROVE Flows(program, places, (Len(one) + 2) + k)
    BY <1>1, <1>2, <1>3, <1>5, PartFlows
  <1>9. \A i \in 1..Len(program) : Flows(program, places, i)
    BY ONLY <1>1, <1>6, <1>7, <1>8
  <1>10. GivesBack(program, places)
    BY <1>1, <1>5, <1>9, AllFlow
  <1> QED
    BY <1>10 DEF ReturnsLock, program

\* The steps that record a run.
LEMMA StepMoves ==
    ASSUME NEW program, NEW part, NEW at \in Nat, Contains(program, part, at),
           NEW i \in 1..Len(part), NEW op, NEW dist, IsStep(part, i, op, dist)
    PROVE  IsStep(program, at + i, op, dist)
  BY DEF Contains, IsStep

LEMMA RecordAndRaiseShape ==
    ASSUME NEW names, Language!NoTable \in names, "collection_runs" \in names,
           NEW handler, handler = Language!Record \o Language!Raise
    PROVE  /\ Len(handler) = 3
           /\ IsStep(handler, 1, "record", 0)
           /\ IsStep(handler, 2, "commit", 0)
           /\ IsStep(handler, 3, "raise", 0)
  <1> DEFINE record == Language!Record
             raise == Language!Raise
  <1>1. "raise" \in Operations /\ 0 \in Nat
    BY DEF Operations
  <1>2. raise \in Seq(StepsOver(names)) /\ Len(raise) = 1
    BY <1>1, SingleStep DEF Language!Raise
  <1>3. \A at \in Nat : Contains(handler, raise, at) => IsStep(handler, at + 1, "raise", 0)
    BY StepIn DEF Language!Raise
  <1>4. /\ record \in Seq(StepsOver(names)) /\ Len(record) = 2
        /\ IsStep(record, 1, "record", 0) /\ IsStep(record, 2, "commit", 0)
    BY RecordShape
  <1> HIDE DEF record, raise
  <1>5. Joins(handler, StepsOver(names), record, raise)
    BY <1>2, <1>4, Joined DEF record, raise
  <1>6. /\ Len(handler) = Len(record) + Len(raise)
        /\ Contains(handler, record, 0)
        /\ Contains(handler, raise, Len(record))
    BY ONLY <1>5 DEF Joins
  <1>7. IsStep(handler, 0 + 1, "record", 0) /\ IsStep(handler, 0 + 2, "commit", 0)
    <2>1. 1 \in 1..Len(record) /\ 2 \in 1..Len(record) /\ 0 \in Nat
      BY ONLY <1>4
    <2> QED
      BY ONLY <1>4, <1>6, <2>1, StepMoves
  <1>8. IsStep(handler, 2 + 1, "raise", 0)
    BY <1>3, <1>4, <1>6
  <1>9. Len(handler) = 3
    BY ONLY <1>2, <1>4, <1>6
  <1> QED
    BY <1>7, <1>8, <1>9

LEMMA RecordedShape ==
    ASSUME NEW names, Language!NoTable \in names, "collection_runs" \in names,
           NEW body \in ProgramsOver(names), NEW program, program = Language!Recorded(body)
    PROVE  /\ program \in ProgramsOver(names)
           /\ Len(program) = Len(body) + 6
           /\ \A i \in 1..Len(body) :
                /\ program[i].op = body[i].op
                /\ program[i].dist = body[i].dist
                /\ program[i].rescue =
                    IF body[i].rescue = 0 THEN (Len(body) + 2) - i ELSE body[i].rescue
           /\ IsStep(program, Len(body) + 1, "jump", 4)
           /\ IsStep(program, Len(body) + 2, "record", 0)
           /\ IsStep(program, Len(body) + 3, "commit", 0)
           /\ IsStep(program, Len(body) + 4, "raise", 0)
           /\ IsStep(program, Len(body) + 5, "record", 0)
           /\ IsStep(program, Len(body) + 6, "commit", 0)
  <1> DEFINE handler == Language!Record \o Language!Raise
             record == Language!Record
             front == Language!Rescued(body, handler)
  <1>1. /\ handler \in ProgramsOver(names) /\ Len(handler) = 3
        /\ IsStep(handler, 1, "record", 0)
        /\ IsStep(handler, 2, "commit", 0)
        /\ IsStep(handler, 3, "raise", 0)
    BY RecordSound, RecordAndRaiseShape
  <1>2. program = front \o record
    BY DEF Language!Recorded
  <1>3. program \in ProgramsOver(names)
    BY RecordSound, RescuedSound, JoinedSound DEF Language!Recorded
  <1>4. /\ record \in Seq(StepsOver(names)) /\ Len(record) = 2
        /\ IsStep(record, 1, "record", 0) /\ IsStep(record, 2, "commit", 0)
    BY RecordShape
  <1> HIDE DEF handler, record
  <1>5. front \in Seq(StepsOver(names)) /\ Rescues(front, body, handler)
    BY <1>1, RescuedShape
  <1> HIDE DEF front
  <1>6. /\ Len(front) = Len(body) + Len(handler) + 1
        /\ \A i \in 1..Len(body) :
             /\ front[i].op = body[i].op
             /\ front[i].dist = body[i].dist
             /\ front[i].rescue =
                 IF body[i].rescue = 0 THEN (Len(body) + 2) - i ELSE body[i].rescue
        /\ IsStep(front, Len(body) + 1, "jump", Len(handler) + 1)
        /\ Contains(front, handler, Len(body) + 1)
    BY ONLY <1>5 DEF Rescues
  <1>7. Joins(program, StepsOver(names), front, record)
    BY ONLY <1>2, <1>4, <1>5, <1>6, Joined
  <1>8. /\ Len(program) = Len(front) + Len(record)
        /\ Contains(program, front, 0)
        /\ Contains(program, record, Len(front))
    BY ONLY <1>7 DEF Joins
  <1>9. Len(body) \in Nat /\ Len(body) + 1 \in Nat /\ Len(body) + 4 \in Nat
    BY StepOf
  <1>10. Len(front) = Len(body) + 4 /\ Len(program) = Len(body) + 6
    BY ONLY <1>1, <1>4, <1>5, <1>6, <1>8, <1>9
  <1>11. \A i \in 1..Len(front) : program[i] = front[i]
    <2>1. \A i \in 1..Len(front) : program[0 + i] = front[i]
      BY <1>8 DEF Contains
    <2>2. \A i \in 1..Len(front) : 0 + i = i
      BY ONLY <1>9, <1>10
    <2> QED
      BY <2>1, <2>2
  <1>12. /\ IsStep(front, (Len(body) + 1) + 1, "record", 0)
         /\ IsStep(front, (Len(body) + 1) + 2, "commit", 0)
         /\ IsStep(front, (Len(body) + 1) + 3, "raise", 0)
    <2>1. 1 \in 1..Len(handler) /\ 2 \in 1..Len(handler) /\ 3 \in 1..Len(handler)
      BY ONLY <1>1
    <2> QED
      BY ONLY <1>1, <1>5, <1>6, <1>9, <2>1, StepMoves
  <1>13. /\ IsStep(program, (Len(body) + 4) + 1, "record", 0)
         /\ IsStep(program, (Len(body) + 4) + 2, "commit", 0)
    <2>1. 1 \in 1..Len(record) /\ 2 \in 1..Len(record)
      BY ONLY <1>4
    <2> QED
      BY ONLY <1>4, <1>8, <1>9, <1>10, <2>1, StepMoves
  <1>14. /\ (Len(body) + 1) + 1 = Len(body) + 2 /\ Len(body) + 2 \in 1..Len(front)
         /\ (Len(body) + 1) + 2 = Len(body) + 3 /\ Len(body) + 3 \in 1..Len(front)
         /\ (Len(body) + 1) + 3 = Len(body) + 4 /\ Len(body) + 4 \in 1..Len(front)
         /\ (Len(body) + 4) + 1 = Len(body) + 5
         /\ (Len(body) + 4) + 2 = Len(body) + 6
         /\ Len(body) + 1 \in 1..Len(front)
         /\ \A i \in 1..Len(body) : i \in 1..Len(front)
         /\ Len(handler) + 1 = 4
    BY ONLY <1>1, <1>9, <1>10
  <1>15. /\ IsStep(program, Len(body) + 1, "jump", 4)
         /\ IsStep(program, Len(body) + 2, "record", 0)
         /\ IsStep(program, Len(body) + 3, "commit", 0)
         /\ IsStep(program, Len(body) + 4, "raise", 0)
    BY ONLY <1>5, <1>6, <1>11, <1>12, <1>14 DEF IsStep
  <1>16. IsStep(program, Len(body) + 5, "record", 0) /\ IsStep(program, Len(body) + 6, "commit", 0)
    BY ONLY <1>13, <1>14
  <1>17. \A i \in 1..Len(body) : program[i] = front[i]
    BY ONLY <1>11, <1>14
  <1> QED
    BY <1>3, <1>5, <1>6, <1>10, <1>15, <1>16, <1>17

LEMMA RecordedReturns ==
    ASSUME NEW names, Language!NoTable \in names, "collection_runs" \in names,
           NEW body \in ProgramsOver(names)
    PROVE  ReturnsLock(Language!Recorded(body))
  <1> DEFINE program == Language!Recorded(body)
             n == Len(body)
             places == (1..(n + 3)) \cup {n + 5, n + 6}
  <1>1. /\ program \in ProgramsOver(names)
        /\ Len(program) = n + 6
        /\ \A i \in 1..n :
             /\ program[i].op = body[i].op
             /\ program[i].dist = body[i].dist
             /\ program[i].rescue = IF body[i].rescue = 0 THEN (n + 2) - i ELSE body[i].rescue
        /\ IsStep(program, n + 1, "jump", 4)
        /\ IsStep(program, n + 2, "record", 0)
        /\ IsStep(program, n + 3, "commit", 0)
        /\ IsStep(program, n + 4, "raise", 0)
        /\ IsStep(program, n + 5, "record", 0)
        /\ IsStep(program, n + 6, "commit", 0)
    BY RecordedShape
  <1> HIDE DEF program
  <1>2. /\ n \in Nat
        /\ \A i \in 1..n : body[i].rescue \in Nat /\ i + body[i].rescue <= n + 1
    BY StepOf DEF Stays
  <1>3. ASSUME NEW i \in 1..n PROVE Flows(program, places, i)
    <2>1. Normally(program, i) = Normally(body, i)
      BY <1>1 DEF Normally
    <2>2. Normally(program, i) \subseteq 1..(n + 1)
      BY <2>1, NormallyStays
    <2>3. Normally(program, i) \subseteq places
      BY ONLY <1>2, <2>2
    <2> DEFINE rescue == body[i].rescue
    <2>4. /\ program[i].rescue = IF rescue = 0 THEN (n + 2) - i ELSE rescue
          /\ rescue \in Nat
          /\ i + rescue <= n + 1
      BY <1>1, <1>2
    <2> HIDE DEF rescue
    <2>5. program[i].rescue # 0 /\ i + program[i].rescue \in 1..(n + 2)
      BY ONLY <1>2, <2>4, i \in 1..n
    <2>6. Handler(program, i) \in places
      <3>1. Handler(program, i) \in 1..(n + 2)
        BY <2>5 DEF Handler
      <3> QED
        BY ONLY <1>2, <3>1
    <2> QED
      BY <2>3, <2>6 DEF Flows
  <1> HIDE DEF n
  <1>4. /\ \A i \in 1..(n + 6) : \/ i \in 1..n \/ i = n + 1 \/ i = n + 2 \/ i = n + 3
                                 \/ i = n + 4 \/ i = n + 5 \/ i = n + 6
        /\ n + 4 \notin places /\ (n + 6) + 1 \notin places
        /\ (n + 1) + 4 \in places /\ (n + 2) + 1 \in places /\ (n + 5) + 1 \in places
    BY ONLY <1>2
  <1> HIDE DEF places
  <1>5. Flows(program, places, n + 1)
    <2>1. Normally(program, n + 1) = {(n + 1) + 4} /\ program[n + 1].op = "jump"
      BY <1>1 DEF Normally, IsStep
    <2> QED
      BY <1>4, <2>1 DEF Flows, Refusable, Failing
  <1>6. Flows(program, places, n + 2) /\ Flows(program, places, n + 5)
    <2>1. /\ Normally(program, n + 2) = {(n + 2) + 1} /\ program[n + 2].op = "record"
          /\ Normally(program, n + 5) = {(n + 5) + 1} /\ program[n + 5].op = "record"
      BY <1>1 DEF Normally, IsStep
    <2> QED
      BY <1>4, <2>1 DEF Flows, Refusable, Failing
  <1>7. Flows(program, places, n + 3) /\ Flows(program, places, n + 6)
    <2>1. program[n + 3].op = "commit" /\ program[n + 6].op = "commit"
      BY <1>1 DEF IsStep
    <2> QED
      BY <2>1 DEF Flows, Writes, Refusable, Failing
  <1>8. Flows(program, places, n + 4)
    <2>1. program[n + 4].op = "raise"
      BY <1>1 DEF IsStep
    <2> QED
      BY <1>4, <2>1 DEF Flows, Writes, Refusable
  <1>9. GivesBack(program, places)
    <2>1. \A i \in 1..Len(program) : Flows(program, places, i)
      BY <1>1, <1>3, <1>4, <1>5, <1>6, <1>7, <1>8 DEF n
    <2> QED
      BY <1>1, <1>4, <2>1, AllFlow
  <1> QED
    BY <1>9 DEF ReturnsLock, program

LEMMA NotedReturns ==
    ASSUME NEW names, Language!NoTable \in names, "collection_runs" \in names,
           NEW body \in ProgramsOver(names)
    PROVE  ReturnsLock(Language!Noted(body))
  <1> DEFINE program == Language!Noted(body)
             caught == Language!Attempt(body)
             record == Language!Record
             n == Len(body)
             places == 1..(n + 2)
  <1>1. /\ n \in Nat /\ n + 1 \in Nat /\ n + 1 > n
        /\ \A i \in 1..n : body[i].rescue \in Nat /\ i + body[i].rescue <= n + 1
    BY StepOf DEF Stays
  <1>2. program \in ProgramsOver(names)
    BY RecordSound, AttemptSound, JoinedSound DEF Language!Noted
  <1>3. /\ caught \in Seq(StepsOver(names)) /\ Len(caught) = n
        /\ \A i \in 1..n :
             /\ caught[i].op = body[i].op
             /\ caught[i].dist = body[i].dist
             /\ caught[i].rescue = IF body[i].rescue = 0 THEN (n + 1) - i ELSE body[i].rescue
    BY <1>1, CaughtShape DEF Language!Attempt
  <1>4. /\ record \in Seq(StepsOver(names)) /\ Len(record) = 2
        /\ IsStep(record, 1, "record", 0) /\ IsStep(record, 2, "commit", 0)
    BY RecordShape
  <1>5. program = caught \o record
    BY DEF Language!Noted
  <1> HIDE DEF program, caught, record
  <1>6. Joins(program, StepsOver(names), caught, record)
    BY ONLY <1>3, <1>4, <1>5, Joined
  <1>7. /\ Len(program) = Len(caught) + Len(record)
        /\ Contains(program, caught, 0)
        /\ Contains(program, record, Len(caught))
    BY ONLY <1>6 DEF Joins
  <1>8. IsStep(program, n + 1, "record", 0) /\ IsStep(program, n + 2, "commit", 0)
    <2>1. 1 \in 1..Len(record) /\ 2 \in 1..Len(record) /\ Len(caught) \in Nat
      BY ONLY <1>1, <1>3, <1>4
    <2>2. /\ IsStep(program, Len(caught) + 1, "record", 0)
          /\ IsStep(program, Len(caught) + 2, "commit", 0)
      BY ONLY <1>4, <1>7, <2>1, StepMoves
    <2> QED
      BY <1>3, <2>2
  <1>9. ASSUME NEW i \in 1..n PROVE program[i] = caught[i]
    <2>1. program[0 + i] = caught[i]
      BY <1>3, <1>7 DEF Contains
    <2> QED
      BY <1>1, <2>1
  <1>10. ASSUME NEW i \in 1..n PROVE Flows(program, places, i)
    <2>1. Normally(program, i) = Normally(body, i)
      BY <1>3, <1>9 DEF Normally
    <2>2. Normally(program, i) \subseteq 1..(n + 1)
      BY <2>1, NormallyStays
    <2>3. Normally(program, i) \subseteq places
      BY ONLY <1>1, <2>2
    <2> DEFINE rescue == body[i].rescue
    <2>4. /\ program[i].rescue = IF rescue = 0 THEN (n + 1) - i ELSE rescue
          /\ rescue \in Nat
          /\ i + rescue <= n + 1
      BY <1>1, <1>3, <1>9
    <2> HIDE DEF rescue
    <2>5. program[i].rescue # 0 /\ i + program[i].rescue \in places
      BY ONLY <1>1, <2>4, i \in 1..n
    <2>6. Handler(program, i) \in places
      BY <2>5 DEF Handler
    <2> QED
      BY <2>3, <2>6 DEF Flows
  <1> HIDE DEF n
  <1>11. /\ \A i \in 1..(n + 2) : i \in 1..n \/ i = n + 1 \/ i = n + 2
         /\ (n + 2) + 1 \notin places
         /\ (n + 1) + 1 \in places
         /\ Len(program) = n + 2
    BY ONLY <1>1, <1>3, <1>4, <1>7
  <1> HIDE DEF places
  <1>12. Flows(program, places, n + 1)
    <2>1. Normally(program, n + 1) = {(n + 1) + 1} /\ program[n + 1].op = "record"
      BY <1>8 DEF Normally, IsStep
    <2> QED
      BY <1>11, <2>1 DEF Flows, Refusable, Failing
  <1>13. Flows(program, places, n + 2)
    <2>1. program[n + 2].op = "commit"
      BY <1>8 DEF IsStep
    <2> QED
      BY <2>1 DEF Flows, Writes, Refusable, Failing
  <1>14. \A i \in 1..Len(program) : Flows(program, places, i)
    BY ONLY <1>10, <1>11, <1>12, <1>13
  <1>15. GivesBack(program, places)
    BY <1>2, <1>11, <1>14, AllFlow
  <1> QED
    BY <1>15 DEF ReturnsLock, program

\* However a job uses the database and whatever fails in it, the lock is given
\* back if its run is recorded, by _run_collection_job or in a finally: the
\* commit of the record ends what the failure has left. And programs that give
\* it back do so one after the other, under an if and in a loop as well.
THEOREM RecordingGivesBack ==
    \A names : {Language!NoTable, "collection_runs"} \subseteq names =>
        /\ \A body \in ProgramsOver(names) :
             ReturnsLock(Language!Recorded(body)) /\ ReturnsLock(Language!Noted(body))
        /\ \A p, q \in ProgramsOver(names) : ReturnsLock(p) /\ ReturnsLock(q) =>
             /\ ReturnsLock(p \o q)
             /\ ReturnsLock(Language!Optional(p))
             /\ ReturnsLock(Language!Each(p))
             /\ ReturnsLock(Language!Either(p, q))
  BY RecordedReturns, NotedReturns, JoinedReturns, OptionalReturns, EachReturns, EitherReturns

\* A program that gives the lock back, or is recorded so that it does.
Recording(names, program) ==
    \/ ReturnsLock(program)
    \/ \E body \in ProgramsOver(names) :
          program \in {Language!Recorded(body), Language!Noted(body)}

LEMMA RecordingReturns ==
    ASSUME NEW names, {Language!NoTable, "collection_runs"} \subseteq names,
           NEW program, Recording(names, program)
    PROVE  \E places : GivesBack(program, places)
  <1>1. ReturnsLock(program)
    BY RecordingGivesBack DEF Recording
  <1> QED
    BY <1>1 DEF ReturnsLock

\* Whatever the recorded jobs do with the database, on whichever ways through
\* branches, loops and handlers: as long as _run_collection_job, or a finally,
\* records their runs, no idle thread keeps the lock, at any number of jobs and
\* threads, failures and restarts.
THEOREM RecordedRunsGiveBack ==
    ASSUME NEW names, {Language!NoTable, "collection_runs"} \subseteq names,
           \A j \in Recorded : Recording(names, Program[j])
    PROVE  Spec => []LockIsGivenBack
  BY RecordingReturns, LockComesBack

\* And the record commits what the run has written before: nothing is left to
\* later runs where the runs are recorded, or their programs commit by themselves.
THEOREM RecordedRunsCommit ==
    ASSUME NEW names, {Language!NoTable, "collection_runs"} \subseteq names,
           \A j \in Jobs : Recording(names, Program[j]) \/ \E places : Commits(Program[j], places)
    PROVE  Spec => []FinishedMeansCommitted
  <1>1. ASSUME NEW program, NEW places, GivesBack(program, places) PROVE Commits(program, places)
    BY <1>1 DEF GivesBack, HoldsDespiteFailures, Commits
  <1>2. \A j \in Jobs : \E places : Commits(Program[j], places)
    BY <1>1, RecordingReturns
  <1> QED
    BY <1>2, CommittedAtTheEnd

==============================================================================
