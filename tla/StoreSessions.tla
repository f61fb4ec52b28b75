---------------------------- MODULE StoreSessions ----------------------------
(***************************************************************************)
(* database/db_manager.py: one SQLite file in WAL mode and the sessions    *)
(* (connections) its users open, one per thread and DBManager.  Jobs run   *)
(* the programs of StorePrograms over them, in threads of several          *)
(* processes.  A session remembers what a job left undone: whoever runs    *)
(* next in that thread goes on in the same transaction.                    *)
(***************************************************************************)
EXTENDS ProgramRules, FiniteSets

CONSTANTS
    Jobs,
    Program,      \* the program of each job
    Pool,         \* the sessions of the threads each job may run in
    Fresh,        \* jobs that open a DBManager of their own and close it
    Deployments,  \* sets of jobs to consider together
    Tables,       \* the tables whose newest row is looked at
    Histories,    \* the history table of each latest_* table
    MaxStamp,     \* bound: the times an answer can carry
    Unrecorded,   \* jobs that do not record their runs
    Slow,         \* jobs that ask the network between writing and committing
    Rereading,    \* jobs that read after they may have failed to write
    MaxAgain,     \* bound: how often a run goes round a loop once more
    None

\* A process has threads of its own, and closes them together.
ASSUME StoreAssumption ==
    /\ Deployments \subseteq SUBSET Jobs
    /\ Fresh \subseteq Jobs
    /\ Program \in [Jobs -> Seq([op : STRING, table : STRING, dist : Nat, rescue : Nat])]
    /\ \A j \in Jobs : WellFormed(Program[j])
    /\ DOMAIN Pool = Jobs
    /\ \A j, k \in Jobs : Pool[j] = Pool[k] \/ Pool[j] \cap Pool[k] = {}
    /\ DOMAIN Histories \subseteq Tables
    /\ \A t \in DOMAIN Histories : Histories[t] \in Tables
    /\ MaxStamp \in Nat
    /\ MaxAgain \in Nat

VARIABLES
    deployed,  \* the jobs there are
    run,       \* of each job: its session, the step it is at, its answer's time,
               \* its rounds, and whether nothing has gone wrong in that session
    txn,       \* of each session: the state of its transaction
    stored,    \* the time of the newest committed row of each table
    draft,     \* the same, as the session that is writing sees it
    emptied    \* the tables its transaction has removed the newest row of

vars == <<deployed, run, txn, stored, draft, emptied>>

Threads == UNION {Pool[j] : j \in deployed}

Sessions == DOMAIN txn

Idle == [session |-> None, pc |-> 0, stamp |-> 0, again |-> 0, clean |-> TRUE]

Init ==
    /\ deployed \in Deployments
    /\ run = [j \in deployed |-> Idle]
    /\ txn = [s \in Threads |-> "none"]
    /\ stored = [t \in Tables |-> 0]
    /\ draft = [t \in Tables |-> 0]
    /\ emptied = {}

------------------------------------------------------------------------------
(***************************************************************************)
(* Runs of jobs.                                                           *)
(***************************************************************************)
Running(j) == run[j] # Idle

Busy(s) == \E j \in deployed : run[j].session = s

Begin(s) ==
    [session |-> s, pc |-> 1, stamp |-> 0, again |-> 0, clean |-> txn[s] = "none"]

\* Fault: a job runs in a thread of another service.
StartAnywhere(j) ==
    /\ ~Running(j)
    /\ \E s \in Sessions : ~Busy(s) /\ run' = [run EXCEPT ![j] = Begin(s)]
    /\ UNCHANGED <<deployed, txn, stored, draft, emptied>>

\* APScheduler: one run of a job at a time, in an idle thread.
Start(j) ==
    /\ ~Running(j)
    /\ \E s \in Pool[j] : ~Busy(s) /\ run' = [run EXCEPT ![j] = Begin(s)]
    /\ UNCHANGED <<deployed, txn, stored, draft, emptied>>

Over(j) == run[j].pc = Len(Program[j]) + 1

At(j, ops) ==
    /\ Running(j)
    /\ ~Over(j)
    /\ Program[j][run[j].pc].op \in ops

Here(j) == Program[j][run[j].pc]

Session(j) == run[j].session

Goto(j, pc) == run' = [run EXCEPT ![j].pc = pc]

Continue(j) == Goto(j, run[j].pc + 1)

\* An exception: to its handler, or out of the job.
Throw(j) ==
    LET there == IF Here(j).rescue = 0 THEN Len(Program[j]) + 1
                 ELSE run[j].pc + Here(j).rescue
    IN run' = [run EXCEPT ![j].pc = there, ![j].clean = FALSE]

\* The times answers carry, for jobs that save any that are looked at.
Stamps(j) ==
    IF \E i \in DOMAIN Program[j] : Program[j][i].table \in Tables THEN 1..MaxStamp ELSE {0}

Answer(j) ==
    /\ At(j, {"fetch"})
    /\ \E stamp \in Stamps(j) :
        run' = [run EXCEPT ![j].pc = @ + 1, ![j].stamp = stamp]
    /\ UNCHANGED <<deployed, txn, stored, draft, emptied>>

Begun(s) == [txn EXCEPT ![s] = IF @ = "none" THEN "begun" ELSE @]

\* No answer, or data the job trips over, or that sqlite3 cannot bind, which
\* it finds out when it has begun the transaction.
Trip(j) ==
    /\ \/ At(j, Failing) /\ txn' = txn
       \/ At(j, Refusable) /\ txn' = Begun(Session(j))
    /\ Throw(j)
    /\ UNCHANGED <<deployed, stored, draft, emptied>>

Control(j) ==
    /\ \/ At(j, {"branch"}) /\ (Continue(j) \/ Goto(j, run[j].pc + Here(j).dist))
       \/ At(j, {"jump"}) /\ Goto(j, run[j].pc + Here(j).dist)
       \/ At(j, {"again"}) /\ Continue(j)
       \/ /\ At(j, {"again"})
          /\ run[j].again < MaxAgain
          /\ run' = [run EXCEPT ![j].pc = @ - Here(j).dist, ![j].again = @ + 1]
    /\ UNCHANGED <<deployed, txn, stored, draft, emptied>>

------------------------------------------------------------------------------
(***************************************************************************)
(* SQL.  The first DML of a transaction begins it and takes the write      *)
(* lock; a read in a begun transaction fixes the snapshot all of it sees.  *)
(***************************************************************************)
Locked(s) == \E r \in Sessions \ {s} : txn[r] = "writing"

\* What a write makes of the newest row of its table, unless it removes it.
Written(j) ==
    LET step == Here(j)
    IN IF step.table \notin Tables \/ step.op \in {"delete", "revise"} THEN draft
       ELSE IF step.op = "put" THEN [draft EXCEPT ![step.table] = run[j].stamp]
       ELSE [draft EXCEPT ![step.table] = IF run[j].stamp > @ THEN run[j].stamp ELSE @]

\* A delete drops the rows older than a date: all of them, when nothing newer
\* has been saved.
Empties(j) ==
    LET table == Here(j).table
    IN /\ At(j, {"delete"})
       /\ table \in Tables
       /\ draft' = [draft EXCEPT ![table] = 0]
       /\ emptied' = emptied \cup {table}

MayWrite(s) == txn[s] # "stale" /\ ~Locked(s)

Write(j) ==
    /\ At(j, Writes)
    /\ MayWrite(Session(j))
    /\ txn' = [txn EXCEPT ![Session(j)] = "writing"]
    /\ Empties(j) \/ (draft' = Written(j) /\ UNCHANGED emptied)
    /\ Continue(j)
    /\ UNCHANGED <<deployed, stored>>

\* A row in the middle of the statement is refused.
WritePartly(j) ==
    /\ At(j, Refusable)
    /\ MayWrite(Session(j))
    /\ txn' = [txn EXCEPT ![Session(j)] = "writing"]
    /\ draft' \in {draft, Written(j)}
    /\ Throw(j)
    /\ UNCHANGED <<deployed, stored, emptied>>

\* busy_timeout passes: "database is locked", in a transaction that has begun.
TimeOut(j) ==
    /\ At(j, Writes)
    /\ txn[Session(j)] # "stale"
    /\ Locked(Session(j))
    /\ txn' = Begun(Session(j))
    /\ Throw(j)
    /\ UNCHANGED <<deployed, stored, draft, emptied>>

\* The snapshot is older than the last commit: it fails at once.
FindStale(j) ==
    /\ At(j, Writes)
    /\ txn[Session(j)] = "stale"
    /\ Throw(j)
    /\ UNCHANGED <<deployed, txn, stored, draft, emptied>>

ReadRows(j) ==
    /\ At(j, Reads)
    /\ txn' = [txn EXCEPT ![Session(j)] = IF @ = "begun" THEN "reading" ELSE @]
    /\ \E stamp \in IF At(j, {"load"}) THEN Stamps(j) ELSE {run[j].stamp} :
        run' = [run EXCEPT ![j].pc = @ + 1, ![j].stamp = stamp]
    /\ UNCHANGED <<deployed, stored, draft, emptied>>

\* The snapshots others hold are of the past from now on.
Publish(s) ==
    /\ stored' = draft
    /\ emptied' = {}
    /\ txn' = [r \in Sessions |->
                IF r = s THEN "none" ELSE IF txn[r] = "reading" THEN "stale" ELSE txn[r]]

\* Fault: a commit stores what any session has written, as if threads shared one
\* connection.
CommitWritesOfAll(j) ==
    /\ At(j, {"commit"})
    /\ Publish(Session(j))
    /\ Continue(j)
    /\ UNCHANGED <<deployed, draft>>

CommitWrites(j) ==
    /\ At(j, {"commit"})
    /\ IF txn[Session(j)] = "writing"
       THEN Publish(Session(j))
       ELSE txn' = [txn EXCEPT ![Session(j)] = "none"] /\ UNCHANGED <<stored, emptied>>
    /\ Continue(j)
    /\ UNCHANGED <<deployed, draft>>

\* Closing sessions rolls back what they have not committed.
CloseAll(closed) ==
    /\ txn' = [s \in Sessions |-> IF s \in closed THEN "none" ELSE txn[s]]
    /\ IF \E s \in closed : txn[s] = "writing"
       THEN draft' = stored /\ emptied' = {}
       ELSE UNCHANGED <<draft, emptied>>

\* The end of a run; only jobs with a DBManager of their own close it.
End(j) ==
    /\ Running(j)
    /\ Over(j)
    /\ run' = [run EXCEPT ![j] = Idle]
    /\ CloseAll(IF j \in Fresh THEN {Session(j)} ELSE {})
    /\ UNCHANGED <<deployed, stored>>

\* The process a job belongs to is killed or stopped, and started again.
Restart(j) ==
    /\ run' = [k \in deployed |-> IF Pool[k] \cap Pool[j] # {} THEN Idle ELSE run[k]]
    /\ CloseAll(Pool[j])
    /\ UNCHANGED <<deployed, stored>>

Work(j) ==
    \/ Answer(j) \/ Trip(j) \/ Control(j)
    \/ Write(j) \/ WritePartly(j) \/ TimeOut(j) \/ FindStale(j)
    \/ ReadRows(j) \/ CommitWrites(j) \/ End(j)

Next == \E j \in deployed : Start(j) \/ Work(j) \/ Restart(j)

Spec == Init /\ [][Next]_vars

\* Jobs are run again and again, and a run goes on: requests and waits for the
\* lock have time limits.
Fairness ==
    \A j \in Jobs : WF_vars(j \in deployed /\ Start(j)) /\ WF_vars(j \in deployed /\ Work(j))

FairSpec == Spec /\ Fairness

------------------------------------------------------------------------------
(***************************************************************************)
(* Properties.                                                             *)
(***************************************************************************)
States == {"none", "begun", "reading", "stale", "writing"}

Stamp == 0..MaxStamp

RunsOK ==
    /\ run \in [deployed -> [session : Threads \cup {None}, pc : Nat, stamp : Stamp,
                             again : 0..MaxAgain, clean : BOOLEAN]]
    /\ \A j \in deployed : Running(j) =>
        /\ run[j].session \in Pool[j]
        /\ run[j].pc \in 1..(Len(Program[j]) + 1)

\* Runs are at a step of their program, in a session of a thread of their
\* service; sessions are in a state SQLite knows.
TypeOK ==
    /\ deployed \in Deployments
    /\ RunsOK
    /\ txn \in [Threads -> States]
    /\ stored \in [Tables -> Stamp]
    /\ draft \in [Tables -> Stamp]
    /\ emptied \subseteq Tables

\* What the latest_* tables promise (exchange_data/README.md:299): the newest
\* row others can see never goes back in time, whoever saves an older answer,
\* fails halfway or is killed.
LatestOnlyAdvances == [][\A latest \in DOMAIN Histories : stored'[latest] >= stored[latest]]_vars

Writers == {s \in Sessions : txn[s] = "writing"}

\* The transaction of a session that writes, as a batch of saves.
Batches == [s \in Writers |-> [base |-> stored, rows |-> draft]]

Saves == INSTANCE AtomicSaves WITH sessions <- Sessions, batch <- Batches

\* What is stored was put there by commits, each of what one session has saved,
\* all of it and upon what was stored when it commits: although writes fail
\* halfway, jobs commit what others left in their session, and close theirs.
SavesAreAtomic == Saves!Spec

\* The row a latest_* table comes to show is in its history from the same commit
\* on, or a newer one is: both are committed together, and only a commit that has
\* dropped rows past their retention takes the history back.
HistoryCoversLatest ==
    [][\A latest \in DOMAIN Histories :
         LET history == Histories[latest]
         IN history \notin emptied =>
              /\ stored'[history] >= stored[history]
              /\ stored'[latest] > stored[latest] => stored'[history] >= stored'[latest]]_vars

UsedBy(s, group) == \E j \in deployed \cap group : s \in Pool[j]

\* A thread that has nothing to do does not hold the write lock of the file,
\* except those of the jobs nobody records: the commit that comes with the
\* record of a failed run is what gives the lock back.
LockIsGivenBack ==
    \A s \in Sessions : txn[s] = "writing" /\ ~Busy(s) => UsedBy(s, Unrecorded)

\* As long as nothing fails, the lock is not held while a job waits for the
\* network, except by the jobs known to do that.
NobodyWaitsWithLock ==
    \A j \in deployed :
        At(j, {"fetch"}) /\ run[j].clean /\ txn[Session(j)] = "writing" => j \in Slow

\* A run that met no failure leaves nothing behind: whatever it has written, on
\* whichever way through its loops and early returns, is committed at its end.
FinishedMeansCommitted ==
    \A j \in deployed : Running(j) /\ Over(j) /\ run[j].clean => txn[Session(j)] # "writing"

\* A session whose writes all fail from now on belongs to a job that reads in
\* the transaction a failed write has left open.
OnlyRereadersGetStuck ==
    \A s \in Sessions : txn[s] = "stale" => UsedBy(s, Rereading)

\* Nobody is stuck for good (violated): no rollback follows a failed write, so
\* what fails goes on failing, the record of the failure included.
SessionsRecover == \A s \in UNION {Pool[j] : j \in Jobs} : []<>(s \in Sessions => txn[s] # "stale")
==============================================================================
