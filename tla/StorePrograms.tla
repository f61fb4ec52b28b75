---------------------------- MODULE StorePrograms ----------------------------
(***************************************************************************)
(* How the jobs of the collectors use the database, as programs: sequences *)
(* of steps with jumps.  Tests of data are choices, loops over answers run *)
(* any number of times, and an exception goes to the handler around it.    *)
(***************************************************************************)
EXTENDS Naturals, Sequences

NoTable == ""

\* A step does op to a table; a jump goes dist steps; the handler of an
\* exception stands rescue steps further on, or nobody catches it (0).
Step(op, table, dist) == <<[op |-> op, table |-> table, dist |-> dist, rescue |-> 0]>>

Fetch == Step("fetch", NoTable, 0)         \* ask the source over the network
Read == Step("read", NoTable, 0)           \* SELECT
Load == Step("load", NoTable, 0)           \* SELECT what is saved in turn
Insert(table) == Step("insert", table, 0)  \* add rows, or replace those of the same time
Put(table) == Step("put", table, 0)        \* replace whatever there is, or UPDATE
Revise(table) == Step("revise", table, 0)  \* UPDATE rows in place
Delete(table) == Step("delete", table, 0)  \* drop rows past their retention
Commit == Step("commit", NoTable, 0)
Raise == Step("raise", NoTable, 0)

\* Fault: the newest row is replaced whatever its time.
LatestUnguarded(table) == Put(table)

\* Upsert WHERE excluded.timestamp >= timestamp
Latest(table) == Step("latest", table, 0)

Optional(body) == Step("branch", NoTable, Len(body) + 1) \o body

Either(one, other) ==
    Step("branch", NoTable, Len(one) + 2) \o one \o Step("jump", NoTable, Len(other) + 1) \o other

Each(body) ==
    Step("branch", NoTable, Len(body) + 2) \o body \o Step("again", NoTable, Len(body))

\* What the body throws is caught at place end, counted from its first step.
Caught(body, end) ==
    [i \in DOMAIN body |->
        IF body[i].rescue = 0 THEN [body[i] EXCEPT !.rescue = end - i] ELSE body[i]]

\* try: body, except: log it and go on
Attempt(body) == Caught(body, Len(body) + 1)

\* try: body, except: handler
Rescued(body, handler) ==
    Caught(body, Len(body) + 2) \o Step("jump", NoTable, Len(handler) + 1) \o handler

\* Fault: the row of the run is left for a later commit.
RecordUncommitted == Step("record", "collection_runs", 0)

\* DBManager.record_collection_run
Record == Step("record", "collection_runs", 0) \o Commit

\* _run_collection_job: the run is recorded however it ended, then a failure
\* is raised again.
Recorded(body) == Rescued(body, Record \o Raise) \o Record

\* try: body, except: log it, finally: record the run
Noted(body) == Attempt(body) \o Record
==============================================================================
