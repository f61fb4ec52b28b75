----------------------------- MODULE ProgramRules -----------------------------
(***************************************************************************)
(* Rules for the programs of StorePrograms, each about one program and     *)
(* checked without running it.  StoreProofs shows what StoreSessions       *)
(* guarantees of jobs whose programs keep them.  Some rules are about a    *)
(* set of places: any set that has what the rule lets flow into it will    *)
(* do, so a job keeps the rule if there is such a set.                     *)
(***************************************************************************)
EXTENDS Naturals, Sequences

\* Wherever a step leads to is a step of its program, or its end.
WellFormed(program) ==
    \A i \in DOMAIN program :
        /\ program[i].op \in {"branch", "jump"} => i + program[i].dist <= Len(program) + 1
        /\ program[i].op = "again" => program[i].dist < i
        /\ i + program[i].rescue <= Len(program) + 1

Writes == {"insert", "latest", "put", "revise", "delete", "record"}

\* Writes of values that sqlite3 may refuse, at once or at a later row.
Refusable == {"insert", "latest", "put"}

\* Steps that may fail whatever the state of the database.
Failing == {"fetch", "read", "load", "raise"} \cup Refusable

Reads == {"read", "load"}

PlaceAfter(program) == Len(program) + 1

\* Where a step leads when it succeeds, and when it fails.
Normally(program, i) ==
    LET step == program[i] IN
    CASE step.op = "jump" -> {i + step.dist}
      [] step.op = "branch" -> {i + 1, i + step.dist}
      [] step.op = "again" -> {i + 1, i - step.dist}
      [] step.op = "raise" -> {}
      [] OTHER -> {i + 1}

Handler(program, i) ==
    IF program[i].rescue = 0 THEN PlaceAfter(program) ELSE i + program[i].rescue

------------------------------------------------------------------------------
\* No step puts another row in the place of the newest of one of the tables,
\* whatever its time.
Grows(program, tables) ==
    \A i \in DOMAIN program : program[i].op = "put" => program[i].table \notin tables

\* And none removes it.
Guards(program, tables) ==
    /\ Grows(program, tables)
    /\ \A i \in DOMAIN program : program[i].op = "delete" => program[i].table \notin tables

\* The only way to a save into a latest_* table is the save into its history.
HistoryFirst(program, histories) ==
    \A i \in DOMAIN program :
        program[i].op \in Writes \ {"delete", "revise"} /\ program[i].table \in DOMAIN histories =>
            /\ i # 1
            /\ \A k \in DOMAIN program :
                /\ i # Handler(program, k)
                /\ i \in Normally(program, k) =>
                    program[k].op = "insert" /\ program[k].table = histories[program[i].table]

\* As long as nothing fails, the lock is held at these places at most.
HoldsAt(program, places) ==
    \A i \in DOMAIN program :
        program[i].op \in Writes \/ (i \in places /\ program[i].op # "commit") =>
            Normally(program, i) \subseteq places

\* What is written is committed before a run that met no failure ends.
Commits(program, places) ==
    HoldsAt(program, places) /\ PlaceAfter(program) \notin places

\* As long as nothing fails, no answer is waited for with the lock.
AsksUnlocked(program, places) ==
    /\ HoldsAt(program, places)
    /\ \A i \in DOMAIN program : program[i].op = "fetch" => i \notin places

\* The lock is held at these places at most, whatever fails.
HoldsDespiteFailures(program, places) ==
    /\ HoldsAt(program, places)
    /\ \A i \in DOMAIN program :
        program[i].op \in Refusable \/ (i \in places /\ program[i].op \in Failing) =>
            Handler(program, i) \in places

\* The lock is given back before a run ends, whatever has failed.
GivesBack(program, places) ==
    HoldsDespiteFailures(program, places) /\ PlaceAfter(program) \notin places

\* A transaction that a failed write has begun is open at these places at most,
\* and at none of them a row is read.
ReadsFresh(program, places) ==
    \A i \in DOMAIN program :
        /\ program[i].op \in Writes => Handler(program, i) \in places
        /\ i \in places =>
            /\ program[i].op \notin Reads
            /\ program[i].op \notin Writes \cup {"commit"} => Normally(program, i) \subseteq places
            /\ program[i].op \in Failing => Handler(program, i) \in places
==============================================================================
