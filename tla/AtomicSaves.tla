------------------------------ MODULE AtomicSaves ------------------------------
(***************************************************************************)
(* What the sessions of a file promise each other, without the lock that   *)
(* keeps the promise.  A session saves into a batch of its own, which it   *)
(* begins with the rows stored then.  A commit stores the whole batch, and *)
(* only if nobody else has committed since the batch was begun: no update  *)
(* is lost and no half of a batch is ever seen.  Batches may be dropped.   *)
(***************************************************************************)
EXTENDS Naturals

CONSTANTS
    Tables,     \* the tables of the file
    Stamp       \* the times of their newest rows, from 0 on

VARIABLES
    sessions,   \* those who save
    stored,     \* the time of the newest row of each table
    batch       \* of each session that has begun one: the rows it began with and
                \* those it has made of them

vars == <<sessions, stored, batch>>

Init ==
    /\ stored = [t \in Tables |-> 0]
    /\ batch = [s \in {} |-> stored]

BatchOf(s) == IF s \in DOMAIN batch THEN batch[s] ELSE [base |-> stored, rows |-> stored]

\* What a statement may make of the newest rows.
Changed(rows) == {rows} \cup {[rows EXCEPT ![t] = stamp] : t \in Tables, stamp \in Stamp}

\* A rollback, or the end of a process.
Drop(s) ==
    /\ batch' = [r \in DOMAIN batch \ {s} |-> batch[r]]
    /\ UNCHANGED <<sessions, stored>>

Save(s) ==
    /\ \E rows \in Changed(BatchOf(s).rows) :
        batch' = [r \in DOMAIN batch \cup {s} |->
                    IF r = s THEN [base |-> BatchOf(s).base, rows |-> rows] ELSE batch[r]]
    /\ UNCHANGED <<sessions, stored>>

Commit(s) ==
    /\ s \in DOMAIN batch
    /\ batch[s].base = stored
    /\ stored' = batch[s].rows
    /\ batch' = [r \in DOMAIN batch \ {s} |-> batch[r]]
    /\ UNCHANGED sessions

Next == \E s \in sessions : Drop(s) \/ Save(s) \/ Commit(s)

Spec == Init /\ [][Next]_vars
==============================================================================
