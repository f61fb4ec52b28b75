---------------------------- MODULE EndpointPaths ----------------------------
(***************************************************************************)
(* How an endpoint of the API uses the database, as the set of its paths:  *)
(* the sequences of tables it may look at while it works out an answer.    *)
(* Tests of data are alternatives, a loop has no round, one or two, and an *)
(* exception that is caught goes on after the body it was thrown from.     *)
(***************************************************************************)
EXTENDS Naturals, SequencesExt

In(file, tables) == {file} \X tables

Step(op, keys) == {<<[op |-> op, tables |-> keys, rescue |-> 0]>>}

\* One SELECT, of one table or of several joined.
Select(keys) == Step("look", keys)

Exchange(table) == Select({<<"exchange", table>>})
Market(table) == Select({<<"market", table>>})
Analytics(table) == Select({<<"analytics", table>>})

\* The name of the table comes with the request.
OneOf(file, tables) == UNION {Select({key}) : key \in In(file, tables)}

\* init_storage: CREATE TABLE IF NOT EXISTS, from within the request.
Create(keys) == Step("create", keys)

Nothing == {<<>>}

A ** B == {p \o q : p \in A, q \in B}

InTurn(parts) == FoldLeft(LAMBDA A, B : A ** B, Nothing, parts)

Maybe(A) == Nothing \cup A

Each(A) == Nothing \cup A \cup (A ** A)

\* try: body, except: log it
Tried(A) ==
    {[i \in DOMAIN p |->
        IF p[i].rescue = 0 THEN [p[i] EXCEPT !.rescue = Len(p) + 1 - i] ELSE p[i]] : p \in A}
==============================================================================
