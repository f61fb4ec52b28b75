---------------------------- MODULE AnswersProofs ----------------------------
(***************************************************************************)
(* A request never runs past its path, and an answer is of one state       *)
(* unless its endpoint looks at a table twice: whatever the routers, the   *)
(* services and the tables are.                                            *)
(***************************************************************************)
EXTENDS Answers, TLAPS

LEMMA PathTypes ==
    ASSUME TypeOK
    PROVE  /\ path \in Seq(Looks)
           /\ Len(path) \in Nat
           /\ \A i \in 1..Len(path) : path[i] \in Looks /\ path[i].rescue \in Nat
           /\ \A i \in 1..Len(path) : i + path[i].rescue <= Len(path) + 1
<1>1. WellFormed(path)
    <2>1. CASE path = <<>>
        BY <2>1 DEF WellFormed
    <2>2. CASE endpoint \in DOMAIN Routers[router] /\ path \in Routers[router][endpoint]
        BY <2>2, AnswersAssumption DEF AnswersAssumption, TypeOK
    <2> QED BY <2>1, <2>2 DEF TypeOK, RequestOK
<1>2. path \in Seq(Looks)
    BY <1>1 DEF WellFormed
<1>3. \A i \in 1..Len(path) : path[i] \in Looks
    BY <1>2
<1>4. \A i \in 1..Len(path) : path[i].rescue \in Nat
    BY <1>3 DEF Looks
<1> QED BY <1>1, <1>2, <1>3, <1>4 DEF WellFormed

\* A new request starts at the beginning of one of the paths of its endpoint.
LEMMA ReceiveTypes == TypeOK /\ Receive => TypeOK'
<1> SUFFICES ASSUME TypeOK, Receive PROVE TypeOK'
    OBVIOUS
<1>1. PICK e \in DOMAIN Routers[router] : \E p \in Routers[router][e] :
        endpoint' = e /\ path' = p
    BY DEF Receive
<1>2. endpoint' \in DOMAIN Routers[router] /\ path' \in Routers[router][endpoint']
    BY ONLY <1>1
<1>3. WellFormed(path')
    BY <1>2, AnswersAssumption DEF AnswersAssumption, TypeOK
<1>4. Len(path') \in Nat
    BY <1>3 DEF WellFormed
<1>5. RequestOK'
    BY <1>2 DEF RequestOK, Receive
<1>6. at' \in 1..(Len(path') + 1)
    BY <1>4 DEF Receive
<1>7. changed' \subseteq TablesOf(path')
    BY DEF Receive
<1> QED BY <1>5, <1>6, <1>7 DEF TypeOK, Receive

\* The steps of a request move forward, to the end of the path at most.
LEMMA StepTypes ==
    TypeOK /\ (Look \/ Catch \/ CreateTables) => TypeOK'
<1> SUFFICES ASSUME TypeOK, Look \/ Catch \/ CreateTables PROVE TypeOK'
    OBVIOUS
<1>1. /\ at \in 1..Len(path)
      /\ at + 1 \in 1..(Len(path) + 1)
      /\ at + path[at].rescue \in 1..(Len(path) + 1)
    <2>1. at \in Nat /\ 1 <= at /\ at <= Len(path)
        BY PathTypes DEF TypeOK, Look, Catch, CreateTables, NoSuchTable, Busy
    <2>2. /\ path[at].rescue \in Nat
          /\ at + path[at].rescue <= Len(path) + 1
        BY <2>1, PathTypes
    <2> QED BY <2>1, <2>2, PathTypes
<1>2. at' \in 1..(Len(path) + 1)
    BY <1>1 DEF Look, Catch, CreateTables
<1>3. idle' \subseteq DOMAIN Services /\ torn' \in BOOLEAN
    BY DEF TypeOK, Look, Catch, CreateTables
<1> QED BY <1>2, <1>3 DEF TypeOK, RequestOK, Look, Catch, CreateTables

\* The end of a request, and what other processes do meanwhile.
LEMMA OtherTypes ==
    TypeOK /\ (Fail \/ Respond \/ Commit \/ \E s \in DOMAIN Services : StartService(s)) => TypeOK'
<1> SUFFICES ASSUME TypeOK PROVE
        Fail \/ Respond \/ Commit \/ (\E s \in DOMAIN Services : StartService(s)) => TypeOK'
    OBVIOUS
<1>1. ASSUME Fail \/ Respond PROVE TypeOK'
    <2>1. endpoint # "" \/ path # <<>> \/ status # "free"
        BY <1>1 DEF Fail, Respond, NoSuchTable, Busy
    <2> QED BY <1>1, <2>1 DEF TypeOK, RequestOK, Fail, Respond
<1>2. ASSUME Commit PROVE TypeOK'
    <2>1. PICK i \in 1..(at - 1) : \E key \in path[i].tables : changed' = {key}
        BY <1>2 DEF Commit
    <2>2. i \in 1..Len(path)
        BY <2>1, PathTypes DEF TypeOK
    <2>3. changed' \subseteq TablesOf(path)
        BY <2>1, <2>2 DEF TablesOf
    <2> QED BY <1>2, <2>3 DEF TypeOK, RequestOK, Commit
<1>3. ASSUME NEW s \in DOMAIN Services, StartService(s) PROVE TypeOK'
    BY <1>3 DEF TypeOK, RequestOK, StartService
<1> QED BY <1>1, <1>2, <1>3

\* Every step of a request and of the other processes keeps the types.
LEMMA TypeStep == TypeOK /\ [Next]_vars => TypeOK'
<1> SUFFICES ASSUME TypeOK, [Next]_vars PROVE TypeOK'
    OBVIOUS
<1>1. CASE UNCHANGED vars
    BY <1>1 DEF TypeOK, RequestOK, vars
<1>2. CASE Next
    BY <1>2, ReceiveTypes, StepTypes, OtherTypes DEF Next
<1> QED BY <1>1, <1>2

LEMMA TypeInit == Init => TypeOK
<1> SUFFICES ASSUME Init PROVE TypeOK
    OBVIOUS
<1>1. idle \subseteq DOMAIN Services
    BY DEF Init, Concerned
<1>2. Len(path) = 0 /\ at = 1
    BY DEF Init
<1>3. at \in 1..(Len(path) + 1)
    BY <1>2
<1>4. changed \subseteq TablesOf(path)
    BY DEF Init
<1> QED BY <1>1, <1>3, <1>4 DEF Init, TypeOK, RequestOK

\* A request stays within a path of its endpoint (api/routers).
THEOREM RequestsStayTyped == Spec => []TypeOK
<1> QED BY TypeInit, TypeStep, PTL DEF Spec
------------------------------------------------------------------------------
LooksTwice(p) ==
    \E i, j \in 1..Len(p) :
        /\ i < j
        /\ p[i].op = "look" /\ p[j].op = "look"
        /\ \E key \in p[i].tables \cap p[j].tables : key[2] \in Written

\* What the endpoints have to be for their answers to show one state.
OnceUnlessListed ==
    \A r \in DOMAIN Routers : \A e \in DOMAIN Routers[r] : \A p \in Routers[r][e] :
        LooksTwice(p) => <<r, e>> \in Rereading

\* Only tables behind the request have changed.
ChangedBehind ==
    \A key \in changed :
        /\ key[2] \in Written
        /\ \E i \in 1..(at - 1) : path[i].op = "look" /\ key \in path[i].tables

TornLooksTwice == torn => LooksTwice(path)

Consistent == TypeOK /\ ChangedBehind /\ TornLooksTwice

\* Moving forward keeps behind what was behind.
LEMMA BehindStays ==
    ASSUME Consistent, path' = path, changed' = changed,
           at' \in Nat, at <= at'
    PROVE  ChangedBehind'
<1> SUFFICES ASSUME NEW key \in changed
             PROVE  /\ key[2] \in Written
                    /\ \E i \in 1..(at' - 1) : path[i].op = "look" /\ key \in path[i].tables
    BY DEF ChangedBehind
<1>1. PICK i \in 1..(at - 1) : path[i].op = "look" /\ key \in path[i].tables
    BY DEF Consistent, ChangedBehind
<1>2. at \in Nat
    BY PathTypes DEF Consistent, TypeOK
<1>3. i \in 1..(at' - 1)
    <2> DEFINE from == at
               to == at'
    <2>1. from \in Nat /\ to \in Nat /\ from <= to /\ i \in 1..(from - 1)
        BY <1>2
    <2> HIDE DEF from, to
    <2>2. i \in 1..(to - 1)
        BY <2>1
    <2> QED BY <2>2 DEF to
<1>4. key[2] \in Written
    BY DEF Consistent, ChangedBehind
<1>5. \E k \in 1..(at' - 1) : path[k].op = "look" /\ key \in path[k].tables
    BY <1>1, <1>3, Zenon
<1> QED BY <1>4, <1>5

\* A look that finds a changed table is the second at that table.
LEMMA LookTears == Consistent /\ Look => TornLooksTwice'
<1> SUFFICES ASSUME Consistent, Look PROVE TornLooksTwice'
    OBVIOUS
<1>1. path' = path
    BY DEF Look
<1>2. CASE torn
    BY <1>1, <1>2 DEF Consistent, TornLooksTwice, LooksTwice
<1>3. CASE path[at].tables \cap changed # {}
    <2>1. PICK key \in changed : key \in path[at].tables
        BY <1>3
    <2>2. PICK i \in 1..(at - 1) : path[i].op = "look" /\ key \in path[i].tables
        BY DEF Consistent, ChangedBehind
    <2>3. key[2] \in Written
        BY DEF Consistent, ChangedBehind
    <2>4. at \in 1..Len(path) /\ path[at].op = "look"
        BY PathTypes DEF Look, Busy, Consistent, TypeOK
    <2>5. i \in 1..Len(path) /\ i < at
        BY <2>4, PathTypes DEF Consistent
    <2>6. LooksTwice(path)
        BY <2>1, <2>2, <2>3, <2>4, <2>5 DEF LooksTwice
    <2> QED BY <1>1, <2>6 DEF TornLooksTwice, LooksTwice
<1>4. torn' => torn \/ path[at].tables \cap changed # {}
    BY DEF Look
<1>5. CASE ~torn'
    BY <1>5 DEF TornLooksTwice
<1> QED BY <1>2, <1>3, <1>4, <1>5

\* A commit changes a table the request has looked at.
LEMMA CommitBehind == Consistent /\ Commit => ChangedBehind'
<1> SUFFICES ASSUME Consistent, Commit PROVE ChangedBehind'
    OBVIOUS
<1>1. PICK i \in 1..(at - 1) : path[i].op = "look" /\
          \E key \in path[i].tables : key[2] \in Written /\ changed' = {key}
    BY DEF Commit
<1>2. PICK key \in path[i].tables : key[2] \in Written /\ changed' = {key}
    BY <1>1
<1>3. path' = path /\ at' = at
    BY DEF Commit
<1> QED BY <1>1, <1>2, <1>3 DEF ChangedBehind

LEMMA ConsistentStep == Consistent /\ [Next]_vars => Consistent'
<1> SUFFICES ASSUME Consistent, [Next]_vars PROVE Consistent'
    OBVIOUS
<1>1. TypeOK'
    BY TypeStep DEF Consistent
<1>2. at \in Nat /\ at' \in Nat
    <2>1. at \in Nat
        BY PathTypes DEF Consistent, TypeOK
    <2>2. CASE at' = at \/ at' = 1 \/ at' = at + 1
        BY <2>1, <2>2
    <2>3. CASE Catch
        BY <2>1, <2>3, PathTypes DEF Catch, NoSuchTable, Busy, Consistent, TypeOK
    <2> QED BY <2>1, <2>2, <2>3 DEF Next, Receive, Look, Fail, CreateTables, Respond, Commit,
                                    StartService, vars
<1>3. CASE Receive
    BY <1>1, <1>3 DEF Consistent, Receive, ChangedBehind, TornLooksTwice
<1>4. CASE Look
    <2>1. at' = at + 1
        BY <1>4 DEF Look
    <2>2. at <= at'
        BY <1>2, <2>1
    <2>3. ChangedBehind'
        BY <1>2, <1>4, <2>2, BehindStays DEF Look
    <2> QED BY <1>1, <1>4, <2>3, LookTears DEF Consistent
<1>5. CASE Commit
    <2>1. TornLooksTwice'
        BY <1>5 DEF Consistent, TornLooksTwice, LooksTwice, Commit
    <2> QED BY <1>1, <1>5, <2>1, CommitBehind DEF Consistent
<1>6. CASE \/ Catch \/ Fail \/ CreateTables \/ Respond \/ UNCHANGED vars
           \/ \E s \in DOMAIN Services : StartService(s)
    <2>1. path' = path /\ changed' = changed /\ torn' = torn
        BY <1>6 DEF Catch, Fail, CreateTables, Respond, StartService, vars
    <2>2. at <= at'
        <3>1. CASE Catch
            BY <1>2, <3>1, PathTypes DEF Catch, NoSuchTable, Busy, Consistent, TypeOK
        <3>2. CASE at' = at \/ at' = at + 1
            BY <1>2, <3>2
        <3> QED BY <1>6, <3>1, <3>2 DEF Fail, CreateTables, Respond, StartService, vars
    <2>3. ChangedBehind'
        BY <1>2, <2>1, <2>2, BehindStays
    <2>4. TornLooksTwice'
        BY <2>1 DEF Consistent, TornLooksTwice, LooksTwice
    <2> QED BY <1>1, <2>3, <2>4 DEF Consistent
<1> QED BY <1>3, <1>4, <1>5, <1>6 DEF Next

\* An endpoint whose paths look at each written table once answers from one
\* state of it, whenever other processes commit (api/routers, fetch_all and
\* fetch_one outside a transaction).
THEOREM AnswersShowOneState == OnceUnlessListed => (Spec => []OneStatePerAnswer)
<1> SUFFICES ASSUME OnceUnlessListed PROVE Spec => []OneStatePerAnswer
    OBVIOUS
<1>1. Init => Consistent
    <2> SUFFICES ASSUME Init PROVE Consistent
        OBVIOUS
    <2> QED BY TypeInit DEF Init, Consistent, ChangedBehind, TornLooksTwice
<1>2. Consistent => OneStatePerAnswer
    <2> SUFFICES ASSUME Consistent, torn PROVE <<router, endpoint>> \in Rereading
        BY DEF OneStatePerAnswer
    <2>1. LooksTwice(path)
        BY DEF Consistent, TornLooksTwice
    <2>2. path # <<>>
        BY <2>1 DEF LooksTwice
    <2> QED BY <2>1, <2>2 DEF Consistent, TypeOK, RequestOK, OnceUnlessListed
<1> QED BY <1>1, <1>2, ConsistentStep, PTL DEF Spec
==============================================================================
