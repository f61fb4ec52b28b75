------------------------------- MODULE Answers -------------------------------
(***************************************************************************)
(* The API answers from the three database files while the services of     *)
(* other processes write them.  An endpoint makes one SELECT after the     *)
(* other, each a transaction of its own, so a commit may fall between two  *)
(* of them; and a small service creates its tables only when it runs, so   *)
(* an endpoint that looks at them before fails.                            *)
(***************************************************************************)
EXTENDS Naturals, Sequences

CONSTANTS
    Routers,    \* for each router and endpoint, the paths it may take
    Core,       \* the tables opening the three files creates
    Services,   \* the tables each small service creates when it runs
    Launched,   \* the services main.py starts, or runs in the pipeline
    Written,    \* the names of the tables some job writes
    Rereading,  \* the endpoints that look at a table more than once
    Tableless   \* the endpoints that look at a table nobody creates

Keys == STRING \X STRING

Looks == [op : {"look", "create"}, tables : SUBSET Keys, rescue : Nat]

\* A handler stands within the endpoint, after the statement that threw.
WellFormed(path) ==
    /\ path \in Seq(Looks)
    /\ \A i \in 1..Len(path) : i + path[i].rescue <= Len(path) + 1

ASSUME AnswersAssumption ==
    /\ \A r \in DOMAIN Routers : \A e \in DOMAIN Routers[r] :
          \A path \in Routers[r][e] : WellFormed(path)
    /\ Launched \subseteq DOMAIN Services

VARIABLES
    router,    \* the router that is asked
    idle,      \* the services that have not run yet
    endpoint,  \* the endpoint that serves the request
    path,      \* what it looks at
    at,        \* where it is
    status,    \* of the request
    changed,   \* the tables that changed after the request looked at them
    torn       \* the request has seen two states of a table

vars == <<router, idle, endpoint, path, at, status, changed, torn>>

TablesOf(p) == UNION {p[i].tables : i \in 1..Len(p)}

Asks(r) == UNION {TablesOf(p) : p \in UNION {Routers[r][e] : e \in DOMAIN Routers[r]}}

\* Bound: at most one service has not run, one that concerns the router.
Concerned(r) == {s \in DOMAIN Services : Services[s] \cap Asks(r) # {}}

Init ==
    /\ router \in DOMAIN Routers
    /\ idle \in {{}} \cup {{s} : s \in Concerned(router)}
    /\ endpoint = "" /\ path = <<>> /\ at = 1
    /\ status = "free"
    /\ changed = {} /\ torn = FALSE

Missing(key) ==
    /\ key \notin Core
    /\ \A s \in DOMAIN Services : key \in Services[s] => s \in idle

\* Fault: what changed during the last request is not forgotten.
ReceiveRemembering ==
    /\ status = "free"
    /\ \E e \in DOMAIN Routers[router] : \E p \in Routers[router][e] :
          endpoint' = e /\ path' = p
    /\ at' = 1 /\ status' = "open" /\ torn' = FALSE
    /\ UNCHANGED <<router, idle, changed>>

Receive ==
    /\ status = "free"
    /\ \E e \in DOMAIN Routers[router] : \E p \in Routers[router][e] :
          endpoint' = e /\ path' = p
    /\ at' = 1 /\ status' = "open"
    /\ changed' = {} /\ torn' = FALSE
    /\ UNCHANGED <<router, idle>>

Busy(op) == status = "open" /\ at <= Len(path) /\ path[at].op = op

\* DBManager.fetch_all and fetch_one, outside any transaction
Look ==
    /\ Busy("look")
    /\ \A key \in path[at].tables : ~Missing(key)
    /\ at' = at + 1
    /\ torn' = (torn \/ path[at].tables \cap changed # {})
    /\ UNCHANGED <<router, idle, endpoint, path, status, changed>>

NoSuchTable == Busy("look") /\ \E key \in path[at].tables : Missing(key)

\* sqlite3.OperationalError, caught within the endpoint
Catch ==
    /\ NoSuchTable
    /\ path[at].rescue # 0
    /\ at' = at + path[at].rescue
    /\ UNCHANGED <<router, idle, endpoint, path, status, changed, torn>>

\* nobody catches it: status 500
Fail ==
    /\ NoSuchTable
    /\ path[at].rescue = 0
    /\ status' = "free"
    /\ UNCHANGED <<router, idle, endpoint, path, at, changed, torn>>

\* init_storage, called by the endpoint itself
CreateTables ==
    /\ Busy("create")
    /\ at' = at + 1
    /\ idle' = {s \in idle : ~(Services[s] \subseteq path[at].tables)}
    /\ UNCHANGED <<router, endpoint, path, status, changed, torn>>

Respond ==
    /\ status = "open"
    /\ at = Len(path) + 1
    /\ status' = "free"
    /\ UNCHANGED <<router, idle, endpoint, path, at, changed, torn>>

\* Another process commits.  Bound: once per request.
Commit ==
    /\ status = "open"
    /\ changed = {}
    /\ \E i \in 1..(at - 1) : path[i].op = "look" /\
          \E key \in path[i].tables : key[2] \in Written /\ changed' = {key}
    /\ UNCHANGED <<router, idle, endpoint, path, at, status, torn>>

\* The runner of a service calls init_storage before its first collection.
StartService(s) ==
    /\ s \in idle
    /\ idle' = idle \ {s}
    /\ UNCHANGED <<router, endpoint, path, at, status, changed, torn>>

Next ==
    \/ Receive \/ Look \/ Catch \/ Fail \/ CreateTables \/ Respond \/ Commit
    \/ \E s \in DOMAIN Services : StartService(s)

\* main.py starts the services resolve_modules leaves in its list, and those that
\* exit again: before long each has got as far as init_storage.
Fairness == \A s \in Launched : WF_vars(StartService(s))

Spec == Init /\ [][Next]_vars /\ Fairness
------------------------------------------------------------------------------
\* A request stays within one path of its endpoint.
RequestOK ==
    \/ endpoint = "" /\ path = <<>> /\ status = "free"
    \/ endpoint \in DOMAIN Routers[router] /\ path \in Routers[router][endpoint]

\* The types of the variables; a request never runs past the end of its path.
TypeOK ==
    /\ router \in DOMAIN Routers
    /\ idle \subseteq DOMAIN Services
    /\ RequestOK
    /\ at \in 1..(Len(path) + 1)
    /\ status \in {"free", "open"}
    /\ changed \subseteq TablesOf(path)
    /\ torn \in BOOLEAN

\* An answer shows each table in one state: a commit of another process never
\* falls between two looks at the same table (endpoints of api/routers), the
\* endpoints that look twice excepted.
OneStatePerAnswer == torn => <<router, endpoint>> \in Rereading

\* Sooner or later no request fails for want of a table, whatever had run before:
\* what still is missing at an endpoint is the tables of services that main.py does
\* not start (main.py:487), or the endpoint looks at tables nobody creates.
EndpointsComeAlive ==
    <>[][Fail => \/ <<router, endpoint>> \in Tableless
                 \/ \A key \in path[at].tables :
                       Missing(key) => \E s \in idle \ Launched : key \in Services[s]]_vars
==============================================================================
