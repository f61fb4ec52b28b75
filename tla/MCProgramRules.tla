---------------------------- MODULE MCProgramRules ----------------------------
(***************************************************************************)
(* The programs of MCPrograms keep the rules that the theorems of          *)
(* StoreProofs ask for.                                                    *)
(***************************************************************************)
EXTENDS Naturals, Sequences

JobPrograms == INSTANCE MCPrograms
Rules == INSTANCE ProgramRules

\* The places that can be reached from the ones in places with a step of flow.
RECURSIVE Reached(_, _)
Reached(flow, places) ==
    LET next == places \cup UNION {flow[i] : i \in places \cap DOMAIN flow}
    IN IF next = places THEN places ELSE Reached(flow, next)

Flow(program, places(_)) == [i \in DOMAIN program |-> places(i)]

After(program, i) ==
    IF program[i].op = "commit" THEN {} ELSE Rules!Normally(program, i)

WrittenAt(program) == {i \in DOMAIN program : program[i].op \in Rules!Writes}

Held(program) ==
    LET flow(i) == After(program, i)
    IN Reached(Flow(program, flow), UNION {Rules!Normally(program, i) : i \in WrittenAt(program)})

HeldDespiteFailures(program) ==
    LET failed(i) == IF program[i].op \in Rules!Failing THEN {Rules!Handler(program, i)} ELSE {}
        flow(i) == After(program, i) \cup failed(i)
    IN Reached(Flow(program, flow),
               UNION {Rules!Normally(program, i) : i \in WrittenAt(program)}
               \cup {Rules!Handler(program, i) :
                        i \in {k \in DOMAIN program : program[k].op \in Rules!Refusable}})

\* A job finds open what other jobs of its pool, that do not close their
\* sessions, have left.
Inherits(j) ==
    \E k \in JobPrograms!MCJobs \ JobPrograms!MCFresh :
        JobPrograms!MCPool[k] \cap JobPrograms!MCPool[j] # {}

LeftOpen(j) ==
    LET program == JobPrograms!MCProgram[j]
        failed(i) == IF program[i].op \in Rules!Failing THEN {Rules!Handler(program, i)} ELSE {}
        normal(i) == IF program[i].op \in Rules!Writes THEN {} ELSE After(program, i)
        flow(i) == normal(i) \cup failed(i)
    IN Reached(Flow(program, flow),
               {Rules!Handler(program, i) : i \in WrittenAt(program)}
               \cup IF Inherits(j) THEN {1} ELSE {})

\* The lists of jobs that break a rule leave none out and name none for nothing.
ASSUME ProgramsKeepTheRules ==
    LET jobs == JobPrograms!MCJobs
        program == JobPrograms!MCProgram
        histories == JobPrograms!AllHistories
    IN /\ \A j \in jobs :
            /\ Rules!Guards(program[j], DOMAIN histories)
            /\ Rules!Grows(program[j], {histories[latest] : latest \in DOMAIN histories})
            /\ Rules!HistoryFirst(program[j], histories)
            /\ Rules!Commits(program[j], Held(program[j]))
       /\ JobPrograms!MCSlow = {j \in jobs : ~Rules!AsksUnlocked(program[j], Held(program[j]))}
       /\ JobPrograms!MCUnrecorded =
            {j \in jobs \ JobPrograms!MCFresh :
                ~Rules!GivesBack(program[j], HeldDespiteFailures(program[j]))}
       /\ JobPrograms!MCRereading = {j \in jobs : ~Rules!ReadsFresh(program[j], LeftOpen(j))}
==============================================================================
