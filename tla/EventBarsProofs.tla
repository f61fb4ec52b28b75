--------------------------- MODULE EventBarsProofs ---------------------------
(***************************************************************************)
(* Proofs about EventBars: its types, and that every event of the stream   *)
(* is counted at most once, and exactly once while nothing fails, for any  *)
(* keys, bars, delays and limits.                                          *)
(***************************************************************************)
EXTENDS EventBars, FiniteSetTheorems, TLAPS

LEMMA ConstantTypes ==
    /\ Kinds \subseteq {"stream", "lookback", "newest"}
    /\ Horizon \in Nat /\ Delay \in Nat /\ Lookback \in Nat
    /\ Width \in Nat \ {0} /\ FetchLimit \in Nat \ {0}
    /\ Instants \subseteq Nat
BY BarsAssumption DEF BarsAssumption, Instants

\* Sets of instants are finite, so that they can be counted.
LEMMA Countable ==
    ASSUME NEW S \in SUBSET Instants
    PROVE  IsFiniteSet(S) /\ Cardinality(S) \in Nat
<1>1. IsFiniteSet(Instants)
  <2>1. Horizon \in Int /\ 0 \in Int
    BY ConstantTypes
  <2> QED
    BY <2>1, FS_Interval DEF Instants
<1> QED
  BY <1>1, FS_Subset, FS_CardinalityType

\* A part of a set of instants is no larger.
LEMMA Fewer ==
    ASSUME NEW S \in SUBSET Instants, NEW T \in SUBSET S
    PROVE  Cardinality(T) <= Cardinality(S)
BY Countable, FS_Subset

\* One more instant makes one more.
LEMMA OneMore ==
    ASSUME NEW S \in SUBSET Instants, NEW t \in Instants, t \notin S
    PROVE  Cardinality(S \union {t}) = Cardinality(S) + 1
BY Countable, FS_AddElement

LEMMA BarOfInstant ==
    ASSUME NEW t \in Instants
    PROVE  BarOf(t) \in Bars
BY DEF Bars

LEMMA BarsAreNat == Bars \subseteq Nat
<1> SUFFICES ASSUME NEW t \in Instants
             PROVE  BarOf(t) \in Nat
  BY DEF Bars
<1>1. t \in Nat /\ Width \in Nat \ {0}
  BY ConstantTypes
<1> QED
  BY <1>1 DEF BarOf

------------------------------------------------------------------------------
(***************************************************************************)
(* Types.                                                                  *)
(***************************************************************************)
LEMMA UpsertedType ==
    ASSUME TypeOK, NEW cells \in SUBSET Cells
    PROVE  Upserted(cells) \in Counts
<1>1. \A cell \in Cells : batch[cell] \in Nat /\ draft.history[cell] \in Nat
  BY DEF TypeOK, Tables, Counts
<1> QED
  BY <1>1 DEF Upserted, Counts

LEMMA ShownType ==
    ASSUME TypeOK, NEW cells \in SUBSET Cells, NEW key \in Keys, Newest(key, cells) # {}
    PROVE  /\ Shown(key, cells) \in Rows
           /\ Shown(key, cells).bar \in Newest(key, cells)
           /\ Shown(key, cells).count = batch[<<key, Shown(key, cells).bar>>]
<1> DEFINE bar == CHOOSE bar \in Newest(key, cells) : TRUE
<1>1. bar \in Newest(key, cells)
  OBVIOUS
<1>2. bar \in Bars
  BY <1>1 DEF Newest
<1>3. batch[<<key, bar>>] \in Nat
  BY <1>2 DEF TypeOK, Counts, Cells
<1>4. Shown(key, cells) = [bar |-> bar, count |-> batch[<<key, bar>>]]
  BY DEF Shown
<1> HIDE DEF bar
<1> QED
  BY <1>1, <1>2, <1>3, <1>4 DEF Rows

\* A latest row is kept, or it shows a newest bar that is no older.
LEMMA LatestOfRow ==
    ASSUME TypeOK, NEW cells \in SUBSET Cells, NEW key \in Keys
    PROVE  \/ LatestOf(cells)[key] = draft.latest[key]
           \/ /\ Newest(key, cells) # {}
              /\ LatestOf(cells)[key] = Shown(key, cells)
              /\ \/ draft.latest[key].count = 0
                 \/ Shown(key, cells).bar >= draft.latest[key].bar
<1>1. CASE \E bar \in Newest(key, cells) :
              draft.latest[key].count = 0 \/ bar >= draft.latest[key].bar
  <2>1. PICK bar \in Newest(key, cells) :
            draft.latest[key].count = 0 \/ bar >= draft.latest[key].bar
    BY <1>1
  <2>2. LatestOf(cells)[key] = Shown(key, cells)
    BY <1>1 DEF LatestOf
  <2>3. Shown(key, cells).bar \in Newest(key, cells)
    BY <2>1, ShownType
  <2>4. Shown(key, cells).bar >= bar
    BY <2>1, <2>3 DEF Newest
  <2>5. draft.latest[key].bar \in Nat /\ bar \in Nat /\ Shown(key, cells).bar \in Nat
    BY <2>1, <2>3, BarsAreNat DEF TypeOK, Tables, Rows, Newest
  <2> QED
    BY <2>1, <2>2, <2>4, <2>5
<1>2. CASE ~ \E bar \in Newest(key, cells) :
                draft.latest[key].count = 0 \/ bar >= draft.latest[key].bar
  BY <1>2 DEF LatestOf
<1> QED
  BY <1>1, <1>2

LEMMA LatestOfType ==
    ASSUME TypeOK, NEW cells \in SUBSET Cells
    PROVE  LatestOf(cells) \in [Keys -> Rows]
<1>1. \A key \in Keys : LatestOf(cells)[key] \in Rows
  BY LatestOfRow, ShownType DEF TypeOK, Tables
<1>2. LatestOf(cells) = [key \in Keys |-> LatestOf(cells)[key]]
  BY DEF LatestOf
<1> QED
  BY ONLY <1>1, <1>2

LEMMA SavedAreCells == Saved \subseteq Cells
BY DEF Saved

LEMMA NothingType == Nothing \in Counts
BY DEF Nothing, Counts

\* What a poll counts are numbers.
LEMMA PolledType ==
    ASSUME TypeOK, NEW key \in Keys, NEW some \in Fetched(key) \union {{}}
    PROVE  some \subseteq events[key] /\ events[key] \subseteq Instants
BY DEF TypeOK, Fetched

LEMMA InitTypes == Init => TypeOK
<1> SUFFICES ASSUME Init PROVE TypeOK
  OBVIOUS
<1>1. 0 \in Instants
  BY ConstantTypes DEF Instants
<1>2. BarOf(0) \in Bars
  BY <1>1, BarOfInstant
<1>3. 0 \in Bars
  <2>1. Width \in Nat \ {0}
    BY ConstantTypes
  <2>2. 0 \div Width = 0
    BY <2>1
  <2> QED
    BY <1>2, <2>2 DEF BarOf
<1>4. Empty \in Tables
  BY <1>3, NothingType DEF Empty, Tables, Rows
<1> QED
  BY <1>1, <1>4, NothingType DEF Init, TypeOK

\* The tables and what is in memory keep their types in every step, so
\* that the counts below are numbers.
THEOREM TypeCorrect == Spec => []TypeOK
<1>1. Init => TypeOK
  BY InitTypes
<1>2. TypeOK /\ [Next]_vars => TypeOK'
  <2> SUFFICES ASSUME TypeOK, [Next]_vars PROVE TypeOK'
    OBVIOUS
  <2>1. CASE Tick
    BY <2>1, ConstantTypes DEF Tick, TypeOK, Instants
  <2>2. ASSUME NEW key \in Keys, Happen(key) PROVE TypeOK'
    BY <2>2 DEF Happen, TypeOK
  <2>3. ASSUME NEW key \in Keys, NEW t \in Instants, Add(key, t) PROVE TypeOK'
    <3>1. <<key, BarOf(t)>> \in Cells
      BY BarOfInstant DEF Cells
    <3>2. buckets' \in Counts
      BY <2>3, <3>1 DEF Add, TypeOK, Counts
    <3>3. events' \in [Keys -> SUBSET Instants]
      BY <2>3 DEF Add, TypeOK
    <3> QED
      BY <2>3, <3>2, <3>3 DEF Add, TypeOK
  <2>4. CASE Flush
    BY <2>4, NothingType DEF Flush, TypeOK
  <2>5. CASE Poll
    <3>1. PICK fetched \in [Keys -> SUBSET Instants] :
            batch' = [cell \in Cells |->
                         Cardinality({t \in fetched[cell[1]] : BarOf(t) = cell[2]})]
      BY <2>5 DEF Poll
    <3>2. \A cell \in Cells :
            Cardinality({t \in fetched[cell[1]] : BarOf(t) = cell[2]}) \in Nat
      <4> TAKE cell \in Cells
      <4>1. cell[1] \in Keys
        BY DEF Cells
      <4>2. {t \in fetched[cell[1]] : BarOf(t) = cell[2]} \in SUBSET Instants
        BY <4>1
      <4> QED
        BY <4>2, Countable
    <3>3. batch' \in Counts
      BY <3>1, <3>2 DEF Counts
    <3> QED
      BY <2>5, <3>3 DEF Poll, TypeOK
  <2>6. CASE UpsertHistory
    BY <2>6, UpsertedType, SavedAreCells DEF UpsertHistory, TypeOK, Tables
  <2>7. CASE UpsertLatest
    BY <2>7, LatestOfType, SavedAreCells DEF UpsertLatest, TypeOK, Tables
  <2>8. CASE CommitSave
    BY <2>8, NothingType DEF CommitSave, TypeOK
  <2>9. CASE Fail
    <3>1. PICK cells \in SUBSET Saved :
            \/ at = "history" /\ draft' = [draft EXCEPT !.history = Upserted(cells)]
            \/ at = "latest" /\ draft' = [draft EXCEPT !.latest = LatestOf(cells)]
            \/ at = "commit" /\ draft' = draft
      BY <2>9 DEF Fail
    <3>2. cells \in SUBSET Cells
      BY SavedAreCells
    <3>3. draft' \in Tables
      BY <3>1, <3>2, UpsertedType, LatestOfType DEF TypeOK, Tables
    <3>4. stored' \in Tables
      BY <2>9, <3>3 DEF Fail, TypeOK
    <3> QED
      BY <2>9, <3>3, <3>4, NothingType DEF Fail, TypeOK
  <2>10. CASE Restart
    BY <2>10, NothingType DEF Restart, TypeOK
  <2>11. CASE UNCHANGED vars
    BY <2>11 DEF vars, TypeOK
  <2> QED
    BY <2>1, <2>2, <2>3, <2>4, <2>5, <2>6, <2>7, <2>8, <2>9, <2>10, <2>11 DEF Next
<1> QED
  BY <1>1, <1>2, PTL DEF Spec

------------------------------------------------------------------------------
(***************************************************************************)
(* Counting.  The committed rows of the stream are never ahead of its open *)
(* transaction, which a restart falls back from; what a poll is about to   *)
(* write has happened.                                                     *)
(***************************************************************************)
StoredWithin ==
    \A cell \in Cells :
        /\ kind = "stream" => stored.history[cell] <= draft.history[cell]
        /\ kind # "stream" => stored.history[cell] <= Happened(cell)

PolledWithin ==
    kind # "stream" => \A cell \in Cells : batch[cell] <= Happened(cell)

CountInv ==
    /\ TypeOK
    /\ CountedAtMostOnce
    /\ LostOnlyInFailures
    /\ StoredWithin
    /\ PolledWithin

LEMMA Numbers ==
    ASSUME TypeOK, NEW cell \in Cells
    PROVE  /\ draft.history[cell] \in Nat /\ stored.history[cell] \in Nat
           /\ buckets[cell] \in Nat /\ batch[cell] \in Nat
           /\ Happened(cell) \in Nat /\ Unsaved(cell) \in Nat
<1>1. cell[1] \in Keys
  BY DEF Cells
<1>2. {t \in events[cell[1]] : BarOf(t) = cell[2]} \in SUBSET Instants
  BY <1>1 DEF TypeOK
<1>3. Happened(cell) \in Nat
  BY <1>2, Countable DEF Happened
<1>4. /\ draft.history[cell] \in Nat /\ stored.history[cell] \in Nat
      /\ buckets[cell] \in Nat /\ batch[cell] \in Nat
  BY DEF TypeOK, Tables, Counts
<1> QED
  BY <1>3, <1>4 DEF Unsaved

LEMMA CountInit == Init => CountInv
<1> SUFFICES ASSUME Init PROVE CountInv
  OBVIOUS
<1>1. TypeOK
  <2>1. Init => TypeOK
    BY InitTypes
  <2> QED
    BY <2>1
<1>2. \A cell \in Cells : Happened(cell) = 0
  <2> TAKE cell \in Cells
  <2>1. cell[1] \in Keys
    BY DEF Cells
  <2>2. {t \in events[cell[1]] : BarOf(t) = cell[2]} = {}
    BY <2>1 DEF Init
  <2> QED
    BY <2>2, FS_EmptySet DEF Happened
<1>3. \A cell \in Cells :
        /\ draft.history[cell] = 0 /\ stored.history[cell] = 0
        /\ buckets[cell] = 0 /\ batch[cell] = 0
  BY DEF Init, Empty, Nothing
<1> QED
  BY <1>1, <1>2, <1>3
     DEF Init, CountInv, CountedAtMostOnce, LostOnlyInFailures, StoredWithin,
         PolledWithin, Unsaved

\* Only an event changes what has happened.
LEMMA HappenedSame ==
    ASSUME UNCHANGED events, NEW cell \in Cells
    PROVE  Happened(cell)' = Happened(cell)
BY DEF Happened

LEMMA AddCounts ==
    ASSUME TypeOK, NEW key \in Keys, NEW t \in Instants, t \notin events[key],
           events' = [events EXCEPT ![key] = @ \union {t}],
           NEW cell \in Cells
    PROVE  Happened(cell)' = IF cell = <<key, BarOf(t)>> THEN Happened(cell) + 1 ELSE Happened(cell)
<1> DEFINE S == {u \in events[cell[1]] : BarOf(u) = cell[2]}
<1>1. cell[1] \in Keys /\ cell = <<cell[1], cell[2]>>
  BY DEF Cells
<1>2. S \in SUBSET Instants
  BY <1>1 DEF TypeOK
<1>3. CASE cell = <<key, BarOf(t)>>
  <2>1. {u \in events'[cell[1]] : BarOf(u) = cell[2]} = S \union {t}
    BY <1>1, <1>3 DEF TypeOK
  <2>2. t \notin S
    BY <1>3
  <2> HIDE DEF S
  <2>3. Cardinality(S \union {t}) = Cardinality(S) + 1
    BY <1>2, <2>2, OneMore
  <2> QED
    BY <1>3, <2>1, <2>3 DEF Happened, S
<1>4. CASE cell # <<key, BarOf(t)>>
  <2>1. {u \in events'[cell[1]] : BarOf(u) = cell[2]} = S
    BY <1>1, <1>4 DEF TypeOK
  <2> QED
    BY <1>4, <2>1 DEF Happened
<1> QED
  BY <1>3, <1>4

LEMMA CountAdd ==
    ASSUME CountInv, TypeOK', NEW key \in Keys, NEW t \in Instants, Add(key, t)
    PROVE  CountInv'
<1> DEFINE at1 == <<key, BarOf(t)>>
<1>1. kind = "stream" /\ UNCHANGED <<kind, at, draft, stored, batch, clean>>
  BY DEF Add
<1>2. \A cell \in Cells :
        /\ Happened(cell)' = IF cell = at1 THEN Happened(cell) + 1 ELSE Happened(cell)
        /\ buckets'[cell] = IF cell = at1 THEN buckets[cell] + 1 ELSE buckets[cell]
  BY AddCounts DEF Add, CountInv, TypeOK, Counts
<1>3. \A cell \in Cells :
        Unsaved(cell)' = IF cell = at1 THEN Unsaved(cell) + 1 ELSE Unsaved(cell)
  BY <1>1, <1>2, Numbers DEF Unsaved, CountInv
<1>4. \A cell \in Cells :
        draft.history[cell] \in Nat /\ Happened(cell) \in Nat /\ Unsaved(cell) \in Nat
  BY Numbers DEF CountInv
<1> HIDE DEF at1
<1>5. CountedAtMostOnce' /\ LostOnlyInFailures'
  BY <1>1, <1>2, <1>3, <1>4 DEF CountInv, CountedAtMostOnce, LostOnlyInFailures
<1> QED
  BY <1>1, <1>5 DEF CountInv, StoredWithin, PolledWithin

LEMMA CountHappen ==
    ASSUME CountInv, TypeOK', NEW key \in Keys, Happen(key)
    PROVE  CountInv'
<1>1. kind # "stream" /\ UNCHANGED <<kind, at, draft, stored, batch, buckets, clean>>
  BY DEF Happen
<1>2. now \in Instants
  BY DEF CountInv, TypeOK
<1>3. \A cell \in Cells : Happened(cell)' = Happened(cell) \/ Happened(cell)' = Happened(cell) + 1
  BY <1>2, AddCounts DEF Happen, CountInv
<1>4. \A cell \in Cells :
        /\ Happened(cell) \in Nat /\ draft.history[cell] \in Nat
        /\ stored.history[cell] \in Nat /\ batch[cell] \in Nat
  BY Numbers DEF CountInv
<1> QED
  BY <1>1, <1>3, <1>4
     DEF CountInv, CountedAtMostOnce, LostOnlyInFailures, StoredWithin, PolledWithin

LEMMA CountFlush ==
    ASSUME CountInv, TypeOK', Flush
    PROVE  CountInv'
<1>1. /\ kind = "stream" /\ UNCHANGED <<kind, draft, stored, clean>>
      /\ at = "idle" /\ at' = "history" /\ batch' = buckets /\ buckets' = Nothing
  BY DEF Flush
<1>2. \A cell \in Cells : Happened(cell)' = Happened(cell)
  BY HappenedSame DEF Flush
<1>3. \A cell \in Cells : Unsaved(cell)' = Unsaved(cell)
  BY <1>1, Numbers DEF Unsaved, Nothing, CountInv
<1> QED
  BY <1>1, <1>2, <1>3
     DEF CountInv, CountedAtMostOnce, LostOnlyInFailures, StoredWithin, PolledWithin

LEMMA CountPoll ==
    ASSUME CountInv, TypeOK', Poll
    PROVE  CountInv'
<1>1. kind # "stream" /\ UNCHANGED <<kind, draft, stored, clean>>
  BY DEF Poll
<1>2. \A cell \in Cells : Happened(cell)' = Happened(cell)
  BY HappenedSame DEF Poll
<1>3. PICK fetched \in [Keys -> SUBSET Instants] :
        /\ \A key \in Keys : fetched[key] \in Fetched(key) \union {{}}
        /\ batch' = [cell \in Cells |->
                        Cardinality({t \in fetched[cell[1]] : BarOf(t) = cell[2]})]
  BY DEF Poll
<1>4. \A cell \in Cells : batch'[cell] <= Happened(cell)
  <2> TAKE cell \in Cells
  <2>1. cell[1] \in Keys
    BY DEF Cells
  <2>2. {t \in events[cell[1]] : BarOf(t) = cell[2]} \in SUBSET Instants
    BY <2>1 DEF TypeOK, CountInv
  <2>3. fetched[cell[1]] \subseteq events[cell[1]]
    BY <1>3, <2>1, PolledType DEF CountInv
  <2>4. {t \in fetched[cell[1]] : BarOf(t) = cell[2]}
           \in SUBSET {t \in events[cell[1]] : BarOf(t) = cell[2]}
    BY <2>3
  <2>5. Cardinality({t \in fetched[cell[1]] : BarOf(t) = cell[2]}) <= Happened(cell)
    BY <2>2, <2>4, Fewer DEF Happened
  <2>6. Happened(cell) \in Nat
    BY Numbers DEF CountInv
  <2> QED
    BY <1>3, <2>5, <2>6
<1> QED
  BY <1>1, <1>2, <1>4
     DEF CountInv, CountedAtMostOnce, LostOnlyInFailures, StoredWithin, PolledWithin

\* Upserting some rows of the batch: the stream's rows grow by the batch, a
\* poll's are replaced.
LEMMA UpsertedRow ==
    ASSUME TypeOK, NEW cells \in SUBSET Saved, NEW cell \in Cells
    PROVE  /\ kind = "stream" =>
                /\ Upserted(cells)[cell] >= draft.history[cell]
                /\ Upserted(cells)[cell] <= draft.history[cell] + batch[cell]
                /\ cells = Saved => Upserted(cells)[cell] = draft.history[cell] + batch[cell]
           /\ kind # "stream" => Upserted(cells)[cell] \in {draft.history[cell], batch[cell]}
<1>1. draft.history[cell] \in Nat /\ batch[cell] \in Nat
  BY Numbers
<1>2. cell \notin Saved => batch[cell] = 0
  BY <1>1 DEF Saved
<1>3. CASE cell \in cells
  <2>1. Upserted(cells)[cell] = batch[cell] + (IF kind = "stream" THEN draft.history[cell] ELSE 0)
    BY <1>3 DEF Upserted
  <2> QED
    BY <1>1, <2>1
<1>4. CASE cell \notin cells
  <2>1. Upserted(cells)[cell] = draft.history[cell]
    BY <1>4 DEF Upserted
  <2>2. cells = Saved => batch[cell] = 0
    BY <1>2, <1>4
  <2> QED
    BY <1>1, <2>1, <2>2
<1> QED
  BY <1>3, <1>4

LEMMA CountUpsertHistory ==
    ASSUME CountInv, TypeOK', UpsertHistory
    PROVE  CountInv'
<1>1. /\ UNCHANGED <<kind, buckets, batch, stored, clean>>
      /\ at = "history" /\ at' = "latest"
      /\ draft' = [draft EXCEPT !.history = Upserted(Saved)]
  BY DEF UpsertHistory
<1>2. draft'.history = Upserted(Saved)
  BY <1>1 DEF CountInv, TypeOK, Tables
<1>3. \A cell \in Cells : Happened(cell)' = Happened(cell)
  BY HappenedSame DEF UpsertHistory
<1>4. \A cell \in Cells :
        /\ Unsaved(cell) = buckets[cell] + batch[cell]
        /\ Unsaved(cell)' = buckets[cell]
  BY <1>1, Numbers DEF Unsaved, CountInv
<1>5. \A cell \in Cells :
        /\ Happened(cell) \in Nat /\ draft.history[cell] \in Nat /\ buckets[cell] \in Nat
        /\ stored.history[cell] \in Nat /\ batch[cell] \in Nat
        /\ draft'.history[cell] \in Nat
  BY Numbers, <1>2, UpsertedType DEF CountInv, Counts, Saved
<1>6. \A cell \in Cells :
        /\ kind = "stream" => draft'.history[cell] = draft.history[cell] + batch[cell]
        /\ kind # "stream" => draft'.history[cell] \in {draft.history[cell], batch[cell]}
  BY <1>2, UpsertedRow DEF CountInv
<1> QED
  BY <1>1, <1>3, <1>4, <1>5, <1>6
     DEF CountInv, CountedAtMostOnce, LostOnlyInFailures, StoredWithin, PolledWithin

LEMMA CountUpsertLatest ==
    ASSUME CountInv, TypeOK', UpsertLatest
    PROVE  CountInv'
<1>1. /\ UNCHANGED <<kind, buckets, batch, stored, clean>>
      /\ at = "latest" /\ at' = "commit"
      /\ draft'.history = draft.history
  BY DEF UpsertLatest, CountInv, TypeOK, Tables
<1>2. \A cell \in Cells : Happened(cell)' = Happened(cell)
  BY HappenedSame DEF UpsertLatest
<1>3. \A cell \in Cells : Unsaved(cell)' = Unsaved(cell)
  BY <1>1 DEF Unsaved
<1> QED
  BY <1>1, <1>2, <1>3
     DEF CountInv, CountedAtMostOnce, LostOnlyInFailures, StoredWithin, PolledWithin

LEMMA CountCommit ==
    ASSUME CountInv, TypeOK', CommitSave
    PROVE  CountInv'
<1>1. /\ UNCHANGED <<kind, buckets, draft, clean>> /\ stored' = draft
      /\ at = "commit" /\ at' = "idle" /\ batch' = Nothing
  BY DEF CommitSave
<1>2. \A cell \in Cells : Happened(cell)' = Happened(cell)
  BY HappenedSame DEF CommitSave
<1>3. \A cell \in Cells : Unsaved(cell)' = Unsaved(cell) /\ batch'[cell] = 0
  BY <1>1 DEF Unsaved, Nothing
<1>4. \A cell \in Cells : Happened(cell) \in Nat /\ draft.history[cell] \in Nat
  BY Numbers DEF CountInv
<1> QED
  BY <1>1, <1>2, <1>3, <1>4
     DEF CountInv, CountedAtMostOnce, LostOnlyInFailures, StoredWithin, PolledWithin

\* What a failed save leaves of the rows.
LEMMA FailedRows ==
    ASSUME TypeOK, Fail, NEW cell \in Cells
    PROVE  /\ kind = "stream" =>
                /\ draft'.history[cell] >= draft.history[cell]
                /\ draft'.history[cell] <= draft.history[cell]
                                           + (IF at = "history" THEN batch[cell] ELSE 0)
           /\ kind # "stream" => draft'.history[cell] \in {draft.history[cell], batch[cell]}
<1>1. PICK cells \in SUBSET Saved :
        \/ at = "history" /\ draft' = [draft EXCEPT !.history = Upserted(cells)]
        \/ at = "latest" /\ draft' = [draft EXCEPT !.latest = LatestOf(cells)]
        \/ at = "commit" /\ draft' = draft
  BY DEF Fail
<1>2. draft.history[cell] \in Nat /\ batch[cell] \in Nat
  BY Numbers
<1>3. CASE at = "history" /\ draft' = [draft EXCEPT !.history = Upserted(cells)]
  <2>1. draft'.history = Upserted(cells)
    BY <1>3 DEF TypeOK, Tables
  <2> QED
    BY <1>3, <2>1, UpsertedRow
<1>4. CASE \/ at = "latest" /\ draft' = [draft EXCEPT !.latest = LatestOf(cells)]
           \/ at = "commit" /\ draft' = draft
  <2>1. draft'.history = draft.history
    BY <1>4 DEF TypeOK, Tables
  <2> QED
    BY <1>2, <1>4, <2>1
<1> QED
  BY <1>1, <1>3, <1>4

LEMMA CountFail ==
    ASSUME CountInv, TypeOK', Fail
    PROVE  CountInv'
<1>1. /\ UNCHANGED <<kind, buckets>> /\ at' = "idle" /\ batch' = Nothing /\ clean' = FALSE
      /\ kind = "stream" => stored' = stored
      /\ stored' \in {stored, draft'}
  BY DEF Fail
<1>2. \A cell \in Cells : Happened(cell)' = Happened(cell)
  BY HappenedSame DEF Fail
<1>3. \A cell \in Cells : Unsaved(cell)' = buckets[cell] /\ batch'[cell] = 0
  BY <1>1, Numbers DEF Unsaved, Nothing, CountInv
<1>4. \A cell \in Cells :
        /\ Happened(cell) \in Nat /\ draft.history[cell] \in Nat /\ buckets[cell] \in Nat
        /\ stored.history[cell] \in Nat /\ batch[cell] \in Nat
        /\ draft'.history[cell] \in Nat
  <2>1. \A cell \in Cells : draft'.history[cell] \in Nat
    BY DEF TypeOK, Tables, Counts
  <2> QED
    BY <2>1, Numbers DEF CountInv
<1>5. \A cell \in Cells :
        /\ kind = "stream" =>
             /\ draft'.history[cell] >= draft.history[cell]
             /\ draft'.history[cell] + buckets[cell] <= draft.history[cell] + Unsaved(cell)
        /\ kind # "stream" => draft'.history[cell] \in {draft.history[cell], batch[cell]}
  BY <1>4, FailedRows DEF Unsaved, CountInv
<1>6. CountedAtMostOnce'
  <2> SUFFICES ASSUME NEW cell \in Cells
               PROVE  draft'.history[cell] + (IF kind = "stream" THEN Unsaved(cell)' ELSE 0)
                        <= Happened(cell)
    BY <1>1, <1>2 DEF CountedAtMostOnce
  <2>1. Unsaved(cell) \in Nat
    BY Numbers DEF CountInv
  <2> QED
    BY <2>1, <1>3, <1>4, <1>5 DEF CountInv, CountedAtMostOnce, PolledWithin
<1>7. StoredWithin'
  BY <1>1, <1>2, <1>4, <1>5 DEF CountInv, StoredWithin, CountedAtMostOnce, PolledWithin
<1>8. PolledWithin' /\ LostOnlyInFailures'
  BY <1>1, <1>2, <1>3, <1>4 DEF PolledWithin, LostOnlyInFailures
<1> QED
  BY <1>6, <1>7, <1>8 DEF CountInv

LEMMA CountRestart ==
    ASSUME CountInv, TypeOK', Restart
    PROVE  CountInv'
<1>1. /\ UNCHANGED <<kind, stored>> /\ at' = "idle" /\ clean' = FALSE
      /\ batch' = Nothing /\ buckets' = Nothing /\ draft' = stored
  BY DEF Restart
<1>2. \A cell \in Cells : Happened(cell)' = Happened(cell)
  BY HappenedSame DEF Restart
<1>3. \A cell \in Cells : Unsaved(cell)' = 0 /\ batch'[cell] = 0
  BY <1>1 DEF Unsaved, Nothing
<1>4. \A cell \in Cells :
        /\ Happened(cell) \in Nat /\ draft.history[cell] \in Nat
        /\ stored.history[cell] \in Nat /\ Unsaved(cell) \in Nat
  BY Numbers DEF CountInv
<1> QED
  BY <1>1, <1>2, <1>3, <1>4
     DEF CountInv, CountedAtMostOnce, LostOnlyInFailures, StoredWithin, PolledWithin

LEMMA CountStep == CountInv /\ TypeOK' /\ [Next]_vars => CountInv'
<1> SUFFICES ASSUME CountInv, TypeOK', [Next]_vars PROVE CountInv'
  OBVIOUS
<1>1. CASE Tick \/ UNCHANGED vars
  <2>1. UNCHANGED <<kind, events, buckets, batch, at, draft, stored, clean>>
    BY <1>1 DEF Tick, vars
  <2>2. \A cell \in Cells : Happened(cell)' = Happened(cell) /\ Unsaved(cell)' = Unsaved(cell)
    BY <2>1, HappenedSame DEF Unsaved
  <2> QED
    BY <2>1, <2>2
       DEF CountInv, CountedAtMostOnce, LostOnlyInFailures, StoredWithin, PolledWithin
<1> QED
  BY <1>1, CountAdd, CountHappen, CountFlush, CountPoll, CountUpsertHistory,
     CountUpsertLatest, CountCommit, CountFail, CountRestart
     DEF Next

LEMMA CountHolds == Spec => []CountInv
<1>1. Init => CountInv
  BY CountInit
<1>2. CountInv /\ TypeOK' /\ [Next]_vars => CountInv'
  BY CountStep
<1> QED
  BY <1>1, <1>2, TypeCorrect, PTL DEF Spec

\* No event is counted twice, whatever is flushed, fails or is restarted.
THEOREM CountedOnce == Spec => []CountedAtMostOnce
<1>1. CountInv => CountedAtMostOnce
  BY DEF CountInv
<1> QED
  BY <1>1, CountHolds, PTL

\* As long as nothing fails, the stream's events are in its rows or in memory.
THEOREM NothingIsLost == Spec => []LostOnlyInFailures
<1>1. CountInv => LostOnlyInFailures
  BY DEF CountInv
<1> QED
  BY <1>1, CountHolds, PTL

------------------------------------------------------------------------------
(***************************************************************************)
(* The latest rows.                                                        *)
(***************************************************************************)
Within(tables) ==
    \A key \in Keys :
        tables.latest[key].count <= tables.history[<<key, tables.latest[key].bar>>]

\* The stream's latest rows stay within the history, also in a transaction
\* that is still open: before they are upserted their bars have been.
LatestInv ==
    kind = "stream" =>
        /\ Within(draft)
        /\ Within(stored)
        /\ at = "latest" => \A cell \in Saved : batch[cell] <= draft.history[cell]

\* The open transaction shows a bar no older than the committed row does.
AheadInv ==
    \A key \in Keys :
        stored.latest[key].count > 0 =>
            /\ draft.latest[key].count > 0
            /\ draft.latest[key].bar >= stored.latest[key].bar

\* Rows that are upserted show a bar with an event, no older than before.
LEMMA LatestOfNewer ==
    ASSUME TypeOK, NEW cells \in SUBSET Saved, NEW key \in Keys, draft.latest[key].count > 0
    PROVE  /\ LatestOf(cells)[key].count > 0
           /\ LatestOf(cells)[key].bar >= draft.latest[key].bar
<1>1. cells \in SUBSET Cells
  BY DEF Saved
<1>2. draft.latest[key].bar \in Nat /\ draft.latest[key].count \in Nat
  BY BarsAreNat DEF TypeOK, Tables, Rows
<1>3. CASE LatestOf(cells)[key] = draft.latest[key]
  BY <1>2, <1>3
<1>4. CASE /\ Newest(key, cells) # {}
           /\ LatestOf(cells)[key] = Shown(key, cells)
           /\ \/ draft.latest[key].count = 0
              \/ Shown(key, cells).bar >= draft.latest[key].bar
  <2>1. <<key, Shown(key, cells).bar>> \in cells
    BY <1>1, <1>4, ShownType DEF Newest
  <2>2. Shown(key, cells).count > 0
    BY <1>1, <1>4, <2>1, ShownType DEF Saved
  <2> QED
    BY <1>2, <1>4, <2>2
<1> QED
  BY <1>1, <1>3, <1>4, LatestOfRow

\* Rows that are upserted stay within the history if their bars have been.
LEMMA LatestOfWithin ==
    ASSUME TypeOK, NEW cells \in SUBSET Saved, Within(draft),
           \A cell \in Saved : batch[cell] <= draft.history[cell], NEW key \in Keys
    PROVE  LatestOf(cells)[key].count <= draft.history[<<key, LatestOf(cells)[key].bar>>]
<1>1. cells \in SUBSET Cells
  BY DEF Saved
<1>2. CASE LatestOf(cells)[key] = draft.latest[key]
  BY <1>2 DEF Within
<1>3. CASE Newest(key, cells) # {} /\ LatestOf(cells)[key] = Shown(key, cells)
  <2>1. <<key, Shown(key, cells).bar>> \in cells
    BY <1>1, <1>3, ShownType DEF Newest
  <2>2. Shown(key, cells).count = batch[<<key, Shown(key, cells).bar>>]
    BY <1>1, <1>3, ShownType
  <2> QED
    BY <1>3, <2>1, <2>2
<1> QED
  BY <1>1, <1>2, <1>3, LatestOfRow

LEMMA LatestInit == Init => LatestInv /\ AheadInv
<1> SUFFICES ASSUME Init PROVE LatestInv /\ AheadInv
  OBVIOUS
<1>1. \A key \in Keys : Empty.latest[key].count = 0 /\ Empty.latest[key].bar = 0
  BY DEF Empty
<1>2. draft = Empty /\ stored = Empty /\ at = "idle"
  BY DEF Init
<1>3. \A key \in Keys : <<key, draft.latest[key].bar>> \in Cells
  BY InitTypes DEF TypeOK, Tables, Rows, Cells
<1>4. Within(Empty)
  <2> SUFFICES ASSUME NEW key \in Keys
               PROVE  Empty.latest[key].count <= Empty.history[<<key, Empty.latest[key].bar>>]
    BY DEF Within
  <2>1. Empty.history = Nothing
    BY DEF Empty
  <2>2. <<key, Empty.latest[key].bar>> \in Cells
    BY <1>2, <1>3
  <2>3. Nothing[<<key, Empty.latest[key].bar>>] = 0
    BY ONLY <2>2 DEF Nothing
  <2> QED
    BY <1>1, <2>1, <2>3
<1> QED
  BY <1>1, <1>2, <1>4 DEF LatestInv, AheadInv

\* The history of the stream only grows, and nothing else changes a latest row.
LEMMA WithinGrown ==
    ASSUME TypeOK, TypeOK', Within(draft), draft'.latest = draft.latest,
           \A cell \in Cells : draft'.history[cell] >= draft.history[cell]
    PROVE  Within(draft')
<1> SUFFICES ASSUME NEW key \in Keys
             PROVE  draft'.latest[key].count <= draft'.history[<<key, draft'.latest[key].bar>>]
  BY DEF Within
<1> DEFINE cell == <<key, draft.latest[key].bar>>
<1>1. cell \in Cells /\ draft.latest[key].count \in Nat
  BY DEF TypeOK, Tables, Rows, Cells
<1>2. draft.history[cell] \in Nat /\ draft'.history[cell] \in Nat
  BY <1>1 DEF TypeOK, Tables, Counts
<1>3. draft.latest[key].count <= draft.history[cell] /\ draft'.history[cell] >= draft.history[cell]
  BY <1>1 DEF Within
<1> QED
  BY <1>1, <1>2, <1>3

LEMMA LatestUpsertHistory ==
    ASSUME TypeOK, TypeOK', LatestInv, AheadInv, UpsertHistory
    PROVE  LatestInv' /\ AheadInv'
<1>1. /\ UNCHANGED <<kind, batch, stored>> /\ Saved' = Saved /\ Saved \subseteq Cells
      /\ draft'.history = Upserted(Saved) /\ draft'.latest = draft.latest
  BY DEF UpsertHistory, TypeOK, Tables, Saved
<1>2. ASSUME kind = "stream", NEW cell \in Cells
      PROVE  draft'.history[cell] >= draft.history[cell] /\ batch[cell] <= draft'.history[cell]
  <2>1. draft'.history[cell] = draft.history[cell] + batch[cell]
    BY <1>1, <1>2, UpsertedRow, Numbers
  <2> QED
    BY <2>1, Numbers
<1>3. kind = "stream" => Within(draft')
  BY <1>1, <1>2, WithinGrown DEF LatestInv
<1> QED
  BY <1>1, <1>2, <1>3 DEF LatestInv, AheadInv

LEMMA LatestUpsertLatest ==
    ASSUME TypeOK, TypeOK', LatestInv, AheadInv, UpsertLatest
    PROVE  LatestInv' /\ AheadInv'
<1>1. /\ UNCHANGED <<kind, batch, stored>> /\ at = "latest" /\ at' = "commit"
      /\ draft'.history = draft.history /\ draft'.latest = LatestOf(Saved)
  BY DEF UpsertLatest, TypeOK, Tables
<1>2. kind = "stream" => Within(draft')
  BY <1>1, LatestOfWithin DEF LatestInv, Within
<1>3. AheadInv'
  <2> SUFFICES ASSUME NEW key \in Keys, stored.latest[key].count > 0
               PROVE  draft'.latest[key].count > 0 /\ draft'.latest[key].bar >= stored.latest[key].bar
    BY <1>1 DEF AheadInv
  <2>1. draft.latest[key].count > 0 /\ draft.latest[key].bar >= stored.latest[key].bar
    BY DEF AheadInv
  <2>2. draft'.latest[key].count > 0 /\ draft'.latest[key].bar >= draft.latest[key].bar
    BY <1>1, <2>1, LatestOfNewer
  <2>3. draft.latest[key].bar \in Nat /\ draft'.latest[key].bar \in Nat /\ stored.latest[key].bar \in Nat
    BY BarsAreNat DEF TypeOK, Tables, Rows
  <2> QED
    BY <2>1, <2>2, <2>3
<1> QED
  BY <1>1, <1>2, <1>3 DEF LatestInv

\* Nor does a failed save take a latest row back.
LEMMA FailKeepsAhead ==
    ASSUME TypeOK, TypeOK', AheadInv, Fail, NEW key \in Keys, stored.latest[key].count > 0
    PROVE  draft'.latest[key].count > 0 /\ draft'.latest[key].bar >= stored.latest[key].bar
<1>1. PICK cells \in SUBSET Saved :
        \/ at = "history" /\ draft' = [draft EXCEPT !.history = Upserted(cells)]
        \/ at = "latest" /\ draft' = [draft EXCEPT !.latest = LatestOf(cells)]
        \/ at = "commit" /\ draft' = draft
  BY DEF Fail
<1>2. draft.latest[key].count > 0 /\ draft.latest[key].bar >= stored.latest[key].bar
  BY DEF AheadInv
<1>3. /\ draft.latest[key].bar \in Nat /\ draft'.latest[key].bar \in Nat
      /\ stored.latest[key].bar \in Nat
  BY BarsAreNat DEF TypeOK, Tables, Rows
<1>4. draft'.latest[key].count > 0 /\ draft'.latest[key].bar >= draft.latest[key].bar
  <2>1. CASE at = "latest" /\ draft' = [draft EXCEPT !.latest = LatestOf(cells)]
    <3>1. draft'.latest = LatestOf(cells)
      BY <2>1 DEF TypeOK, Tables
    <3> QED
      BY <1>2, <3>1, LatestOfNewer
  <2>2. CASE \/ at = "history" /\ draft' = [draft EXCEPT !.history = Upserted(cells)]
             \/ at = "commit" /\ draft' = draft
    <3>1. draft'.latest = draft.latest /\ draft.latest[key].bar \in Nat
      BY <2>2, BarsAreNat DEF TypeOK, Tables, Rows
    <3> QED
      BY <1>2, <3>1
  <2> QED
    BY <1>1, <2>1, <2>2
<1> QED
  BY <1>2, <1>3, <1>4

LEMMA LatestFail ==
    ASSUME TypeOK, TypeOK', LatestInv, AheadInv, Fail
    PROVE  LatestInv' /\ AheadInv'
<1>1. PICK cells \in SUBSET Saved :
        \/ at = "history" /\ draft' = [draft EXCEPT !.history = Upserted(cells)]
        \/ at = "latest" /\ draft' = [draft EXCEPT !.latest = LatestOf(cells)]
        \/ at = "commit" /\ draft' = draft
  BY DEF Fail
<1>2. /\ kind' = kind /\ at' = "idle" /\ stored' \in {stored, draft'}
  BY DEF Fail
<1>3. kind = "stream" => Within(draft')
  <2>1. CASE at = "history" /\ draft' = [draft EXCEPT !.history = Upserted(cells)]
    <3>1. draft'.latest = draft.latest
      BY <2>1 DEF TypeOK, Tables
    <3>2. kind = "stream" => \A cell \in Cells : draft'.history[cell] >= draft.history[cell]
      BY FailedRows
    <3> QED
      BY <3>1, <3>2, WithinGrown DEF LatestInv
  <2>2. CASE at = "latest" /\ draft' = [draft EXCEPT !.latest = LatestOf(cells)]
    <3>1. draft'.history = draft.history /\ draft'.latest = LatestOf(cells)
      BY <2>2 DEF TypeOK, Tables
    <3> QED
      BY <2>2, <3>1, LatestOfWithin DEF LatestInv, Within
  <2>3. CASE at = "commit" /\ draft' = draft
    BY <2>3 DEF LatestInv
  <2> QED
    BY <1>1, <2>1, <2>2, <2>3
<1>4. AheadInv'
  <2> SUFFICES ASSUME NEW key \in Keys, stored'.latest[key].count > 0
               PROVE  /\ draft'.latest[key].count > 0
                      /\ draft'.latest[key].bar >= stored'.latest[key].bar
    BY DEF AheadInv
  <2>1. draft'.latest[key].bar \in Nat
    BY BarsAreNat DEF TypeOK, Tables, Rows
  <2>2. CASE stored' = stored
    BY <2>2, FailKeepsAhead
  <2>3. CASE stored' = draft'
    BY <2>1, <2>3
  <2> QED
    BY <1>2, <2>2, <2>3
<1> QED
  BY <1>2, <1>3, <1>4 DEF LatestInv

LEMMA LatestStep ==
    TypeOK /\ TypeOK' /\ LatestInv /\ AheadInv /\ [Next]_vars => LatestInv' /\ AheadInv'
<1> SUFFICES ASSUME TypeOK, TypeOK', LatestInv, AheadInv, [Next]_vars
             PROVE  LatestInv' /\ AheadInv'
  OBVIOUS
<1>1. CASE Tick \/ UNCHANGED vars
  BY <1>1 DEF Tick, vars, LatestInv, AheadInv, Saved
<1>2. ASSUME NEW key \in Keys, Happen(key) PROVE LatestInv' /\ AheadInv'
  BY <1>2 DEF Happen, LatestInv, AheadInv
<1>3. ASSUME NEW key \in Keys, NEW t \in Instants, Add(key, t) PROVE LatestInv' /\ AheadInv'
  BY <1>3 DEF Add, LatestInv, AheadInv, Saved
<1>4. CASE Flush \/ Poll
  BY <1>4 DEF Flush, Poll, LatestInv, AheadInv
<1>5. CASE CommitSave \/ Restart
  <2>1. \A key \in Keys : draft.latest[key].bar \in Nat /\ stored.latest[key].bar \in Nat
    BY BarsAreNat DEF TypeOK, Tables, Rows
  <2> QED
    BY <1>5, <2>1 DEF CommitSave, Restart, LatestInv, AheadInv
<1> QED
  BY <1>1, <1>2, <1>3, <1>4, <1>5, LatestUpsertHistory, LatestUpsertLatest, LatestFail DEF Next

LEMMA LatestHolds == Spec => [](LatestInv /\ AheadInv)
<1>1. Init => LatestInv /\ AheadInv
  BY LatestInit
<1>2. TypeOK /\ TypeOK' /\ LatestInv /\ AheadInv /\ [Next]_vars => LatestInv' /\ AheadInv'
  BY LatestStep
<1> QED
  BY <1>1, <1>2, TypeCorrect, PTL DEF Spec

\* The stream's latest row never claims more than the history of its bar.
THEOREM LatestIsCovered == Spec => []LatestWithinHistory
<1>1. LatestInv => LatestWithinHistory
  BY DEF LatestInv, LatestWithinHistory, Within
<1> QED
  BY <1>1, LatestHolds, PTL

\* A latest row never goes back to an older bar, by whichever collector.
THEOREM LatestNeverGoesBack == Spec => LatestStaysNewest
<1> DEFINE A == \A key \in Keys :
                   stored.latest[key].count > 0 =>
                       /\ stored'.latest[key].count > 0
                       /\ stored'.latest[key].bar >= stored.latest[key].bar
<1>1. TypeOK /\ TypeOK' /\ AheadInv /\ AheadInv' /\ [Next]_vars => [A]_vars
  <2> SUFFICES ASSUME TypeOK, TypeOK', AheadInv, AheadInv', Next PROVE A
    OBVIOUS
  <2>1. \A key \in Keys : stored.latest[key].bar \in Nat
    BY BarsAreNat DEF TypeOK, Tables, Rows
  <2>2. CASE stored' = stored
    BY <2>1, <2>2
  <2>3. CASE CommitSave
    BY <2>3 DEF CommitSave, AheadInv
  <2>4. CASE Fail
    <3>1. kind' = kind /\ at' = "idle" /\ stored' \in {stored, draft'}
      BY <2>4 DEF Fail
    <3>2. \A key \in Keys : stored.latest[key].count > 0 =>
             draft'.latest[key].count > 0 /\ draft'.latest[key].bar >= stored.latest[key].bar
      BY <2>4, FailKeepsAhead
    <3> QED
      BY <2>1, <3>1, <3>2
  <2> QED
    BY <2>2, <2>3, <2>4
       DEF Next, Tick, Happen, Add, Flush, Poll, UpsertHistory, UpsertLatest, Restart
<1> QED
  BY <1>1, TypeCorrect, LatestHolds, PTL DEF Spec, LatestStaysNewest

\* What the stream has saved for a bar never shrinks again.
THEOREM SavedIsKept == Spec => SavedStaysSaved
<1> DEFINE A == kind = "stream" =>
                  \A cell \in Cells : stored'.history[cell] >= stored.history[cell]
<1>1. CountInv /\ [Next]_vars => [A]_vars
  <2> SUFFICES ASSUME CountInv, Next PROVE A
    OBVIOUS
  <2>1. \A cell \in Cells : stored.history[cell] \in Nat /\ draft.history[cell] \in Nat
    BY Numbers DEF CountInv
  <2>2. CASE stored' = stored
    BY <2>1, <2>2
  <2>3. CASE CommitSave
    BY <2>1, <2>3 DEF CommitSave, CountInv, StoredWithin
  <2>4. CASE Fail
    BY <2>1, <2>4 DEF Fail
  <2> QED
    BY <2>2, <2>3, <2>4
       DEF Next, Tick, Happen, Add, Flush, Poll, UpsertHistory, UpsertLatest, Restart
<1> QED
  BY <1>1, CountHolds, PTL DEF Spec, SavedStaysSaved
==============================================================================
