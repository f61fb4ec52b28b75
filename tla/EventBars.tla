------------------------------ MODULE EventBars ------------------------------
(***************************************************************************)
(* How single events, liquidations and trades, become rows of a bar table  *)
(* and of its latest_* table.  Three collectors do it, each for exchanges  *)
(* and tables of its own:                                                  *)
(*   "stream"    ws_collector adds each event to a bucket in memory, takes *)
(*               all buckets out from time to time and adds them to the    *)
(*               rows there are;                                           *)
(*   "lookback"  liquidations/collector fetches the events of the last     *)
(*               hour, so many at most, and replaces the rows of their     *)
(*               bars;                                                     *)
(*   "newest"    trades/collector does so with the last trades, however    *)
(*               long they took.                                           *)
(* A behaviour follows one collector.  What is counted here stands for the *)
(* counts and notionals of a row; an event of the stream is one with a     *)
(* notional, for buckets without any make no row.  Time is cut so fine     *)
(* that a key (symbol, exchange, market) has at most one event per         *)
(* instant.                                                                *)
(***************************************************************************)
EXTENDS Naturals, FiniteSets

CONSTANTS
    Keys,          \* symbol, exchange and market type of a bar
    Kinds,         \* the collectors of this instance
    Horizon,       \* the last instant looked at
    Width,         \* instants per bar: FLUSH_INTERVAL, trade_bar_interval
    Delay,         \* how late a stream may deliver an event
    Lookback,      \* instants a poll looks back: 3600_000 ms
    FetchLimit     \* events a poll gets: trade_fetch_limit, limit=100 of liquidations

ASSUME BarsAssumption ==
    /\ Kinds \subseteq {"stream", "lookback", "newest"}
    /\ {Horizon, Delay, Lookback} \subseteq Nat
    /\ {Width, FetchLimit} \subseteq Nat \ {0}

VARIABLES
    kind,      \* which collector this is
    now,       \* the clock
    events,    \* the instants with an event of the key that the collector can get
    buckets,   \* LiquidationAggregator._buckets
    batch,     \* the bars that are being saved
    at,        \* where _save_bars or save_to_db is
    draft,     \* both tables as the connection sees them
    stored,    \* both tables as committed
    clean      \* no save has failed and the process has not been restarted

vars == <<kind, now, events, buckets, batch, at, draft, stored, clean>>

Instants == 0 .. Horizon

\* _align_ts, _align_to_interval, _floor_time
BarOf(t) == t \div Width

Bars == {BarOf(t) : t \in Instants}

Cells == Keys \X Bars

Counts == [Cells -> Nat]

Nothing == [cell \in Cells |-> 0]

\* A latest_* row: the bar it shows and its count; the count is 0 without a row.
Rows == [bar : Bars, count : Nat]

Empty == [history |-> Nothing, latest |-> [key \in Keys |-> [bar |-> 0, count |-> 0]]]

Tables == [history : Counts, latest : [Keys -> Rows]]

\* The bars of the batch that have an event: only these become rows.
Saved == {cell \in Cells : batch[cell] > 0}

Init ==
    /\ kind \in Kinds
    /\ now = 0
    /\ events = [key \in Keys |-> {}]
    /\ buckets = Nothing
    /\ batch = Nothing
    /\ at = "idle"
    /\ draft = Empty
    /\ stored = Empty
    /\ clean = TRUE

Tick ==
    /\ now < Horizon
    /\ now' = now + 1
    /\ UNCHANGED <<kind, events, buckets, batch, at, draft, stored, clean>>

\* on_message and LiquidationAggregator.add, possibly late; a connection that
\* breaks is made anew, and what it missed is no event for the collector.
Add(key, t) ==
    /\ kind = "stream"
    /\ t <= now /\ now <= t + Delay
    /\ t \notin events[key]
    /\ events' = [events EXCEPT ![key] = @ \union {t}]
    /\ buckets' = [buckets EXCEPT ![<<key, BarOf(t)>>] = @ + 1]
    /\ UNCHANGED <<kind, now, batch, at, draft, stored, clean>>

\* The exchange has an event that a poll may fetch.
Happen(key) ==
    /\ kind # "stream"
    /\ now \notin events[key]
    /\ events' = [events EXCEPT ![key] = @ \union {now}]
    /\ UNCHANGED <<kind, now, buckets, batch, at, draft, stored, clean>>

\* Fault: the buckets are copied and not cleared.
FlushKeeps ==
    /\ kind = "stream"
    /\ at = "idle"
    /\ buckets # Nothing
    /\ batch' = buckets
    /\ at' = "history"
    /\ UNCHANGED <<kind, now, events, buckets, draft, stored, clean>>

\* Fault: a plain dictionary takes the place of the defaultdict.
FlushPlain ==
    /\ kind = "stream"
    /\ at = "idle"
    /\ buckets # Nothing
    /\ batch' = buckets
    /\ buckets' = [cell \in {} |-> 0]
    /\ at' = "history"
    /\ UNCHANGED <<kind, now, events, draft, stored, clean>>

\* LiquidationAggregator.flush: nothing is saved when there is nothing; a
\* bucket whose notionals are zero is dropped, and was never counted here.
Flush ==
    /\ kind = "stream"
    /\ at = "idle"
    /\ buckets # Nothing
    /\ batch' = buckets
    /\ buckets' = Nothing
    /\ at' = "history"
    /\ UNCHANGED <<kind, now, events, draft, stored, clean>>

\* What the exchange may answer: FetchLimit events at most.  Trades are the
\* last ones; which of an hour's liquidations come is up to the exchange.
Fetched(key) ==
    LET recent == {t \in events[key] : now <= t + Lookback}
    IN  IF kind = "lookback"
        THEN {some \in SUBSET recent :
                  /\ Cardinality(some) <= FetchLimit
                  /\ some = recent \/ Cardinality(some) = FetchLimit}
        ELSE {{t \in events[key] : Cardinality({u \in events[key] : u > t}) < FetchLimit}}

\* fetch_bars, fetch_trade_flow_bars: keys whose request fails are passed over.
Poll ==
    /\ kind # "stream"
    /\ at = "idle"
    /\ \E fetched \in [Keys -> SUBSET Instants] :
          /\ \A key \in Keys : fetched[key] \in Fetched(key) \union {{}}
          /\ batch' = [cell \in Cells |->
                          Cardinality({t \in fetched[cell[1]] : BarOf(t) = cell[2]})]
    /\ batch' # Nothing
    /\ at' = "history"
    /\ UNCHANGED <<kind, now, events, buckets, draft, stored, clean>>

------------------------------------------------------------------------------
\* ON CONFLICT DO UPDATE: the stream adds to the row, a poll replaces it.
Upserted(cells) ==
    [cell \in Cells |->
        IF cell \in cells
        THEN batch[cell] + (IF kind = "stream" THEN draft.history[cell] ELSE 0)
        ELSE draft.history[cell]]

\* The newest bar of a key among the rows; rows are applied in turn, it stays.
Newest(key, cells) ==
    {bar \in Bars : /\ <<key, bar>> \in cells
                    /\ \A other \in Bars : <<key, other>> \in cells => bar >= other}

Shown(key, cells) ==
    LET bar == CHOOSE bar \in Newest(key, cells) : TRUE
    IN  [bar |-> bar, count |-> batch[<<key, bar>>]]

\* Fault: the WHERE clause is left out.
LatestRegardless(cells) ==
    [key \in Keys |->
        IF Newest(key, cells) # {} THEN Shown(key, cells) ELSE draft.latest[key]]

\* ON CONFLICT DO UPDATE ... WHERE excluded.open_time >= open_time
LatestOf(cells) ==
    [key \in Keys |->
        IF \E bar \in Newest(key, cells) :
              draft.latest[key].count = 0 \/ bar >= draft.latest[key].bar
        THEN Shown(key, cells)
        ELSE draft.latest[key]]

\* Fault: the buckets are cleared once their rows are written.
UpsertHistoryClears ==
    /\ at = "history"
    /\ draft' = [draft EXCEPT !.history = Upserted(Saved)]
    /\ buckets' = Nothing
    /\ at' = "latest"
    /\ UNCHANGED <<kind, now, events, batch, stored, clean>>

\* Fault: only the latest row is written.
UpsertHistorySkipped ==
    /\ at = "history"
    /\ at' = "latest"
    /\ UNCHANGED <<kind, now, events, buckets, batch, draft, stored, clean>>

UpsertHistory ==
    /\ at = "history"
    /\ draft' = [draft EXCEPT !.history = Upserted(Saved)]
    /\ at' = "latest"
    /\ UNCHANGED <<kind, now, events, buckets, batch, stored, clean>>

UpsertLatest ==
    /\ at = "latest"
    /\ draft' = [draft EXCEPT !.latest = LatestOf(Saved)]
    /\ at' = "commit"
    /\ UNCHANGED <<kind, now, events, buckets, batch, stored, clean>>

\* Fault: the rows are left to a later commit.
CommitForgotten ==
    /\ at = "commit"
    /\ batch' = Nothing
    /\ at' = "idle"
    /\ UNCHANGED <<kind, now, events, buckets, draft, stored, clean>>

CommitSave ==
    /\ at = "commit"
    /\ stored' = draft
    /\ batch' = Nothing
    /\ at' = "idle"
    /\ UNCHANGED <<kind, now, events, buckets, draft, clean>>

\* An upsert throws after some rows.  The stream logs it and leaves the
\* transaction open; a poll's run is recorded, which commits the rows unless
\* it fails too.
Fail ==
    /\ \E cells \in SUBSET Saved :
          \/ at = "history" /\ draft' = [draft EXCEPT !.history = Upserted(cells)]
          \/ at = "latest" /\ draft' = [draft EXCEPT !.latest = LatestOf(cells)]
          \/ at = "commit" /\ draft' = draft
    /\ stored' \in {stored} \union (IF kind = "stream" THEN {} ELSE {draft'})
    /\ batch' = Nothing
    /\ at' = "idle"
    /\ clean' = FALSE
    /\ UNCHANGED <<kind, now, events, buckets>>

\* The process ends, by a signal or otherwise, and is started again: buckets
\* and batch were in memory, the open transaction is rolled back.
Restart ==
    /\ draft' = stored
    /\ buckets' = Nothing
    /\ batch' = Nothing
    /\ at' = "idle"
    /\ clean' = FALSE
    /\ UNCHANGED <<kind, now, events, stored>>

Next ==
    \/ Tick
    \/ \E key \in Keys : Happen(key) \/ \E t \in Instants : Add(key, t)
    \/ Flush
    \/ Poll
    \/ UpsertHistory
    \/ UpsertLatest
    \/ CommitSave
    \/ Fail
    \/ Restart

Spec == Init /\ [][Next]_vars

\* The loop flushes every five minutes and a save goes on by itself; nothing
\* says that events come, saves fail or processes end.
FairSpec ==
    Spec /\ WF_vars(Flush) /\ WF_vars(UpsertHistory) /\ WF_vars(UpsertLatest) /\ WF_vars(CommitSave)

------------------------------------------------------------------------------
\* The tables have a count in each cell and a row per key, and so has what is
\* in memory.
TypeOK ==
    /\ kind \in Kinds
    /\ now \in Instants
    /\ events \in [Keys -> SUBSET Instants]
    /\ buckets \in Counts
    /\ batch \in Counts
    /\ at \in {"idle", "history", "latest", "commit"}
    /\ draft \in Tables
    /\ stored \in Tables
    /\ clean \in BOOLEAN

\* How many events a bar has had.
Happened(cell) == Cardinality({t \in events[cell[1]] : BarOf(t) = cell[2]})

\* Events the stream holds in memory only.
Unsaved(cell) == buckets[cell] + (IF at = "history" THEN batch[cell] ELSE 0)

\* An event is counted at most once on its way through buckets, flushes, added
\* rows, failed saves and restarts.
CountedAtMostOnce ==
    \A cell \in Cells :
        draft.history[cell] + (IF kind = "stream" THEN Unsaved(cell) ELSE 0) <= Happened(cell)

\* The stream loses nothing as long as no save fails and the process runs:
\* events that come in between the steps of a save are in the next one, late
\* ones are added to their bar.
LostOnlyInFailures ==
    kind = "stream" /\ clean =>
        \A cell \in Cells : draft.history[cell] + Unsaved(cell) = Happened(cell)

\* What latest_liquidation_bars says of the stream's newest bar never exceeds
\* the history row of that bar, even when half of a save was committed later.
LatestWithinHistory ==
    kind = "stream" =>
        \A key \in Keys :
            stored.latest[key].count <= stored.history[<<key, stored.latest[key].bar>>]

\* No save, late event, failure or restart takes a latest row back in time.
LatestStaysNewest ==
    [][\A key \in Keys :
          stored.latest[key].count > 0 =>
              /\ stored'.latest[key].count > 0
              /\ stored'.latest[key].bar >= stored.latest[key].bar]_vars

\* What the stream has saved for a bar is never lost again.
SavedStaysSaved ==
    [][kind = "stream" => \A cell \in Cells : stored'.history[cell] >= stored.history[cell]]_vars

\* While no save fails and the process runs, all events get to the tables.
EventsGetSaved ==
    []<>(kind = "stream" /\ clean => \A cell \in Cells : stored.history[cell] = Happened(cell))

\* "Fetch liquidations from all exchanges and aggregate them by windows of
\* five minutes": a bar that is over keeps the events counted for it.  A poll
\* replaces the row of the window its look-back cuts by the rest of it.
BarsKeepTheirEvents ==
    [][\A cell \in Cells :
          cell[2] < BarOf(now) => stored'.history[cell] >= stored.history[cell]]_vars
==============================================================================
