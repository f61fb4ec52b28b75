----------------------------- MODULE ExchangeJobs -----------------------------
(***************************************************************************)
(* data_layer/exchange_data: how the jobs of ExchangeDataService use       *)
(* exchange_data.db.  Each collector asks all exchanges before it saves    *)
(* anything; save_to_db writes the history, then the latest rows.          *)
(***************************************************************************)
EXTENDS StorePrograms

\* Fault: the latest rows are committed on their own.
SaveLatestAlone(history, latest) ==
    Latest(latest) \o Commit \o Insert(history) \o Commit

SaveSnapshots(history, latest) == Insert(history) \o Latest(latest) \o Commit

------------------------------------------------------------------------------
(***************************************************************************)
(* The collectors.                                                         *)
(***************************************************************************)
SaveMarkets == Put("market_info") \o Commit

CollectMarkets == Fetch \o Optional(SaveMarkets)

\* Fault: the bars are left for a later commit.
SaveKlinesUncommitted == Put("klines")

SaveKlines == Put("klines") \o Commit

\* Fault: the cursor is read in the job's own session.
CollectKlinesInPlace == Each(Read \o Fetch) \o Optional(SaveKlines)

\* The cursor is read by the threads that fetch, in sessions of their own.
CollectKlines == Each(Fetch) \o Optional(SaveKlines)

BackfillKlines == Each(Attempt(Each(Fetch)) \o Optional(SaveKlines))

SaveTickers == SaveSnapshots("tickers", "latest_tickers")

CollectTickers == Fetch \o Optional(SaveTickers)

SaveFunding == SaveSnapshots("funding_rates", "latest_funding_rates")

CollectFunding == Fetch \o Optional(SaveFunding)

BackfillFunding == Each(Fetch) \o Optional(SaveFunding)

SaveOrderbooks == SaveSnapshots("orderbook_snapshots", "latest_orderbook_snapshots")

CollectOrderbooks == Fetch \o Optional(SaveOrderbooks)

SaveTradeFlow == SaveSnapshots("trade_flow_bars", "latest_trade_flow_bars")

CollectTradeFlow == Fetch \o Optional(SaveTradeFlow)

\* _enrich_change_metrics looks up the values of one, four and 24 hours ago.
SaveOpenInterest ==
    Each(Read) \o SaveSnapshots("open_interest_snapshots", "latest_open_interest_snapshots")

CollectOpenInterest == Fetch \o Optional(SaveOpenInterest)

SaveLiquidations == SaveSnapshots("liquidation_bars", "latest_liquidation_bars")

CollectLiquidations == Fetch \o Optional(SaveLiquidations)

SavePositioning == SaveSnapshots("positioning_snapshots", "latest_positioning_snapshots")

CollectPositioning == Fetch \o Optional(SavePositioning)

SaveBasis == SaveSnapshots("basis_snapshots", "latest_basis_snapshots")

\* Funding is collected first; if that fails, basis goes on without.
CollectBasis == Attempt(CollectFunding) \o Load \o Optional(SaveBasis)

------------------------------------------------------------------------------
(***************************************************************************)
(* The service's jobs.                                                     *)
(***************************************************************************)
CollectOrderbooksForSymbols == CollectOrderbooks

CollectDerivativesOnce ==
    Recorded(CollectTradeFlow) \o Recorded(CollectOpenInterest)
    \o Recorded(CollectLiquidations) \o Recorded(CollectPositioning)
    \o Recorded(CollectBasis)

CollectOnce ==
    Recorded(CollectMarkets) \o Either(BackfillKlines, Each(Recorded(CollectKlines)))
    \o Recorded(CollectTickers) \o Recorded(CollectFunding)
    \o Recorded(CollectOrderbooks) \o CollectDerivativesOnce

Bootstrap == Recorded(CollectMarkets) \o Optional(BackfillKlines)

Burst ==
    Optional(BackfillFunding)
    \o Each(CollectTickers \o CollectOrderbooks \o CollectTradeFlow
            \o Optional(CollectFunding \o CollectOpenInterest \o CollectBasis))

CleanupHistoricalData ==
    Optional(Delete("tickers")) \o Optional(Delete("orderbook_snapshots"))
    \o Optional(Delete("funding_rates")) \o Optional(Delete("trade_flow_bars"))
    \o Optional(Delete("open_interest_snapshots")) \o Optional(Delete("basis_snapshots"))
    \o Optional(Delete("liquidation_bars")) \o Optional(Delete("positioning_snapshots"))
    \o Commit

\* The rows that differ from their payload are written back.
RepairTable(table) == Read \o Optional(Revise(table) \o Commit)

RepairLiquidations ==
    Recorded(RepairTable("liquidation_bars") \o RepairTable("latest_liquidation_bars"))

\* ws_collector: one round of the loop that saves what the streams brought.
SaveStream == Attempt(SaveLiquidations)

\* build_scheduler; market_info collects with force=False
ScheduledJobs ==
    [market_info |-> Recorded(CollectMarkets),
     kline |-> Recorded(CollectKlines),
     ticker |-> Recorded(CollectTickers),
     funding |-> Recorded(CollectFunding),
     orderbook |-> Recorded(CollectOrderbooksForSymbols),
     trade_flow |-> Recorded(CollectTradeFlow),
     open_interest |-> Recorded(CollectOpenInterest),
     liquidations |-> Recorded(CollectLiquidations),
     long_short_ratio |-> Recorded(CollectPositioning),
     basis |-> Recorded(CollectBasis),
     exchange_cleanup |-> CleanupHistoricalData]

\* Modes that run once in a process of their own, which closes the DBManager.
Commands ==
    [once |-> CollectOnce,
     bootstrap |-> Bootstrap,
     derivatives_once |-> CollectDerivativesOnce,
     funding_backfill |-> BackfillFunding,
     context_burst |-> Burst,
     liquidations_repair |-> RepairLiquidations]

Streams == [liquidation_stream |-> SaveStream]
==============================================================================
