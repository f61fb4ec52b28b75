------------------------------ MODULE MCPrograms ------------------------------
(***************************************************************************)
(* All jobs together, where they run, and what is known of them.           *)
(***************************************************************************)
EXTENDS ExchangeJobs, CollectorJobs, MarketJobs, ContextJobs, AnalysisJobs, TLC

Collectors ==
    OptionsJobs @@ OnchainJobs @@ AlternativeJobs @@ TokenomicsJobs @@ MacroJobs @@ CalendarJobs

Analytics == LogicJobs @@ ContextJobs @@ AnalysisJobs

Programs == ScheduledJobs @@ Commands @@ Streams @@ Collectors @@ SmallServices @@ Analytics

MCProgram == Programs

MCJobs == DOMAIN MCProgram

MCPool == [j \in MCJobs |-> IF j \in DOMAIN ScheduledJobs THEN {"worker1", "worker2"} ELSE {j}]

\* exchange_reserve_data has no scheduler: it is run once by hand.
MCFresh ==
    DOMAIN Commands \cup DOMAIN Collectors \cup DOMAIN Analytics \cup {"exchange_reserve_data"}

\* Every latest_* table and the table it shows the newest rows of.
AllHistories ==
    [latest_tickers |-> "tickers",
     latest_funding_rates |-> "funding_rates",
     latest_orderbook_snapshots |-> "orderbook_snapshots",
     latest_trade_flow_bars |-> "trade_flow_bars",
     latest_open_interest_snapshots |-> "open_interest_snapshots",
     latest_liquidation_bars |-> "liquidation_bars",
     latest_positioning_snapshots |-> "positioning_snapshots",
     latest_basis_snapshots |-> "basis_snapshots",
     latest_options_timeseries |-> "options_timeseries",
     latest_onchain_timeseries |-> "onchain_timeseries",
     latest_alternative_timeseries |-> "alternative_timeseries",
     latest_tokenomics_timeseries |-> "tokenomics_timeseries",
     latest_macro_timeseries |-> "macro_timeseries"]

\* Those that a job and a backfill or bootstrap may save at the same time.
MCHistories ==
    [t \in {"latest_funding_rates", "latest_alternative_timeseries"} |-> AllHistories[t]]

MCTables == DOMAIN MCHistories \cup {MCHistories[t] : t \in DOMAIN MCHistories}

\* exchange_cleanup is not recorded either, but a DELETE is not refused halfway.
MCUnrecorded == {"liquidation_stream"} \cup (DOMAIN SmallServices \ {"exchange_reserve_data"})

MCSlow ==
    {"bridge_flow_data", "cefi_lending_rate", "cex_orderbook_depth", "defi_liquidation_data",
     "dex_liquidity_data", "governance_data", "onchain_address_data", "perpetual_basis_curve",
     "stablecoin_flow_data", "whale_wallet_pnl"}

MCRereading ==
    {"basis", "open_interest", "once", "derivatives_once", "context_burst",
     "cross_chain_messaging", "etf_flow_data", "gas_network_data", "governance_data", "mev_data",
     "miner_data", "orderflow_data", "perpetual_basis_curve", "search_trend_data",
     "social_sentiment_data"}
==============================================================================
