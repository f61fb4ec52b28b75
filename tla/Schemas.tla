------------------------------- MODULE Schemas -------------------------------
(***************************************************************************)
(* The tables of the three database files: those DBManager creates when a  *)
(* file is opened, and those each small service, and each module of        *)
(* logic_layer, creates for itself when it runs.                           *)
(***************************************************************************)
EXTENDS EndpointPaths

\* Each of the three files has a table of its own for the runs of its jobs.
RunTables(file) == In(file, {"collection_runs"})

MarketInfoTables == In("exchange", {"market_info"})

KlineTables == In("exchange", {"klines", "tickers", "latest_tickers"})

FundingTables ==
    In("exchange", {"funding_rates", "latest_funding_rates", "orderbook_snapshots",
        "latest_orderbook_snapshots"})

TradeFlowTables ==
    In("exchange", {"trade_flow_bars", "latest_trade_flow_bars", "open_interest_snapshots",
        "latest_open_interest_snapshots"})

PositionTables ==
    In("exchange", {"liquidation_bars", "latest_liquidation_bars", "positioning_snapshots",
        "latest_positioning_snapshots", "basis_snapshots", "latest_basis_snapshots"})

NewsTables == In("market", {"news_articles", "event_calendar_events"})

MacroTables == In("market", {"macro_factor_catalog", "macro_timeseries"})

LatestMacroTables == In("market", {"latest_macro_timeseries"})

AlternativeTables == In("market", {"alternative_factor_catalog", "alternative_timeseries"})

LatestAlternativeTables == In("market", {"latest_alternative_timeseries"})

OnchainTables == In("market", {"onchain_factor_catalog", "onchain_timeseries"})

LatestOnchainTables == In("market", {"latest_onchain_timeseries"})

TokenomicsTables == In("market", {"tokenomics_factor_catalog", "tokenomics_timeseries"})

LatestTokenomicsTables == In("market", {"latest_tokenomics_timeseries"})

OptionsTables == In("market", {"options_factor_catalog", "options_timeseries"})

LatestOptionsTables == In("market", {"latest_options_timeseries", "token_unlock_events"})

ContextTables == In("analytics", {"macro_context_snapshots", "ai_market_context_snapshots"})

WorldModelTables ==
    In("analytics", {"paper_world_model_snapshots", "market_breadth_snapshots",
        "market_structure_snapshots"})

ReadinessTables == In("analytics", {"asset_readiness_snapshots", "data_quality_audit_snapshots"})

AdminTables ==
    In("analytics", {"admin_users", "admin_teams", "admin_team_members", "admin_team_invitations",
        "admin_evoquant_connections", "admin_watchlists", "admin_watchlist_assets",
        "admin_research_briefs", "admin_brief_assets", "admin_risk_alerts", "admin_ingest_events",
        "admin_alert_feedback", "admin_api_keys", "admin_usage_events"})

CrossAssetTables ==
    In("analytics", {"cross_asset_correlation_snapshots", "cross_asset_relative_strength",
        "cross_asset_sector_rotation", "cross_asset_fund_flow", "portfolio_risk_snapshots",
        "feature_standardization_details", "feature_standardization_composites",
        "feature_standardization_snapshots"})

MergedKlineTables == In("analytics", {"merged_klines"})

IndicatorTables == In("analytics", {"technical_indicators"})

ComparisonTables == In("analytics", {"exchange_comparison_snapshots"})

\* What opening the three files creates.
CoreTables ==
    UNION {RunTables(file) : file \in {"exchange", "market", "analytics"}}
    \cup MarketInfoTables \cup KlineTables \cup FundingTables \cup TradeFlowTables
    \cup PositionTables
    \cup NewsTables \cup MacroTables \cup LatestMacroTables \cup AlternativeTables
    \cup LatestAlternativeTables \cup OnchainTables \cup LatestOnchainTables \cup TokenomicsTables
    \cup LatestTokenomicsTables \cup OptionsTables \cup LatestOptionsTables
    \cup ContextTables \cup WorldModelTables \cup ReadinessTables \cup AdminTables
    \cup CrossAssetTables \cup MergedKlineTables \cup IndicatorTables \cup ComparisonTables

AlphaDecayTables == In("analytics", {"signal_decay", "crowding_index"})

AnomalyDetectionTables == In("analytics", {"anomaly_events"})

BridgeFlowTables == In("market", {"bridge_flows", "chain_net_flows"})

CefiLendingRateTables == In("market", {"cefi_lending_rates", "lending_rate_spread"})

CexOrderbookDepthTables == In("market", {"depth_snapshots", "depth_levels"})

ContagionRiskTables == In("analytics", {"contagion_metrics", "contagion_cascade_risk"})

CrossAssetAnalysisTables ==
    In("analytics", {"cross_asset_correlation_snapshots",
        "cross_asset_relative_strength", "cross_asset_sector_rotation", "cross_asset_fund_flow"})

CrossChainMessagingTables == In("market", {"cross_chain_messages", "messaging_metrics"})

CrossVenueArbitrageTables ==
    In("analytics", {"arb_opportunities", "arb_persistence",
        "venue_spreads"})

DefiLiquidationTables == In("market", {"defi_liquidations", "health_factor_distribution"})

DefiProtocolTables == In("market", {"defi_tvl", "defi_lending_rates", "defi_dex_volume"})

DefiStressTables == In("analytics", {"defi_stress_states"})

DepthRegimeTables == In("analytics", {"depth_regime_states"})

DerivativesSentimentTables == In("market", {"sentiment_index", "derivatives_sentiment"})

DexLiquidityTables == In("market", {"dex_pools", "dex_tick_liquidity", "dex_liquidity_events"})

DexTradeFlowTables == In("market", {"dex_large_trades", "dex_router_stats"})

EtfFlowTables == In("market", {"etf_daily_flows", "etf_flow_summary"})

EventProbabilityTables == In("analytics", {"event_probability_states"})

\* Fault: the listings have no CREATE TABLE.
AnnouncementTableAlone == In("market", {"exchange_announcements"})

ExchangeAnnouncementTables == In("market", {"exchange_announcements", "listing_events"})

ExchangeReserveTables == In("market", {"exchange_reserves", "exchange_reserve_reports"})

FeatureStandardizationTables ==
    In("analytics", {"feature_standardization_details",
        "feature_standardization_composites", "feature_standardization_snapshots"})

FlowDecompositionTables == In("analytics", {"flow_decomposition", "vpin_history"})

FundingRateModelTables == In("analytics", {"funding_model_snapshots", "funding_basis_model"})

FundingRoundTables == In("market", {"funding_rounds", "investor_activity"})

GasNetworkTables == In("market", {"gas_prices", "network_congestion", "gas_spikes"})

GovernanceTables ==
    In("market", {"governance_proposals", "governance_votes",
        "governance_activity"})

HolderTables == In("analytics", {"holder_behavior_states"})

LendingUtilizationTables == In("market", {"lending_pools", "utilization_snapshots"})

LiquidStakingTables == In("market", {"staking_positions", "validator_queue", "restaking_tvl"})

LiquidationCascadeTables ==
    In("analytics", {"liquidation_clusters", "cascade_risk",
        "liquidation_heatmap"})

LiquidityAnalysisTables == In("analytics", {"liquidity_profiles", "liquidity_alerts"})

LiquidityRegimeTables == In("analytics", {"liquidity_regime_states"})

MarketSentimentCompositeTables == In("analytics", {"composite_sentiment_states"})

MempoolTables == In("market", {"mempool_snapshots", "pending_large_txs"})

MevTables == In("market", {"mev_blocks", "mev_agg"})

MinerTables == In("market", {"miner_metrics", "hashrate_history"})

MinerPressureTables == In("analytics", {"miner_pressure_states"})

NarrativeRegimeTables == In("analytics", {"market_narratives", "narrative_transitions"})

NewsSentimentTables == In("analytics", {"news_sentiment_labels"})

NftMarketTables == In("market", {"nft_collection_stats", "nft_market_metrics"})

OnchainAddressTables == In("market", {"address_labels", "address_flows", "whale_moves"})

OnchainHolderTables == In("market", {"holder_distribution", "holder_metrics"})

OnchainLeadLagTables ==
    In("analytics", {"lead_lag_signals", "onchain_price_relations",
        "signal_alerts"})

OrderflowTables == In("market", {"orderflow_trades", "orderflow_agg"})

PerpetualBasisCurveTables == In("market", {"futures_term_structure", "basis_curve_snapshot"})

PerpetualDexTables == In("market", {"perp_dex_funding", "perp_dex_volume"})

PortfolioRiskTables == In("analytics", {"portfolio_risk_snapshots"})

PredictionMarketTables == In("market", {"prediction_markets", "prediction_market_history"})

RegimeDetectionTables == In("analytics", {"regime_states", "regime_transitions"})

RegulatoryTables == In("market", {"regulatory_events", "etf_tracker"})

RetailFomoIndexTables == In("analytics", {"retail_fomo_states"})

SearchTrendTables == In("market", {"search_trends", "trend_history"})

SentimentSignalTables == In("analytics", {"sentiment_signals", "causality_results"})

SmartMoneyConvictionTables == In("analytics", {"smart_money_conviction_states"})

SocialSentimentTables == In("market", {"social_mentions", "social_sentiment_agg"})

StablecoinFlowTables == In("market", {"stablecoin_mint_burns", "stablecoin_chain_flows"})

StablecoinPulseTables == In("analytics", {"stablecoin_pulse_states"})

TemporalPatternTables == In("analytics", {"temporal_patterns", "seasonal_profiles"})

TokenUnlockTables == In("market", {"upcoming_unlocks", "unlock_events"})

UnlockImpactTables == In("analytics", {"unlock_impact_states"})

VolatilityForecastTables == In("analytics", {"volatility_snapshots", "volatility_cone"})

WhaleTrackerTables == In("market", {"whale_transactions", "whale_flow_agg"})

WhaleWalletPnlTables == In("market", {"whale_portfolios", "whale_pnl_history"})

\* The services that create tables of their own, when their runners start.
ServiceTables ==
    [alpha_decay |-> AlphaDecayTables,
     anomaly_detection |-> AnomalyDetectionTables,
     bridge_flow_data |-> BridgeFlowTables,
     cefi_lending_rate |-> CefiLendingRateTables,
     cex_orderbook_depth |-> CexOrderbookDepthTables,
     contagion_risk |-> ContagionRiskTables,
     cross_asset_analysis |-> CrossAssetAnalysisTables,
     cross_chain_messaging |-> CrossChainMessagingTables,
     cross_venue_arbitrage |-> CrossVenueArbitrageTables,
     defi_liquidation_data |-> DefiLiquidationTables,
     defi_protocol_data |-> DefiProtocolTables,
     defi_stress |-> DefiStressTables,
     depth_regime |-> DepthRegimeTables,
     derivatives_sentiment_data |-> DerivativesSentimentTables,
     dex_liquidity_data |-> DexLiquidityTables,
     dex_trade_flow |-> DexTradeFlowTables,
     etf_flow_data |-> EtfFlowTables,
     event_probability |-> EventProbabilityTables,
     exchange_announcement |-> ExchangeAnnouncementTables,
     exchange_reserve_data |-> ExchangeReserveTables,
     feature_standardization |-> FeatureStandardizationTables,
     flow_decomposition |-> FlowDecompositionTables,
     funding_rate_model |-> FundingRateModelTables,
     funding_round_data |-> FundingRoundTables,
     gas_network_data |-> GasNetworkTables,
     governance_data |-> GovernanceTables,
     holder_behavior_analysis |-> HolderTables,
     lending_utilization |-> LendingUtilizationTables,
     liquid_staking_data |-> LiquidStakingTables,
     liquidation_cascade |-> LiquidationCascadeTables,
     liquidity_analysis |-> LiquidityAnalysisTables,
     liquidity_regime |-> LiquidityRegimeTables,
     market_sentiment_composite |-> MarketSentimentCompositeTables,
     mempool_data |-> MempoolTables,
     mev_data |-> MevTables,
     miner_data |-> MinerTables,
     miner_pressure |-> MinerPressureTables,
     narrative_regime |-> NarrativeRegimeTables,
     news_sentiment |-> NewsSentimentTables,
     nft_market_data |-> NftMarketTables,
     onchain_address_data |-> OnchainAddressTables,
     onchain_holder_data |-> OnchainHolderTables,
     onchain_lead_lag |-> OnchainLeadLagTables,
     orderflow_data |-> OrderflowTables,
     perpetual_basis_curve |-> PerpetualBasisCurveTables,
     perpetual_dex_data |-> PerpetualDexTables,
     portfolio_risk |-> PortfolioRiskTables,
     prediction_market_data |-> PredictionMarketTables,
     regime_detection |-> RegimeDetectionTables,
     regulatory_data |-> RegulatoryTables,
     retail_fomo_index |-> RetailFomoIndexTables,
     search_trend_data |-> SearchTrendTables,
     sentiment_signal |-> SentimentSignalTables,
     smart_money_conviction |-> SmartMoneyConvictionTables,
     social_sentiment_data |-> SocialSentimentTables,
     stablecoin_flow_data |-> StablecoinFlowTables,
     stablecoin_pulse |-> StablecoinPulseTables,
     temporal_pattern |-> TemporalPatternTables,
     token_unlock_realtime |-> TokenUnlockTables,
     unlock_impact |-> UnlockImpactTables,
     volatility_forecast |-> VolatilityForecastTables,
     whale_tracker_data |-> WhaleTrackerTables,
     whale_wallet_pnl |-> WhaleWalletPnlTables]
==============================================================================
