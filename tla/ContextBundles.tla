--------------------------- MODULE ContextBundles ----------------------------
(***************************************************************************)
(* The summaries of the services: what load_latest_context_bundle reads    *)
(* for the context endpoint of its router.                                 *)
(***************************************************************************)
EXTENDS EndpointPaths

AlphaDecayBundle == Analytics("signal_decay") ** Analytics("crowding_index")

CefiLendingRateBundle ==
    Market("cefi_lending_rates") ** Market("lending_rate_spread")
    ** Maybe(Each(Market("cefi_lending_rates") ** Market("cefi_lending_rates")))

CexOrderbookDepthBundle == Market("depth_snapshots")

ContagionRiskBundle == Analytics("contagion_metrics") ** Analytics("contagion_cascade_risk")

CrossChainMessagingBundle == Market("messaging_metrics") ** Market("cross_chain_messages")

CrossVenueArbitrageBundle == Analytics("arb_opportunities") ** Analytics("arb_persistence")

DefiLiquidationBundle == Market("defi_liquidations") ** Market("health_factor_distribution")

DefiStressBundle == Analytics("defi_stress_states")

DepthRegimeBundle == Analytics("depth_regime_states")

DerivativesSentimentBundle == Market("sentiment_index") ** Market("derivatives_sentiment")

DexLiquidityBundle ==
    Market("dex_pools") ** Maybe(Market("dex_pools") ** Market("dex_pools")
    ** Market("dex_liquidity_events"))

DexTradeFlowBundle == Market("dex_large_trades") ** Market("dex_router_stats")

EtfFlowBundle == Each(Market("etf_flow_summary"))

EventProbabilityBundle == Analytics("event_probability_states")

ExchangeAnnouncementBundle == Market("exchange_announcements") ** Market("listing_events")

ExchangeReserveBundle == Market("exchange_reserve_reports") ** Maybe(Market("exchange_reserves"))

FlowDecompositionBundle == Each(Analytics("flow_decomposition"))

FundingRoundBundle ==
    Market("funding_rounds") ** Maybe(Market("funding_rounds") ** Market("investor_activity"))

GasNetworkBundle ==
    Market("gas_prices") ** Market("network_congestion") ** Market("gas_spikes")
    ** Maybe(Market("gas_prices"))

GovernanceBundle ==
    Market("governance_proposals") ** Maybe(Market("governance_activity")
    ** Market("governance_activity"))

HolderBehaviorAnalysisBundle == Analytics("holder_behavior_states")

LendingUtilizationBundle == Market("lending_pools")

LiquidStakingBundle ==
    Market("staking_positions") ** Maybe(Market("validator_queue") ** Market("restaking_tvl")
    ** Market("staking_positions"))

LiquidationCascadeBundle == Analytics("cascade_risk") ** Analytics("liquidation_clusters")

LiquidityRegimeBundle == Analytics("liquidity_regime_states")

MarketSentimentCompositeBundle == Analytics("composite_sentiment_states")

MempoolBundle ==
    Market("mempool_snapshots") ** Maybe(Market("pending_large_txs")
    ** Market("mempool_snapshots"))

MevBundle == Market("mev_agg")

MinerBundle == Market("miner_metrics") ** Maybe(Market("hashrate_history"))

MinerPressureBundle == Analytics("miner_pressure_states")

NarrativeRegimeBundle == Analytics("market_narratives") ** Analytics("narrative_transitions")

NftMarketBundle == Market("nft_market_metrics") ** Market("nft_collection_stats")

OnchainAddressBundle == Market("whale_moves")

OnchainHolderBundle ==
    Market("holder_distribution") ** Market("holder_metrics") ** Maybe(Market("holder_metrics")
    ** Market("holder_distribution") ** Maybe(Market("holder_distribution")
    ** Market("holder_distribution")))

OnchainLeadLagBundle ==
    Analytics("lead_lag_signals") ** Analytics("onchain_price_relations")
    ** Analytics("signal_alerts")

PerpetualBasisCurveBundle == Market("basis_curve_snapshot")

PerpetualDexBundle == Market("perp_dex_funding") ** Maybe(Market("perp_dex_volume"))

PredictionMarketBundle ==
    Market("prediction_markets") ** Maybe(Market("prediction_market_history")
    ** Maybe(Market("prediction_market_history")))

RetailFomoIndexBundle == Analytics("retail_fomo_states")

SearchTrendBundle == Market("search_trends")

SmartMoneyConvictionBundle == Analytics("smart_money_conviction_states")

StablecoinFlowBundle == Market("stablecoin_chain_flows") ** Market("stablecoin_mint_burns")

StablecoinPulseBundle == Analytics("stablecoin_pulse_states")

TemporalPatternBundle == Each(Analytics("temporal_patterns") ** Analytics("seasonal_profiles"))

TokenUnlockBundle == Market("upcoming_unlocks") ** Market("unlock_events")

UnlockImpactBundle == Analytics("unlock_impact_states")

WhaleWalletPnlBundle == Market("whale_portfolios") ** Market("whale_pnl_history")
==============================================================================
