--------------------------- MODULE MarketEndpoints ---------------------------
(***************************************************************************)
(* The routers of the small services, each on tables one service creates   *)
(* in market_data.db.                                                      *)
(***************************************************************************)
EXTENDS ContextBundles, Schemas, TLC

\* api/routers/_legacy/bridge_flow.py
BridgeFlowRouter ==
    [get_chain_flows |-> Market("chain_net_flows"),
     get_bridge_volumes |-> Market("bridge_flows"),
     get_migration_signals |-> Market("chain_net_flows")]

\* api/routers/_legacy/cefi_lending.py
CefiLendingRouter ==
    [get_lending_rates |-> Market("cefi_lending_rates"),
     get_lending_spread |-> Market("lending_rate_spread"),
     get_platform_ranking |-> Market("cefi_lending_rates"),
     get_inversion_signals |-> Market("lending_rate_spread"),
     get_rate_history |-> Market("cefi_lending_rates"),
     get_utilization |-> Market("cefi_utilization"),
     get_cefi_lending_context |-> CefiLendingRateBundle]

\* api/routers/_legacy/cross_chain_msg.py
CrossChainMsgRouter ==
    [get_latest_messaging_stats |-> Market("messaging_metrics"),
     get_messages_by_protocol |-> Market("cross_chain_messages"),
     get_messaging_volume |-> Market("messaging_metrics"),
     get_chain_activity_ranking |-> Market("cross_chain_messages"),
     get_cross_chain_msg_context |-> CrossChainMessagingBundle]

\* api/routers/_legacy/defi.py
DefiRouter ==
    [get_tvl_ranking |-> Market("defi_tvl"),
     get_protocol_tvl |-> Market("defi_tvl"),
     get_lending_rates |-> Market("defi_lending_rates"),
     get_dex_volume |-> Market("defi_dex_volume"),
     get_defi_summary |-> Market("defi_tvl") ** Market("defi_dex_volume")
         ** Market("defi_lending_rates")]

\* api/routers/_legacy/defi_liquidation.py
DefiLiquidationRouter ==
    [get_recent |-> Market("defi_liquidations"),
     get_by_protocol |-> Market("defi_liquidations"),
     get_health_factors |-> Market("health_factor_distribution"),
     get_summary |-> Market("defi_liquidations"),
     get_defi_liquidation_context |-> Create(ServiceTables.defi_liquidation_data)
         ** DefiLiquidationBundle,
     get_events_paginated |-> Market("defi_liquidations")]

\* api/routers/_legacy/derivatives_sentiment.py
DerivativesSentimentRouter ==
    [get_fear_greed |-> Market("sentiment_index"),
     get_latest_fear_greed |-> Market("sentiment_index"),
     get_long_short_ratios |-> Market("derivatives_sentiment"),
     get_open_interest |-> Market("derivatives_sentiment"),
     get_derivatives_sentiment_context |-> DerivativesSentimentBundle]

\* api/routers/_legacy/dex_liquidity.py
DexLiquidityRouter ==
    [get_pools |-> Market("dex_pools"),
     get_tvl_distribution |-> Market("dex_pools"),
     get_tick_liquidity |-> Market("dex_tick_liquidity"),
     get_liquidity_events |-> Market("dex_liquidity_events"),
     get_liquidity_concentration |-> Market("dex_pools"),
     get_large_events |-> Market("dex_liquidity_events"),
     get_dex_liquidity_context |-> DexLiquidityBundle]

\* api/routers/_legacy/dex_trade_flow.py
DexTradeFlowRouter ==
    [get_recent_large_trades |-> Market("dex_large_trades"),
     get_router_volume_stats |-> Market("dex_router_stats"),
     get_mev_victim_trades |-> Market("dex_large_trades"),
     get_trades_by_token |-> Market("dex_large_trades"),
     get_dex_trade_flow_context |-> DexTradeFlowBundle]

\* api/routers/_legacy/etf_flow.py
EtfFlowRouter ==
    [get_daily_flows |-> Market("etf_daily_flows"),
     get_flow_summary |-> Market("etf_flow_summary"),
     get_issuer_ranking |-> Market("etf_daily_flows"),
     get_premium_discount |-> Market("etf_premium_discount"),
     get_flow_streak |-> Market("etf_flow_streaks"),
     get_flow_anomalies |-> Market("etf_daily_flows"),
     get_etf_flow_context |-> EtfFlowBundle]

\* api/routers/_legacy/exchange_announcement.py
ExchangeAnnouncementRouter ==
    [get_recent_announcements |-> Market("exchange_announcements"),
     get_listing_events |-> Market("listing_events"),
     get_announcements_by_exchange |-> Market("exchange_announcements"),
     get_announcements_by_token |-> Market("exchange_announcements"),
     get_exchange_announcement_context |-> ExchangeAnnouncementBundle]

\* api/routers/_legacy/exchange_reserve.py
ExchangeReserveRouter ==
    [get_reserve_balances |-> Market("exchange_reserves"),
     get_netflow |-> Market("reserve_changes"),
     get_reserve_summary |-> Market("exchange_reserves"),
     get_reserve_changes |-> Market("reserve_changes"),
     get_exchange_reserve_context |-> ExchangeReserveBundle]

\* api/routers/_legacy/funding_round.py
FundingRoundRouter ==
    [get_recent_rounds |-> Market("funding_rounds"),
     get_top_investors |-> Market("investor_activity"),
     get_rounds_by_category |-> Market("funding_rounds"),
     get_rounds_by_chain |-> Market("funding_rounds"),
     get_funding_round_context |-> FundingRoundBundle]

\* api/routers/_legacy/gas_network.py
GasNetworkRouter ==
    [get_current_gas |-> Market("gas_prices"),
     get_gas_history |-> Market("gas_prices"),
     get_congestion |-> Market("network_congestion"),
     get_gas_spikes |-> Market("gas_spikes"),
     get_avg_fee |-> Market("gas_prices"),
     get_block_utilization |-> Market("gas_prices"),
     get_gas_network_context |-> GasNetworkBundle]

\* api/routers/_legacy/governance.py
GovernanceRouter ==
    [get_proposals |-> Market("governance_proposals"),
     get_proposal_votes |-> Market("governance_votes"),
     get_governance_activity |-> Market("governance_activity"),
     get_whale_votes |-> Market("governance_votes"),
     get_participation_trend |-> Market("governance_activity"),
     get_quorum_risk |-> Market("governance_proposals"),
     get_protocol_ranking |-> Market("governance_activity"),
     get_governance_context |-> GovernanceBundle]

\* api/routers/_legacy/lending_utilization.py
LendingUtilizationRouter ==
    [get_current_pools |-> Market("lending_pools"),
     get_high_utilization_pools |-> Market("lending_pools"),
     get_pools_by_protocol |-> Market("lending_pools"),
     get_utilization_history |-> Market("utilization_snapshots"),
     get_lending_utilization_context |-> LendingUtilizationBundle]

\* api/routers/_legacy/liquid_staking.py
LiquidStakingRouter ==
    [get_staking_positions |-> Market("staking_positions"),
     get_validator_queue |-> Market("validator_queue"),
     get_restaking_tvl |-> Market("restaking_tvl"),
     get_apr_comparison |-> Market("staking_positions"),
     get_liquid_staking_context |-> LiquidStakingBundle]

\* api/routers/_legacy/mempool.py
MempoolRouter ==
    [get_mempool_snapshots |-> Market("mempool_snapshots"),
     get_fee_trends |-> Market("mempool_snapshots"),
     get_large_transactions |-> Market("pending_large_txs"),
     get_mempool_pressure |-> Market("mempool_snapshots"),
     get_mempool_context |-> MempoolBundle]

\* api/routers/_legacy/mev.py
MevRouter ==
    [get_mev_blocks |-> Market("mev_blocks"),
     get_mev_aggregation |-> Market("mev_agg"),
     get_builder_ranking |-> Market("mev_blocks"),
     get_sandwich_analysis |-> Market("mev_sandwich"),
     get_liquidation_pressure |-> Market("mev_liquidations"),
     get_builder_concentration |-> Market("mev_concentration"),
     get_mev_context |-> MevBundle]

\* api/routers/_legacy/miner.py
MinerRouter ==
    [get_miner_metrics |-> Market("miner_metrics"),
     get_latest_miner_metrics |-> Market("miner_metrics"),
     get_hashrate_history |-> Market("hashrate_history"),
     get_puell_multiple |-> Market("miner_metrics"),
     get_miner_context |-> MinerBundle]

\* api/routers/_legacy/nft_market.py
NftMarketRouter ==
    [get_collections |-> Market("nft_collection_stats"),
     get_overview |-> Market("nft_market_metrics"),
     get_collection |-> Market("nft_collection_stats"),
     get_history |-> Market("nft_market_metrics"),
     get_nft_market_context |-> Create(ServiceTables.nft_market_data) ** NftMarketBundle]

\* api/routers/_legacy/onchain_address.py
OnchainAddressRouter ==
    [get_whale_moves |-> Market("whale_moves"),
     get_address_flows |-> Market("address_flows"),
     get_address_labels |-> Market("address_labels"),
     get_net_flow |-> Market("address_flows"),
     get_top_movers |-> Market("whale_moves"),
     get_exchange_flow |-> Market("whale_moves"),
     get_onchain_address_context |-> OnchainAddressBundle]

\* api/routers/_legacy/onchain_holder.py
OnchainHolderRouter ==
    [get_holder_distribution |-> Market("holder_distribution"),
     get_holder_metrics |-> Market("holder_metrics"),
     get_latest_metrics |-> Market("holder_metrics"),
     get_structure_change |-> Market("holder_distribution"),
     get_onchain_holder_context |-> OnchainHolderBundle]

\* api/routers/_legacy/orderbook_depth.py
OrderbookDepthRouter ==
    [get_latest_depth |-> Market("depth_snapshots"),
     get_history |-> Market("depth_snapshots"),
     get_imbalance |-> Market("depth_snapshots"),
     get_walls |-> Market("depth_snapshots"),
     get_orderbook_depth_context |-> Create(ServiceTables.cex_orderbook_depth)
         ** CexOrderbookDepthBundle]

\* api/routers/_legacy/orderflow_micro.py
OrderflowMicroRouter ==
    [get_pressure |-> Market("orderflow_agg"),
     get_large_trades |-> Market("orderflow_agg"),
     get_cross_exchange |-> Market("orderflow_agg"),
     get_orderflow_summary |-> Market("orderflow_agg")]

\* api/routers/_legacy/basis_curve.py
BasisCurveRouter ==
    [get_term_structure |-> Market("futures_term_structure"),
     get_basis_snapshot |-> Market("basis_curve_snapshot"),
     get_roll_yield |-> Market("basis_roll_yield"),
     get_slope_history |-> Market("basis_slope_history"),
     get_exchange_comparison |-> Market("basis_exchange_comparison"),
     get_basis_anomalies |-> Market("basis_anomalies"),
     get_basis_curve_context |-> PerpetualBasisCurveBundle]

\* api/routers/_legacy/perpetual_dex.py
PerpetualDexRouter ==
    [get_funding_rates |-> Market("perp_dex_funding"),
     get_dex_volume |-> Market("perp_dex_volume"),
     get_funding_comparison |-> Market("perp_dex_funding"),
     get_oi_distribution |-> Market("perp_dex_funding"),
     get_funding_history |-> Market("perp_dex_funding"),
     get_arb_spread |-> Market("perp_dex_funding"),
     get_perpetual_dex_context |-> PerpetualDexBundle]

\* api/routers/_legacy/prediction_market.py
PredictionMarketRouter ==
    [get_active_markets |-> Market("prediction_markets"),
     get_crypto_markets |-> Market("prediction_markets"),
     get_market_history |-> Market("prediction_market_history"),
     get_probability_movers |-> Select(In("market", {"prediction_markets",
         "prediction_market_history"})),
     get_prediction_market_context |-> PredictionMarketBundle]

\* api/routers/_legacy/regulatory.py
RegulatoryRouter ==
    [get_events |-> Market("regulatory_events"),
     get_etf_tracker |-> Market("etf_tracker"),
     get_risk_signal |-> Market("regulatory_events"),
     get_regulatory_summary |-> Market("regulatory_events") ** Market("etf_tracker")]

\* api/routers/_legacy/search_trend.py
SearchTrendRouter ==
    [get_latest_trends |-> Market("search_trends"),
     get_trend_history |-> Market("trend_history"),
     get_trend_momentum |-> Market("search_trends"),
     get_top_trending |-> Market("search_trends"),
     get_search_trend_context |-> SearchTrendBundle]

\* api/routers/_legacy/social_sentiment.py
SocialSentimentRouter ==
    [get_sentiment_score |-> Market("social_sentiment_agg"),
     get_sentiment_history |-> Market("social_sentiment_agg"),
     get_sentiment_ranking |-> Market("social_sentiment_agg"),
     get_sentiment_summary |-> Market("social_sentiment_agg")]

\* api/routers/_legacy/stablecoin_flow.py
StablecoinFlowRouter ==
    [get_latest_mint_burns |-> Market("stablecoin_mint_burns"),
     get_history |-> Market("stablecoin_mint_burns"),
     get_chain_flows |-> Market("stablecoin_chain_flows"),
     get_summary |-> Market("stablecoin_mint_burns"),
     get_stablecoin_flow_context |-> Create(ServiceTables.stablecoin_flow_data)
         ** StablecoinFlowBundle,
     get_events_paginated |-> Market("stablecoin_mint_burns")]

\* api/routers/_legacy/token_unlock.py
TokenUnlockRouter ==
    [get_upcoming_unlocks |-> Market("upcoming_unlocks"),
     get_history |-> Market("unlock_events"),
     get_by_token |-> Market("upcoming_unlocks"),
     get_high_impact |-> Market("upcoming_unlocks"),
     get_token_unlock_context |-> Create(ServiceTables.token_unlock_realtime)
         ** TokenUnlockBundle]

\* api/routers/_legacy/whale_pnl.py
WhalePnlRouter ==
    [get_portfolios |-> Market("whale_portfolios"),
     get_top_performers |-> Market("whale_portfolios"),
     get_history |-> Market("whale_pnl_history"),
     get_aggregate |-> Market("whale_portfolios"),
     get_whale_pnl_context |-> Create(ServiceTables.whale_wallet_pnl) ** WhaleWalletPnlBundle,
     get_history_paginated |-> Market("whale_pnl_history")]

\* api/routers/_legacy/whale_tracker.py
WhaleTrackerRouter ==
    [get_recent_transactions |-> Market("whale_transactions"),
     get_whale_flow |-> Market("whale_flow_agg"),
     get_whale_ranking |-> Market("whale_flow_agg"),
     get_whale_alerts |-> Market("whale_transactions")]

\* The routers of the group, by the name of their file.
MarketRouters ==
    [bridge_flow |-> BridgeFlowRouter,
     cefi_lending |-> CefiLendingRouter,
     cross_chain_msg |-> CrossChainMsgRouter,
     defi |-> DefiRouter,
     defi_liquidation |-> DefiLiquidationRouter,
     derivatives_sentiment |-> DerivativesSentimentRouter,
     dex_liquidity |-> DexLiquidityRouter,
     dex_trade_flow |-> DexTradeFlowRouter,
     etf_flow |-> EtfFlowRouter,
     exchange_announcement |-> ExchangeAnnouncementRouter,
     exchange_reserve |-> ExchangeReserveRouter,
     funding_round |-> FundingRoundRouter,
     gas_network |-> GasNetworkRouter,
     governance |-> GovernanceRouter,
     lending_utilization |-> LendingUtilizationRouter,
     liquid_staking |-> LiquidStakingRouter,
     mempool |-> MempoolRouter,
     mev |-> MevRouter,
     miner |-> MinerRouter,
     nft_market |-> NftMarketRouter,
     onchain_address |-> OnchainAddressRouter,
     onchain_holder |-> OnchainHolderRouter,
     orderbook_depth |-> OrderbookDepthRouter,
     orderflow_micro |-> OrderflowMicroRouter,
     basis_curve |-> BasisCurveRouter,
     perpetual_dex |-> PerpetualDexRouter,
     prediction_market |-> PredictionMarketRouter,
     regulatory |-> RegulatoryRouter,
     search_trend |-> SearchTrendRouter,
     social_sentiment |-> SocialSentimentRouter,
     stablecoin_flow |-> StablecoinFlowRouter,
     token_unlock |-> TokenUnlockRouter,
     whale_pnl |-> WhalePnlRouter,
     whale_tracker |-> WhaleTrackerRouter]
==============================================================================
