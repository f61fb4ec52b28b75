-------------------------- MODULE CurrentEndpoints ---------------------------
(***************************************************************************)
(* The routers of the current version of the API.                          *)
(***************************************************************************)
EXTENDS EndpointPaths, TLC

\* api/routers/v3_defi.py
V3DefiRouter ==
    [get_liquidations |-> Market("defi_liquidations"),
     get_liquidations_by_protocol |-> Market("defi_liquidations"),
     get_health_factors |-> Market("health_factor_distribution"),
     get_stress |-> Analytics("defi_stress_states"),
     get_proposals |-> Market("governance_proposals"),
     get_votes |-> Market("governance_votes"),
     get_smart_money |-> Analytics("smart_money_conviction_states")]

\* api/routers/v3_factors.py
V3FactorsRouter ==
    [get_catalog |-> OneOf("market", {"alternative_factor_catalog", "onchain_factor_catalog",
         "options_factor_catalog", "tokenomics_factor_catalog", "macro_factor_catalog"}),
     get_macro_latest |-> Analytics("macro_context_snapshots"),
     get_macro_timeseries |-> Market("macro_timeseries") \cup Market("latest_macro_timeseries"),
     explore_factors |-> OneOf("market", {"latest_alternative_timeseries",
         "latest_onchain_timeseries", "latest_macro_timeseries"})]

\* api/routers/v3_market.py
V3MarketRouter ==
    [get_tickers |-> Exchange("latest_tickers"),
     get_klines |-> Analytics("merged_klines"),
     get_funding_rates |-> Exchange("latest_funding_rates"),
     get_open_interest |-> Exchange("latest_open_interest_snapshots"),
     get_depth |-> Market("depth_levels"),
     get_market_info |-> Exchange("market_info"),
     get_announcements |-> Market("exchange_announcements")]

V3MarketListingsRouter ==
    [get_listings |-> Market("listing_events")]

\* api/routers/v3_onchain.py
V3OnchainRouter ==
    [get_metrics |-> Market("latest_onchain_timeseries"),
     get_alternative |-> Market("latest_alternative_timeseries"),
     get_stablecoin_flows |-> Market("stablecoin_chain_flows"),
     get_stablecoin_pulse |-> Analytics("stablecoin_pulse_states"),
     get_cross_chain |-> Market("cross_chain_messages"),
     get_mempool |-> Market("mempool_snapshots"),
     get_large_txs |-> Market("pending_large_txs")]

\* api/routers/v3_risk.py
V3RiskRouter ==
    [get_portfolio |-> Analytics("portfolio_risk_snapshots"),
     get_correlation |-> Analytics("cross_asset_correlation_snapshots")
         ** Maybe(Analytics("cross_asset_correlation_snapshots")),
     get_relative_strength |-> Analytics("cross_asset_relative_strength"),
     get_sector_rotation |-> Analytics("cross_asset_sector_rotation"),
     get_fund_flow |-> Analytics("cross_asset_fund_flow"),
     get_liquidity_regime |-> Analytics("liquidity_regime_states")]

V3RiskSummaryRouter ==
    [get_summary |-> Analytics("cross_asset_correlation_snapshots")
         ** Analytics("cross_asset_relative_strength")
         ** Analytics("cross_asset_sector_rotation")]

\* api/routers/v3_sentiment.py
V3SentimentRouter ==
    [get_news |-> Market("news_articles"),
     get_news_by_asset |-> Market("news_articles"),
     get_composite |-> Market("sentiment_index"),
     get_retail_fomo |-> Analytics("retail_fomo_states"),
     get_prediction_markets |-> Market("prediction_markets"),
     get_probability_movers |-> Select(In("market", {"prediction_markets",
         "prediction_market_history"})),
     get_market_breadth |-> Analytics("market_breadth_snapshots")]

\* api/routers/v3_system.py
StatusTables ==
    <<<<"exchange", "klines">>, <<"exchange", "market_info">>,
      <<"analytics", "merged_klines">>, <<"analytics", "technical_indicators">>,
      <<"market", "macro_timeseries">>, <<"market", "news_articles">>,
      <<"market", "latest_onchain_timeseries">>, <<"market", "latest_alternative_timeseries">>,
      <<"market", "governance_proposals">>, <<"market", "prediction_markets">>,
      <<"market", "cross_chain_messages">>, <<"market", "mempool_snapshots">>,
      <<"market", "stablecoin_chain_flows">>, <<"market", "depth_snapshots">>,
      <<"market", "exchange_announcements">>,
      <<"analytics", "cross_asset_correlation_snapshots">>,
      <<"analytics", "portfolio_risk_snapshots">>, <<"analytics", "market_breadth_snapshots">>,
      <<"analytics", "defi_stress_states">>, <<"analytics", "retail_fomo_states">>,
      <<"analytics", "smart_money_conviction_states">>,
      <<"analytics", "liquidity_regime_states">>>>

V3SystemRouter ==
    [get_status |-> InTurn([i \in DOMAIN StatusTables |-> Tried(Select({StatusTables[i]}))]),
     get_data_quality |-> Analytics("data_quality_audit_snapshots"),
     get_market_structure |-> Analytics("market_structure_snapshots"),
     get_asset_readiness |-> Analytics("asset_readiness_snapshots")]

\* api/routers/v3_technical.py
V3TechnicalRouter ==
    [get_indicators |-> Analytics("technical_indicators"),
     get_all_indicators |-> Analytics("technical_indicators"),
     get_klines |-> Analytics("merged_klines"),
     get_history |-> Analytics("technical_indicators"),
     get_extremes |-> Analytics("technical_indicators")]

V3TechnicalTimeframesRouter ==
    [get_multi_timeframe |-> Each(Analytics("technical_indicators"))]

\* api/routers/status.py
\* DOMAIN_REGISTRY: some of its tables belong to nobody.
RegistryTables ==
    <<<<"exchange", "latest_tickers">>, <<"exchange", "latest_funding_rates">>,
      <<"exchange", "latest_trade_flow_bars">>, <<"exchange", "latest_orderbook_snapshots">>,
      <<"market", "macro_timeseries">>, <<"market", "news_articles">>,
      <<"market", "latest_onchain_timeseries">>, <<"market", "latest_options_timeseries">>,
      <<"market", "defi_tvl">>, <<"market", "governance_proposals">>,
      <<"market", "gas_prices">>, <<"market", "mev_blocks">>,
      <<"market", "mempool_snapshots">>, <<"market", "exchange_reserves">>,
      <<"market", "miner_metrics">>, <<"market", "stablecoin_chain_flows">>,
      <<"market", "address_labels">>, <<"market", "asset_metadata_snapshots">>,
      <<"market", "bitcoin_onchain_history">>, <<"market", "ethereum_network_snapshots">>,
      <<"exchange", "okx_derivatives_raw">>, <<"exchange", "okx_market_candle_history_raw">>,
      <<"exchange", "okx_funding_history_raw">>, <<"exchange", "deribit_funding_history_raw">>,
      <<"exchange", "public_exchange_candle_history_raw">>,
      <<"exchange", "multi_exchange_composite_candles">>,
      <<"exchange", "public_exchange_quote_snapshots">>>>

StatusRouter ==
    [api_status |-> InTurn([i \in DOMAIN RegistryTables |-> Tried(Select({RegistryTables[i]}))])]

\* The routers of the group, by the name of their file.
CurrentRouters ==
    [v3_defi |-> V3DefiRouter,
     v3_factors |-> V3FactorsRouter,
     v3_market |-> V3MarketRouter @@ V3MarketListingsRouter,
     v3_onchain |-> V3OnchainRouter,
     v3_risk |-> V3RiskRouter @@ V3RiskSummaryRouter,
     v3_sentiment |-> V3SentimentRouter,
     v3_system |-> V3SystemRouter,
     v3_technical |-> V3TechnicalRouter @@ V3TechnicalTimeframesRouter,
     status |-> StatusRouter]
==============================================================================
