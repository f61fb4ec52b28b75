------------------------- MODULE AnalyticsEndpoints --------------------------
(***************************************************************************)
(* The routers that answer from what the pipeline saves in analytics.db,   *)
(* and from the macro, news and factor tables.                             *)
(***************************************************************************)
EXTENDS EndpointPaths, TLC

\* api/routers/_legacy/technical.py
TechnicalRouter ==
    [get_indicators |-> Analytics("technical_indicators"),
     get_all_indicators |-> Analytics("technical_indicators"),
     get_klines |-> Analytics("merged_klines"),
     get_indicators_paginated |-> Analytics("technical_indicators")]

\* api/routers/_legacy/technical_deep.py
TechnicalDeepFieldsRouter ==
    [get_single_indicator |-> Analytics("technical_indicators"),
     get_multi_indicators |-> Analytics("technical_indicators"),
     get_extremes |-> Analytics("technical_indicators")]

TechnicalDeepExtremesRouter ==
    [get_divergences |-> Analytics("technical_indicators"),
     get_regime |-> Analytics("technical_indicators")]

TechnicalDeepRegimeRouter ==
    [scan_indicators |-> Analytics("technical_indicators")
         \cup Each(Analytics("technical_indicators"))]

\* api/routers/_legacy/analytics_ts.py
AnalyticsTsPricesRouter ==
    [price_change |-> Analytics("merged_klines"),
     volatility_trend |-> Analytics("merged_klines"),
     mean_reversion |-> Analytics("merged_klines")]

AnalyticsTsMomentumRouter ==
    [momentum_history |-> Analytics("technical_indicators"),
     funding_trend |-> Exchange("funding_rates")]

AnalyticsTsTimeframesRouter ==
    [multi_timeframe |-> Each(Analytics("technical_indicators"))]

\* api/routers/_legacy/signals.py
SignalsRouter ==
    [get_signal_bundle |-> Analytics("technical_indicators") ** Exchange("latest_funding_rates")
         ** Analytics("merged_klines") ** Analytics("ai_market_context_snapshots")
         ** Analytics("feature_standardization_details")]

SignalsAllRouter ==
    [get_all_signals |-> Each(Maybe(Analytics("technical_indicators")
         ** Exchange("latest_funding_rates") ** Analytics("merged_klines")
         ** Analytics("ai_market_context_snapshots")
         ** Analytics("feature_standardization_details")))]

\* api/routers/_legacy/regime.py
RegimeRouter ==
    [get_current_regime |-> Analytics("regime_states"),
     get_all_regimes |-> Analytics("regime_states"),
     get_regime_history |-> Analytics("regime_states"),
     get_regime_transitions |-> Analytics("regime_transitions")]

\* api/routers/_legacy/risk.py
RiskRouter ==
    [get_portfolio_risk_latest |-> Analytics("portfolio_risk_snapshots"),
     get_portfolio_risk_history |-> Analytics("portfolio_risk_snapshots"),
     get_asset_volatilities |-> Analytics("merged_klines")]

RiskScoreRouter ==
    [get_risk_score |-> Analytics("merged_klines")]

\* api/routers/_legacy/portfolio_analytics.py
PortfolioAnalyticsRouter ==
    [get_portfolio_snapshot |-> Analytics("portfolio_risk_snapshots")
         ** Maybe(Analytics("portfolio_risk_snapshots")),
     get_drawdown |-> Analytics("portfolio_risk_snapshots")
         ** Maybe(Analytics("portfolio_risk_snapshots")),
     get_concentration |-> Analytics("portfolio_risk_snapshots")
         ** Maybe(Analytics("portfolio_risk_snapshots"))]

PortfolioAnalyticsRiskRouter ==
    [get_var_decomposition |-> Analytics("portfolio_risk_snapshots")
         ** Maybe(Analytics("portfolio_risk_snapshots")),
     get_correlation_risk |-> Analytics("cross_asset_correlation_snapshots"),
     get_risk_trend |-> Analytics("portfolio_risk_snapshots")
         ** Maybe(Analytics("portfolio_risk_snapshots"))]

\* api/routers/_legacy/cross_asset.py
CrossAssetRouter ==
    [get_correlation_matrix |-> Analytics("cross_asset_correlation_snapshots")
         ** Maybe(Analytics("cross_asset_correlation_snapshots")),
     get_relative_strength |-> Analytics("cross_asset_relative_strength"),
     get_sector_rotation |-> Analytics("cross_asset_sector_rotation"),
     get_fund_flow |-> Analytics("cross_asset_fund_flow")]

CrossAssetSummaryRouter ==
    [get_cross_asset_summary |-> Analytics("cross_asset_correlation_snapshots")
         ** Analytics("cross_asset_relative_strength")
         ** Analytics("cross_asset_sector_rotation")]

\* api/routers/_legacy/cross_asset_history.py
CrossAssetHistoryCorrelationRouter ==
    [get_correlation_history |-> Analytics("cross_asset_correlation_snapshots")
         ** Maybe(Analytics("cross_asset_correlation_snapshots")),
     get_pair_correlation_history |-> Analytics("cross_asset_correlation_snapshots"),
     get_relative_strength_history |-> Analytics("cross_asset_relative_strength")]

CrossAssetHistoryFlowsRouter ==
    [get_sector_rotation_history |-> Analytics("cross_asset_sector_rotation"),
     get_fund_flow_history |-> Analytics("cross_asset_fund_flow"),
     get_exchange_comparison_history |-> Analytics("exchange_comparison_snapshots")]

\* api/routers/_legacy/features.py
FeaturesRouter ==
    [get_composites_by_symbol |-> Analytics("feature_standardization_composites"),
     get_composites_by_name |-> Analytics("feature_standardization_composites"),
     get_details_by_symbol |-> Analytics("feature_standardization_details"),
     get_feature_ranking |-> Analytics("feature_standardization_details")]

\* api/routers/_legacy/data_quality.py
DataQualityRouter ==
    [get_audit_latest |-> Analytics("data_quality_audit_snapshots"),
     get_audit_history |-> Analytics("data_quality_audit_snapshots"),
     get_readiness_latest |-> Analytics("asset_readiness_snapshots"),
     get_readiness_history |-> Analytics("asset_readiness_snapshots"),
     get_market_structure |-> Analytics("market_structure_snapshots"),
     get_collection_runs |-> Analytics("collection_runs")]

\* api/routers/_legacy/ai_context.py
AiContextBundlesRouter ==
    [decision_bundle |-> Analytics("ai_market_context_snapshots")
         ** Analytics("feature_standardization_composites")
         ** Analytics("exchange_comparison_snapshots") ** Exchange("latest_tickers"),
     market_state |-> Analytics("market_structure_snapshots")
         ** Analytics("asset_readiness_snapshots") ** Analytics("market_breadth_snapshots")]

AiContextFactorsRouter ==
    [factor_regime |-> Analytics("feature_standardization_composites"),
     arbitrage_opportunities |-> Analytics("exchange_comparison_snapshots"),
     data_freshness |-> Analytics("collection_runs") ** Exchange("collection_runs")
         ** Exchange("latest_tickers") ** Exchange("latest_funding_rates")
         ** Exchange("latest_orderbook_snapshots") ** Exchange("latest_trade_flow_bars")]

AiContextReadinessRouter ==
    [trading_readiness |-> Analytics("asset_readiness_snapshots")
         ** Analytics("data_quality_audit_snapshots")
         ** Maybe(Analytics("data_quality_audit_snapshots"))]

\* api/routers/_legacy/volatility.py
VolatilityRouter ==
    [get_volatility_forecast |-> Market("merged_klines"),
     get_volatility_cone |-> Market("merged_klines"),
     get_volatility_ranking |-> Market("merged_klines")]

VolatilitySpreadRouter ==
    [get_rv_iv_spread |-> Market("merged_klines") ** Maybe(Market("options_timeseries"))]

\* api/routers/_legacy/sentiment.py
SentimentNewsRouter ==
    [get_latest_news |-> Market("news_articles"),
     get_news_sentiment_score |-> Market("news_articles"),
     get_market_breadth |-> Analytics("market_breadth_snapshots"),
     get_market_breadth_history |-> Analytics("market_breadth_snapshots")]

SentimentSignalsRouter ==
    [get_sentiment_summary |-> Market("news_articles") ** Analytics("market_breadth_snapshots"),
     get_sentiment_labels |-> Analytics("news_sentiment_labels"),
     get_sentiment_signal |-> Analytics("sentiment_signals"),
     get_causality |-> Analytics("sentiment_causality")]

\* api/routers/_legacy/news_intel.py
NewsIntelSignalsRouter ==
    [news_signal |-> Market("news_articles") ** Analytics("news_sentiment_labels"),
     upcoming_events |-> Market("token_unlock_events") ** Market("event_calendar_events"),
     narrative |-> Market("news_articles")]

NewsIntelSourcesRouter ==
    [cross_asset_sentiment |-> Market("news_articles"),
     regulatory_radar |-> Market("news_articles"),
     source_reliability |-> Market("news_articles")]

\* api/routers/_legacy/macro.py
MacroRouter ==
    [get_macro_latest |-> Analytics("macro_context_snapshots"),
     get_macro_history |-> Analytics("macro_context_snapshots")
         ** Maybe(Each(Analytics("macro_context_snapshots"))),
     get_macro_factors |-> Select(In("market", {"macro_timeseries", "macro_factor_catalog"}))]

MacroRegimeRouter ==
    [get_macro_regime |-> Analytics("macro_context_snapshots"),
     get_macro_snapshot |-> Market("latest_macro_timeseries")]

\* api/routers/_legacy/onchain.py
OnchainFlowRouter ==
    [get_exchange_flow |-> Exchange("latest_open_interest_snapshots")
         ** Exchange("latest_funding_rates") ** Exchange("klines")
         ** Tried(Market("latest_onchain_timeseries"))]

OnchainWhalesRouter ==
    [get_whale_activity |-> Exchange("klines") ** Exchange("klines")
         ** Exchange("latest_open_interest_snapshots") ** Exchange("latest_funding_rates")
         ** Tried(Market("latest_onchain_timeseries")),
     get_stablecoin_supply |-> Market("latest_onchain_timeseries")]

OnchainUsageRouter ==
    [get_protocol_tvl |-> Market("latest_onchain_timeseries"),
     get_network_usage |-> Market("latest_onchain_timeseries"),
     get_onchain_summary |-> Market("latest_onchain_timeseries")]

\* api/routers/_legacy/catalogs.py
CatalogsRouter ==
    [get_alternative_catalog |-> Market("alternative_factor_catalog"),
     get_onchain_catalog |-> Market("onchain_factor_catalog"),
     get_options_catalog |-> Market("options_factor_catalog"),
     get_tokenomics_catalog |-> Market("tokenomics_factor_catalog"),
     get_macro_catalog |-> Market("macro_factor_catalog")]

\* api/routers/_legacy/alternative.py
AlternativeRouter ==
    [get_developer_activity |-> Market("latest_alternative_timeseries"),
     get_stablecoin_flows |-> Market("latest_alternative_timeseries"),
     get_factors |-> Market("latest_alternative_timeseries"),
     get_alternative_history |-> Market("alternative_timeseries")]

\* api/routers/_legacy/factor_explorer.py
Catalogs ==
    <<"options_factor_catalog", "tokenomics_factor_catalog", "onchain_factor_catalog",
      "alternative_factor_catalog", "macro_factor_catalog">>

Series ==
    <<"options_timeseries", "tokenomics_timeseries", "onchain_timeseries",
      "alternative_timeseries", "macro_timeseries">>

FactorExplorerRouter ==
    [get_factor_domains |-> InTurn([i \in DOMAIN Catalogs |-> Tried(Market(Catalogs[i]))]),
     search_factors |-> InTurn([i \in DOMAIN Catalogs |-> Tried(Market(Catalogs[i]))])
         \cup UNION {Tried(Market(Catalogs[i])) : i \in DOMAIN Catalogs},
     get_factor_timeseries |-> UNION {Market(s) : s \in Range(Series)}]

FactorExplorerStatisticsRouter ==
    [get_factor_correlation |-> UNION {Market(s) ** Market(t) : s, t \in Range(Series)},
     get_factor_summary |-> InTurn([i \in DOMAIN Series |-> Tried(Market(Catalogs[i]))
         ** Tried(Market(Series[i])) ** Tried(Market(Series[i]))])]

\* api/routers/_legacy/anomaly.py
AnomalyRouter ==
    [get_recent_anomalies |-> Analytics("anomalies"),
     get_active_anomalies |-> Analytics("anomalies"),
     get_market_risk |-> Analytics("anomalies") ** Analytics("anomalies")]

\* The routers of the group, by the name of their file.
AnalyticsRouters ==
    [technical |-> TechnicalRouter,
     technical_deep |-> TechnicalDeepFieldsRouter @@ TechnicalDeepExtremesRouter
         @@ TechnicalDeepRegimeRouter,
     analytics_ts |-> AnalyticsTsPricesRouter @@ AnalyticsTsMomentumRouter
         @@ AnalyticsTsTimeframesRouter,
     signals |-> SignalsRouter @@ SignalsAllRouter,
     regime |-> RegimeRouter,
     risk |-> RiskRouter @@ RiskScoreRouter,
     portfolio_analytics |-> PortfolioAnalyticsRouter @@ PortfolioAnalyticsRiskRouter,
     cross_asset |-> CrossAssetRouter @@ CrossAssetSummaryRouter,
     cross_asset_history |-> CrossAssetHistoryCorrelationRouter @@ CrossAssetHistoryFlowsRouter,
     features |-> FeaturesRouter,
     data_quality |-> DataQualityRouter,
     ai_context |-> AiContextBundlesRouter @@ AiContextFactorsRouter
         @@ AiContextReadinessRouter,
     volatility |-> VolatilityRouter @@ VolatilitySpreadRouter,
     sentiment |-> SentimentNewsRouter @@ SentimentSignalsRouter,
     news_intel |-> NewsIntelSignalsRouter @@ NewsIntelSourcesRouter,
     macro |-> MacroRouter @@ MacroRegimeRouter,
     onchain |-> OnchainFlowRouter @@ OnchainWhalesRouter @@ OnchainUsageRouter,
     catalogs |-> CatalogsRouter,
     alternative |-> AlternativeRouter,
     factor_explorer |-> FactorExplorerRouter @@ FactorExplorerStatisticsRouter,
     anomaly |-> AnomalyRouter]
==============================================================================
