------------------------------ MODULE MCAnswers ------------------------------
EXTENDS Answers, ExchangeEndpoints, AnalyticsEndpoints, MarketEndpoints, LogicEndpoints,
        CurrentEndpoints, TimeSliceEndpoints, MCProgramRules

MCRouters ==
    ExchangeRouters @@ AnalyticsRouters @@ MarketRouters @@ LogicRouters @@ CurrentRouters
        @@ TimeSliceRouters

\* The services that main.py has not in its registry and the pipeline does not run.
Unregistered ==
    {"alpha_decay", "anomaly_detection", "bridge_flow_data", "cefi_lending_rate",
     "contagion_risk", "defi_protocol_data", "etf_flow_data", "flow_decomposition",
     "funding_rate_model", "liquidity_analysis", "mev_data", "narrative_regime",
     "orderflow_data", "perpetual_basis_curve", "regime_detection", "regulatory_data",
     "sentiment_signal", "social_sentiment_data", "temporal_pattern", "volatility_forecast",
     "whale_tracker_data"}

\* Those it knows and skips: switched off by default (core/feature_flags.py), and
\* lazy by default (core/lazy_starter.py).
FlaggedOff == {"dex_trade_flow"}

Lazy == {"governance_data", "nft_market_data", "prediction_market_data", "search_trend_data"}

MCLaunched == DOMAIN ServiceTables \ (Unregistered \cup FlaggedOff \cup Lazy)

\* Routers that are not registered unless FF_*_ENABLED=1 (DEFAULT_DISABLED_DOMAINS).
DisabledRouters ==
    {"etf_flow", "whale_tracker", "whale_pnl", "social_sentiment", "nft_market",
     "dex_trade_flow", "liquidity_regime", "sentiment_composite", "regulatory",
     "derivatives_sentiment", "onchain_holder", "token_unlock"}

\* The services of those domains that do not run by default.
DisabledServices ==
    {"etf_flow_data", "whale_tracker_data", "social_sentiment_data", "nft_market_data",
     "dex_trade_flow", "regulatory_data"}

\* Domains that are switched off do not appear as errors of the others
\* (core/feature_flags.py:9): nobody else looks at the tables they do not create.
ASSUME DisabledDomainsKeepQuiet ==
    /\ DisabledServices \cap MCLaunched = {}
    /\ \A r \in DOMAIN Routers \ DisabledRouters :
            \A s \in DisabledServices : s \notin Concerned(r)

Writing == {"insert", "put", "revise", "delete", "latest", "record"}

WrittenBy(jobs) ==
    {step.table : step \in {s \in UNION {Range(jobs[j]) : j \in DOMAIN jobs} : s.op \in Writing}}

MCWritten == WrittenBy(JobPrograms!MCProgram)

Pairs(lists) == UNION {{r} \X lists[r] : r \in DOMAIN lists}

\* They read a table again for what it was before, or once per asset of a list.
RereadingEndpoints ==
    [exchange |-> {"get_all_funding_rates"},
     microstructure |-> {"get_volatility_profile"},
     monitor |-> {"alerts", "price_breakouts", "funding_anomalies", "liquidation_surges",
         "volume_spikes", "positioning_extremes", "oi_divergence"},
     strategy |-> {"multi_factor_score", "divergence_scanner", "funding_arb",
         "squeeze_detector", "mean_reversion_candidates", "portfolio_signals"},
     technical_deep |-> {"scan_indicators"},
     analytics_ts |-> {"multi_timeframe"},
     signals |-> {"get_all_signals"},
     portfolio_analytics |-> {"get_portfolio_snapshot", "get_drawdown", "get_concentration",
         "get_var_decomposition", "get_risk_trend"},
     cross_asset |-> {"get_correlation_matrix"},
     cross_asset_history |-> {"get_correlation_history"},
     ai_context |-> {"trading_readiness"},
     macro |-> {"get_macro_history"},
     onchain |-> {"get_whale_activity"},
     factor_explorer |-> {"get_factor_correlation", "get_factor_summary"},
     cefi_lending |-> {"get_cefi_lending_context"},
     dex_liquidity |-> {"get_dex_liquidity_context"},
     etf_flow |-> {"get_etf_flow_context"},
     funding_round |-> {"get_funding_round_context"},
     gas_network |-> {"get_gas_network_context"},
     governance |-> {"get_governance_context"},
     liquid_staking |-> {"get_liquid_staking_context"},
     mempool |-> {"get_mempool_context"},
     onchain_holder |-> {"get_onchain_holder_context"},
     prediction_market |-> {"get_prediction_market_context"},
     flow_decomposition |-> {"get_flow_decomposition_context"},
     temporal_pattern |-> {"get_temporal_context"},
     time_slice |-> {"get_time_slice", "get_time_slice_range"},
     v3_risk |-> {"get_correlation"},
     v3_technical |-> {"get_multi_timeframe"}]

MCRereading == Pairs(RereadingEndpoints)

\* They name tables that no schema of the repository has.
TablelessEndpoints ==
    [volatility |-> {"get_volatility_forecast", "get_volatility_cone",
         "get_volatility_ranking", "get_rv_iv_spread"},
     sentiment |-> {"get_causality"},
     anomaly |-> {"get_recent_anomalies", "get_active_anomalies", "get_market_risk"},
     cefi_lending |-> {"get_utilization"},
     etf_flow |-> {"get_premium_discount", "get_flow_streak"},
     exchange_reserve |-> {"get_netflow", "get_reserve_changes"},
     mev |-> {"get_sandwich_analysis", "get_liquidation_pressure",
         "get_builder_concentration"},
     basis_curve |-> {"get_exchange_comparison", "get_roll_yield", "get_slope_history",
         "get_basis_anomalies"},
     alpha_decay |-> {"get_signal_divergence"},
     contagion_risk |-> {"get_systemic_score", "get_stablecoin_health"},
     flow_decomposition |-> {"get_smart_money", "get_accumulation_phase"},
     narrative_regime |-> {"get_narrative_tokens"},
     temporal_pattern |-> {"get_halving_cycle", "get_funding_cycle"}]

MCTableless == Pairs(TablelessEndpoints)
==============================================================================
