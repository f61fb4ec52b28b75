-------------------------- MODULE ExchangeEndpoints --------------------------
(***************************************************************************)
(* The routers that answer from exchange_data.db, and in part from the     *)
(* other two files: what each endpoint looks up, in which order. A request *)
(* that is refused for its parameters looks at nothing and is left out.    *)
(***************************************************************************)
EXTENDS EndpointPaths, TLC

\* api/routers/_legacy/exchange.py
ExchangeFundingRouter ==
    [get_funding_rates |-> Exchange("latest_funding_rates") \cup Exchange("funding_rates"),
     get_funding_rates_paginated |-> Exchange("funding_rates"),
     get_all_funding_rates |-> Exchange("latest_funding_rates")
         ** Exchange("latest_funding_rates"),
     get_orderbook |-> Exchange("latest_orderbook_snapshots")]

ExchangeLatestRouter ==
    [get_ticker |-> Exchange("latest_tickers"),
     get_exchange_comparison |-> Analytics("exchange_comparison_snapshots"),
     get_open_interest |-> Exchange("latest_open_interest_snapshots"),
     get_liquidations |-> Exchange("latest_liquidation_bars")]

ExchangeBarsRouter ==
    [get_trade_flow |-> Exchange("latest_trade_flow_bars"),
     get_basis |-> Exchange("latest_basis_snapshots"),
     get_positioning |-> Exchange("latest_positioning_snapshots"),
     get_klines |-> Exchange("klines")]

ExchangeHistoryRouter ==
    [get_ticker_history |-> Exchange("tickers"),
     get_orderbook_history |-> Exchange("orderbook_snapshots"),
     get_open_interest_history |-> Exchange("open_interest_snapshots"),
     get_positioning_history |-> Exchange("positioning_snapshots")]

ExchangeBarHistoryRouter ==
    [get_basis_history |-> Exchange("basis_snapshots"),
     get_trade_flow_history |-> Exchange("trade_flow_bars"),
     get_liquidations_history |-> Exchange("liquidation_bars")]

\* api/routers/_legacy/market_info.py
MarketInfoRouter ==
    [get_all_market_info |-> Exchange("market_info"),
     get_symbol_market_info |-> Exchange("market_info")]

\* api/routers/_legacy/liquidity.py
LiquidityRouter ==
    [get_liquidity_score |-> Exchange("latest_orderbook_snapshots"),
     get_slippage |-> Exchange("latest_orderbook_snapshots"),
     get_liquidity_alerts |-> Exchange("latest_orderbook_snapshots"),
     get_liquidity_ranking |-> Exchange("latest_orderbook_snapshots")]

\* api/routers/_legacy/microstructure.py
MicrostructureProfilesRouter ==
    [get_volatility_profile |-> Each(Exchange("klines")),
     get_volume_profile |-> Exchange("klines")]

MicrostructureSessionsRouter ==
    [get_spread_history |-> Exchange("orderbook_snapshots"),
     get_session_stats |-> Exchange("klines"),
     get_gap_analysis |-> Exchange("klines")]

MicrostructureHeatmapRouter ==
    [get_liquidity_heatmap |-> Exchange("klines")]

\* api/routers/_legacy/monitor.py
MonitorAlertsRouter ==
    [alerts |-> Each(Exchange("klines") ** Exchange("klines")
         ** Exchange("latest_funding_rates")),
     price_breakouts |-> Each(Exchange("klines")),
     funding_anomalies |-> Each(Exchange("latest_funding_rates"))]

MonitorSurgesRouter ==
    [liquidation_surges |-> Each(Exchange("klines")
         ** Maybe(Exchange("latest_open_interest_snapshots"))),
     volume_spikes |-> Each(Exchange("klines") ** Maybe(Exchange("klines"))),
     positioning_extremes |-> Each(Exchange("latest_funding_rates")
         ** Exchange("latest_open_interest_snapshots"))]

MonitorDivergenceRouter ==
    [oi_divergence |-> Each(Exchange("klines")
         ** Maybe(Exchange("latest_open_interest_snapshots")
         ** Exchange("latest_funding_rates")))]

\* api/routers/_legacy/orderflow.py
OrderflowTradesRouter ==
    [cvd_timeseries |-> Exchange("trade_flow_bars") ** Maybe(Exchange("klines")),
     aggression |-> Exchange("trade_flow_bars"),
     whale_trades |-> Exchange("trade_flow_bars")]

OrderflowDepthRouter ==
    [depth_heatmap |-> Exchange("orderbook_snapshots"),
     imbalance_history |-> Exchange("orderbook_snapshots")]

OrderflowImpactRouter ==
    [market_impact |-> Exchange("latest_orderbook_snapshots"),
     orderflow_summary |-> Exchange("latest_trade_flow_bars")
         ** Exchange("latest_orderbook_snapshots")]

\* api/routers/_legacy/derivatives.py
DerivativesHealthRouter ==
    [derivatives_health |-> Exchange("latest_funding_rates")
         ** Exchange("latest_open_interest_snapshots")
         ** Exchange("latest_positioning_snapshots") ** Exchange("latest_liquidation_bars"),
     leverage_map |-> Exchange("latest_open_interest_snapshots")
         ** Exchange("latest_positioning_snapshots") ** Exchange("latest_funding_rates")]

DerivativesCurvesRouter ==
    [funding_curve |-> Exchange("funding_rates"),
     oi_divergence |-> Exchange("open_interest_snapshots") ** Exchange("klines")]

DerivativesExtremesRouter ==
    [liquidation_levels |-> Exchange("liquidation_bars") ** Exchange("positioning_snapshots"),
     positioning_extremes |-> Exchange("latest_positioning_snapshots"),
     funding_prediction |-> Exchange("latest_funding_rates")]

DerivativesBasisRouter ==
    [basis_signal |-> Exchange("latest_funding_rates")]

\* api/routers/_legacy/strategy.py
StrategyScoresRouter ==
    [multi_factor_score |-> Exchange("klines") ** Exchange("klines")
         ** Exchange("latest_funding_rates"),
     entry_exit |-> Exchange("klines")]

StrategyScannersRouter ==
    [regime_strategy |-> Exchange("klines"),
     divergence_scanner |-> Each(Exchange("klines") ** Exchange("klines")
         ** Maybe(Exchange("latest_funding_rates"))),
     funding_arb |-> Each(Exchange("latest_funding_rates"))]

StrategyCandidatesRouter ==
    [squeeze_detector |-> Each(Exchange("klines") ** Maybe(Exchange("latest_funding_rates"))),
     mean_reversion_candidates |-> Each(Exchange("klines")),
     portfolio_signals |-> Each(Exchange("klines") ** Maybe(Exchange("latest_funding_rates")))]

\* api/routers/_legacy/screener.py
ScreenerRouter ==
    [top_movers |-> Exchange("latest_tickers"),
     volume_leaders |-> Exchange("latest_tickers"),
     funding_extremes |-> Exchange("latest_funding_rates"),
     risk_ranking |-> Analytics("merged_klines")]

ScreenerMomentumRouter ==
    [momentum_ranking |-> Analytics("technical_indicators"),
     anomalies |-> Exchange("latest_tickers") ** Exchange("latest_open_interest_snapshots")
         ** Exchange("latest_liquidation_bars")]

ScreenerOpportunitiesRouter ==
    [opportunities |-> Exchange("latest_tickers") ** Exchange("latest_funding_rates")
         ** Analytics("technical_indicators")]

\* api/routers/_legacy/overview.py
\* Fault: the tickers are fetched again for the last figures.
OverviewAskingTwice ==
    [sector_dashboard |-> Exchange("latest_tickers"),
     quick_stats |-> Exchange("latest_tickers") ** Exchange("latest_funding_rates")
         ** Exchange("latest_tickers")]

OverviewRouter ==
    [market_dashboard |-> Exchange("latest_tickers") ** Analytics("merged_klines"),
     derivatives_dashboard |-> Exchange("latest_funding_rates")
         ** Exchange("latest_open_interest_snapshots") ** Exchange("latest_basis_snapshots")
         ** Exchange("latest_liquidation_bars")]

OverviewSectorsRouter ==
    [sector_dashboard |-> Exchange("latest_tickers"),
     quick_stats |-> Exchange("latest_tickers") ** Exchange("latest_funding_rates")]

\* api/routers/_legacy/aggregate.py
AggregateProfilesRouter ==
    [asset_profile |-> Select(In("exchange", {"latest_tickers", "latest_funding_rates",
         "latest_open_interest_snapshots"})) ** Exchange("klines"),
     multi_asset_compare |-> Exchange("latest_tickers") ** Exchange("latest_funding_rates")]

AggregateSectorsRouter ==
    [sector_snapshot |-> Exchange("latest_tickers"),
     derivatives_heatmap |-> Exchange("latest_funding_rates")
         ** Exchange("latest_open_interest_snapshots"),
     market_regime |-> Exchange("klines") ** Exchange("latest_funding_rates")]

AggregateContextRouter ==
    [correlation_context |-> Exchange("klines"),
     watchlist |-> Exchange("latest_tickers") ** Exchange("latest_funding_rates")]

\* The routers of the group, by the name of their file.
ExchangeRouters ==
    [exchange |-> ExchangeFundingRouter @@ ExchangeLatestRouter @@ ExchangeBarsRouter
         @@ ExchangeHistoryRouter @@ ExchangeBarHistoryRouter,
     market_info |-> MarketInfoRouter,
     liquidity |-> LiquidityRouter,
     microstructure |-> MicrostructureProfilesRouter @@ MicrostructureSessionsRouter
         @@ MicrostructureHeatmapRouter,
     monitor |-> MonitorAlertsRouter @@ MonitorSurgesRouter @@ MonitorDivergenceRouter,
     orderflow |-> OrderflowTradesRouter @@ OrderflowDepthRouter @@ OrderflowImpactRouter,
     derivatives |-> DerivativesHealthRouter @@ DerivativesCurvesRouter
         @@ DerivativesExtremesRouter @@ DerivativesBasisRouter,
     strategy |-> StrategyScoresRouter @@ StrategyScannersRouter @@ StrategyCandidatesRouter,
     screener |-> ScreenerRouter @@ ScreenerMomentumRouter @@ ScreenerOpportunitiesRouter,
     overview |-> OverviewRouter @@ OverviewSectorsRouter,
     aggregate |-> AggregateProfilesRouter @@ AggregateSectorsRouter @@ AggregateContextRouter]
==============================================================================
