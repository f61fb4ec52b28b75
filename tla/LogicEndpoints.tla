--------------------------- MODULE LogicEndpoints ----------------------------
(***************************************************************************)
(* The routers of the modules of logic_layer, each on tables one module    *)
(* creates in analytics.db.                                                *)
(***************************************************************************)
EXTENDS ContextBundles, Schemas, TLC

\* api/routers/_legacy/alpha_decay.py
AlphaDecayRouter ==
    [get_signal_decay |-> Analytics("signal_decay"),
     get_crowding_index |-> Analytics("crowding_index"),
     get_signal_half_life |-> Analytics("signal_decay"),
     get_signal_ranking |-> Analytics("signal_decay"),
     get_signal_divergence |-> Analytics("signal_divergence"),
     get_crowding_history |-> Analytics("crowding_index"),
     get_alpha_decay_context |-> AlphaDecayBundle]

\* api/routers/_legacy/contagion_risk.py
ContagionRiskRouter ==
    [get_contagion_metrics |-> Analytics("contagion_metrics"),
     get_cascade_risk |-> Analytics("cascade_risk"),
     get_systemic_score |-> Analytics("systemic_risk_score"),
     get_covar |-> Analytics("contagion_metrics"),
     get_tail_beta |-> Analytics("contagion_metrics"),
     get_stablecoin_health |-> Analytics("stablecoin_health"),
     get_contagion_context |-> ContagionRiskBundle]

\* api/routers/_legacy/cross_venue_arb.py
CrossVenueArbRouter ==
    [get_arb_opportunities |-> Analytics("arb_opportunities"),
     get_venue_spreads |-> Analytics("venue_spreads"),
     get_arb_persistence |-> Analytics("arb_persistence"),
     get_market_efficiency |-> Analytics("venue_spreads"),
     get_venue_ranking |-> Analytics("arb_opportunities"),
     get_cross_type_analysis |-> Analytics("arb_opportunities"),
     get_arb_historical |-> Analytics("arb_opportunities"),
     get_cross_venue_arb_context |-> CrossVenueArbitrageBundle]

\* api/routers/_legacy/defi_stress.py
DefiStressRouter ==
    [get_defi_stress_state |-> Analytics("defi_stress_states"),
     get_defi_stress_history |-> Analytics("defi_stress_states"),
     get_cascade_probability |-> Analytics("defi_stress_states"),
     get_protocol_risk_ranking |-> Analytics("defi_stress_states"),
     get_defi_stress_context |-> DefiStressBundle]

\* api/routers/_legacy/depth_regime.py
DepthRegimeRouter ==
    [get_depth_regime_state |-> Analytics("depth_regime_states"),
     get_depth_regime_history |-> Analytics("depth_regime_states"),
     get_slippage_estimates |-> Analytics("depth_regime_states"),
     get_wall_strength |-> Analytics("depth_regime_states"),
     get_depth_regime_context |-> DepthRegimeBundle]

\* api/routers/_legacy/event_probability.py
EventProbabilityRouter ==
    [get_tracked_events |-> Analytics("event_probability_states"),
     get_probability_jumps |-> Analytics("event_probability_states"),
     get_events_by_asset |-> Analytics("event_probability_states"),
     get_event_history |-> Analytics("event_probability_states"),
     get_event_probability_context |-> Create(ServiceTables.event_probability)
         ** EventProbabilityBundle]

\* api/routers/_legacy/flow_decomposition.py
FlowDecompositionRouter ==
    [get_vpin |-> Analytics("vpin_history"),
     get_flow_decomposition |-> Analytics("flow_decomposition"),
     get_smart_money |-> Analytics("smart_money_flow"),
     get_accumulation_phase |-> Analytics("accumulation_distribution"),
     get_vpin_alerts |-> Analytics("vpin_history"),
     get_vpin_ranking |-> Analytics("vpin_history"),
     get_flow_decomposition_context |-> FlowDecompositionBundle]

\* api/routers/_legacy/holder_behavior.py
HolderBehaviorRouter ==
    [get_current_state |-> Analytics("holder_behavior_states"),
     get_state_history |-> Analytics("holder_behavior_states"),
     get_market_phase |-> Analytics("holder_behavior_states"),
     get_behavior_signals |-> Analytics("holder_behavior_states"),
     get_holder_behavior_context |-> HolderBehaviorAnalysisBundle]

\* api/routers/_legacy/liquidation_cascade.py
LiquidationCascadeRouter ==
    [get_liquidation_clusters |-> Analytics("liquidation_clusters"),
     get_cascade_risk |-> Analytics("cascade_risk"),
     get_liquidation_heatmap |-> Analytics("liquidation_heatmap"),
     get_critical_levels |-> Analytics("cascade_risk"),
     get_leverage_distribution |-> Analytics("liquidation_clusters"),
     get_proximity_alerts |-> Analytics("liquidation_clusters"),
     get_estimated_cascade |-> Analytics("cascade_risk"),
     get_liquidation_cascade_context |-> LiquidationCascadeBundle]

\* api/routers/_legacy/liquidity_regime.py
LiquidityRegimeRouter ==
    [get_current_state |-> Analytics("liquidity_regime_states"),
     get_state_history |-> Analytics("liquidity_regime_states"),
     get_liquidity_score |-> Analytics("liquidity_regime_states"),
     get_defi_cefi_spread |-> Analytics("liquidity_regime_states"),
     get_liquidity_regime_context |-> Create(ServiceTables.liquidity_regime)
         ** LiquidityRegimeBundle]

\* api/routers/_legacy/miner_pressure.py
MinerPressureRouter ==
    [get_current_state |-> Analytics("miner_pressure_states"),
     get_state_history |-> Analytics("miner_pressure_states"),
     get_capitulation_index |-> Analytics("miner_pressure_states"),
     get_halving_phase |-> Analytics("miner_pressure_states"),
     get_miner_pressure_context |-> MinerPressureBundle]

\* api/routers/_legacy/narrative_regime.py
NarrativeRegimeRouter ==
    [get_active_narratives |-> Analytics("market_narratives"),
     get_narrative_transitions |-> Analytics("narrative_transitions"),
     get_by_phase |-> Analytics("market_narratives"),
     get_attention_ranking |-> Analytics("market_narratives"),
     get_narrative_tokens |-> Analytics("narrative_tokens"),
     get_emerging_narratives |-> Analytics("market_narratives"),
     get_narrative_context |-> NarrativeRegimeBundle]

\* api/routers/_legacy/onchain_lead_lag.py
OnchainLeadLagRouter ==
    [get_lead_lag_signals |-> Analytics("lead_lag_signals"),
     get_price_relations |-> Analytics("onchain_price_relations"),
     get_signal_alerts |-> Analytics("signal_alerts"),
     get_predictive_ranking |-> Analytics("onchain_price_relations"),
     get_optimal_lag |-> Analytics("lead_lag_signals"),
     get_granger_results |-> Analytics("onchain_price_relations"),
     get_signal_history |-> Analytics("signal_alerts"),
     get_cross_signal_confluence |-> Analytics("signal_alerts"),
     get_onchain_lead_lag_context |-> OnchainLeadLagBundle]

\* api/routers/_legacy/retail_fomo.py
RetailFomoRouter ==
    [get_retail_fomo_state |-> Analytics("retail_fomo_states"),
     get_retail_fomo_history |-> Analytics("retail_fomo_states"),
     get_contrarian_signal |-> Analytics("retail_fomo_states"),
     get_fomo_components |-> Analytics("retail_fomo_states"),
     get_retail_fomo_context |-> RetailFomoIndexBundle]

\* api/routers/_legacy/sentiment_composite.py
SentimentCompositeRouter ==
    [get_current_state |-> Analytics("composite_sentiment_states"),
     get_state_history |-> Analytics("composite_sentiment_states"),
     get_composite_score |-> Analytics("composite_sentiment_states"),
     get_divergence_signals |-> Analytics("composite_sentiment_states"),
     get_sentiment_composite_context |-> Create(ServiceTables.market_sentiment_composite)
         ** MarketSentimentCompositeBundle]

\* api/routers/_legacy/smart_money_conviction.py
SmartMoneyConvictionRouter ==
    [get_conviction_state |-> Analytics("smart_money_conviction_states"),
     get_conviction_history |-> Analytics("smart_money_conviction_states"),
     get_retail_divergence |-> Analytics("smart_money_conviction_states"),
     get_direction_signal |-> Analytics("smart_money_conviction_states"),
     get_smart_money_conviction_context |-> SmartMoneyConvictionBundle]

\* api/routers/_legacy/stablecoin_pulse.py
StablecoinPulseRouter ==
    [get_current_pulse_state |-> Analytics("stablecoin_pulse_states"),
     get_pulse_history |-> Analytics("stablecoin_pulse_states"),
     get_expansion_signal |-> Analytics("stablecoin_pulse_states"),
     get_btc_correlation |-> Analytics("stablecoin_pulse_states"),
     get_stablecoin_pulse_context |-> StablecoinPulseBundle]

\* api/routers/_legacy/temporal_pattern.py
TemporalPatternRouter ==
    [get_temporal_patterns |-> Analytics("temporal_patterns"),
     get_seasonal_profile |-> Analytics("seasonal_profiles"),
     get_hourly_pattern |-> Analytics("seasonal_profiles"),
     get_day_of_week_pattern |-> Analytics("seasonal_profiles"),
     get_halving_cycle |-> Analytics("halving_cycle_phase"),
     get_funding_cycle |-> Analytics("funding_cycle_patterns"),
     get_temporal_context |-> TemporalPatternBundle]

\* api/routers/_legacy/unlock_impact.py
UnlockImpactRouter ==
    [get_unlock_impact_state |-> Analytics("unlock_impact_states"),
     get_unlock_impact_history |-> Analytics("unlock_impact_states"),
     get_high_impact_tokens |-> Analytics("unlock_impact_states"),
     get_impact_by_token |-> Analytics("unlock_impact_states"),
     get_unlock_impact_context |-> UnlockImpactBundle]

\* The routers of the group, by the name of their file.
LogicRouters ==
    [alpha_decay |-> AlphaDecayRouter,
     contagion_risk |-> ContagionRiskRouter,
     cross_venue_arb |-> CrossVenueArbRouter,
     defi_stress |-> DefiStressRouter,
     depth_regime |-> DepthRegimeRouter,
     event_probability |-> EventProbabilityRouter,
     flow_decomposition |-> FlowDecompositionRouter,
     holder_behavior |-> HolderBehaviorRouter,
     liquidation_cascade |-> LiquidationCascadeRouter,
     liquidity_regime |-> LiquidityRegimeRouter,
     miner_pressure |-> MinerPressureRouter,
     narrative_regime |-> NarrativeRegimeRouter,
     onchain_lead_lag |-> OnchainLeadLagRouter,
     retail_fomo |-> RetailFomoRouter,
     sentiment_composite |-> SentimentCompositeRouter,
     smart_money_conviction |-> SmartMoneyConvictionRouter,
     stablecoin_pulse |-> StablecoinPulseRouter,
     temporal_pattern |-> TemporalPatternRouter,
     unlock_impact |-> UnlockImpactRouter]
==============================================================================
