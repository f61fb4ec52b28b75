------------------------------- MODULE MCStore -------------------------------
EXTENDS StoreSessions, MCPrograms

\* exchange_data has no second service: its own jobs compete for its file; the
\* other jobs, and the small services, compete for market_data.db; the modules of
\* logic_layer, in the pipeline's threads or run beside it, for analytics.db.
MCDeployments ==
    {{j, "ticker"} : j \in DOMAIN ScheduledJobs}
    \cup {{j, "liquidation_stream"} : j \in DOMAIN Commands \cup {"ticker"}}
    \cup {{j, "regulatory_data"} : j \in DOMAIN Collectors \cup DOMAIN SmallServices}
    \cup {{j, "depth_regime"} : j \in DOMAIN Analytics}
    \cup {{"funding", "basis"}, {"funding", "funding_backfill"},
          {"funding", "exchange_cleanup"}, {"alternative_github", "alternative_bootstrap"}}

\* Two jobs of the exchange scheduler.
StuckJobs == {"ticker", "open_interest"}

StuckProgram == [j \in StuckJobs |-> ScheduledJobs[j]]

StuckPool == [j \in StuckJobs |-> MCPool[j]]

NoHistories == [t \in {} |-> t]
==============================================================================
