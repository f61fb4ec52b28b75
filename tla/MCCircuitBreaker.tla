--------------------------- MODULE MCCircuitBreaker ---------------------------
(* The breaker of one exchange, shared by three pool threads. *)
EXTENDS CircuitBreaker

ThreeCallers == {"tickers", "orderbooks", "klines"}
=============================================================================
