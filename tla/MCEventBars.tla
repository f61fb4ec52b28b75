----------------------------- MODULE MCEventBars -----------------------------
(* Two keys and two or three bars of two instants. *)
EXTENDS EventBars

AllKinds == {"stream", "lookback", "newest"}
OnlyLookback == {"lookback"}
==============================================================================
