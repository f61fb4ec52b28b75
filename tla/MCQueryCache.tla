----------------------------- MODULE MCQueryCache -----------------------------
(***************************************************************************)
(* Two tables cached under two prefixes, the second registered below the   *)
(* first and never written, and one of them in the group "exchange".       *)
(***************************************************************************)
EXTENDS QueryCache, TLC

CONSTANTS tickers, klines, none, c1, c2

TwoKeys == {tickers, klines}
Writes == (tickers :> 2) @@ (klines :> 1)
CallerSymmetry == Permutations({c1, c2})

OneGroup == {"exchange"}
GroupOfKey == (tickers :> "exchange") @@ (klines :> none)
TwoPrefixes == {"latest_tickers:", "klines:"}
KeysOfPrefix == ("latest_tickers:" :> {tickers}) @@ ("klines:" :> {klines})
BelowPrefix == ("latest_tickers:" :> {"klines:"}) @@ ("klines:" :> {})
==============================================================================
