---------------------------- MODULE MCMarketData ----------------------------
(* Instance of MarketData for TLC: two tickers *)
EXTENDS MarketData

CONSTANTS a, b
==============================================================================
