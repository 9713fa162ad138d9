----------------------------- MODULE MCMarketData -----------------------------
(* Small instances of MarketData.                                             *)
EXTENDS MarketData
=============================================================================
