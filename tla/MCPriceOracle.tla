----------------------------- MODULE MCPriceOracle -----------------------------
(***************************************************************************)
(* Instances of PriceOracle for TLC.                                       *)
(***************************************************************************)
EXTENDS PriceOracle

CONSTANTS btc, eth, oracle

MCAmounts == {-1, 0, 1, 2, 3, 4, 5, 9}
===============================================================================
