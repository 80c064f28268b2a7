------------------------------ MODULE MCProxyswap ------------------------------
(***************************************************************************)
(* Instances of Proxyswap for TLC: FLON is token 1, USDT is issued by two  *)
(* contracts, tokens 2 and 3.                                              *)
(***************************************************************************)
EXTENDS Proxyswap

CONSTANTS swap, alice, nobody

MCSymbolOf == <<"FLON", "USDT", "USDT">>

One(s) == [symbol |-> s, amount |-> 1]

\* The pair, the same with the other USDT, the sides exchanged, and both sides of
\* one symbol, with a minimum in the wrong symbol.
MCPairInputs ==
  {[left |-> 1, right |-> 2, mini_left |-> One("FLON"), mini_right |-> One("USDT")],
   [left |-> 1, right |-> 3, mini_left |-> One("FLON"), mini_right |-> One("USDT")],
   [left |-> 2, right |-> 1, mini_left |-> One("USDT"), mini_right |-> One("FLON")],
   [left |-> 2, right |-> 3, mini_left |-> One("FLON"), mini_right |-> One("USDT")]}
===============================================================================
