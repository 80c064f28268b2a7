--------------------------------- MODULE MCSplit ---------------------------------
(***************************************************************************)
(* Instances of Split for TLC.                                             *)
(***************************************************************************)
EXTENDS Split

CONSTANTS flon, usdt
===============================================================================
