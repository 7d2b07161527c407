------------------------------ MODULE MCTradeHud ------------------------------
(***************************************************************************)
(* One stream, two entries in all, Redis failing and recovering at will.   *)
(***************************************************************************)
EXTENDS TradeHud
===============================================================================
