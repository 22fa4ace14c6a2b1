--------------------------- MODULE MCTraderRuntime ---------------------------
(* Instances of TraderRuntime for TLC: the trading loop alone or with the  *)
(* command worker, two days of one tick each.                              *)
EXTENDS TraderRuntime

Operators == {"start", "stop", "pause", "resume"}

=============================================================================
