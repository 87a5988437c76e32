---------------------------- MODULE MCStrategyLanes ----------------------------
(* One configured and one added strategy, two instruments, lanes of one.     *)
EXTENDS StrategyLanes

MCPluginOf == [s \in Configured |-> "plugin"]
=============================================================================
