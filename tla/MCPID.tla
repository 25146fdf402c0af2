------------------------------- MODULE MCPID -------------------------------
(* Small values for PID: one limit pair of each kind the owner sets (0..hi  *)
(* and -lo..hi) and an inverted one, and an output memory of every kind.    *)
EXTENDS PID

MCTunings == {-1, 0, 1}
MCInputs == 0 .. 2
MCSetpoints == {0, 1}
MCLimits == {<<0, 2>>, <<-2, 2>>, <<2, 0>>}
MCGarbage == {NaN, 0, 5, -5}
=============================================================================
