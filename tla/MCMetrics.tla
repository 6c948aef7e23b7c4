------------------------------ MODULE MCMetrics ------------------------------
(* Two processors that change between two managers, two pools of genesis and a third. *)
EXTENDS Metrics, TLC

CONSTANTS n1, n2

MCGenesis == <<<<n1, 8>>, <<n2, 2>>>>

\* Nothing new, a metric for each pool of genesis, or one for a pool to come.
MCInputs == {<<>>, (1 :> 2) @@ (2 :> 1), 3 :> 1}

MCBalances == [a \in Accounts |-> 1]

MetricsSymmetry == Permutations(Processors) \cup Permutations(Managers)
=============================================================================
