------------------------- MODULE MCProcessorManager -------------------------
(* A device without money and one with some, whose chains share a            *)
(* certificate that may be revoked; a manager without an account on the      *)
(* chain, whom onboarding creates.  The second device is a manager as well,  *)
(* of the first one or of itself.  The higher fee is more than an onboarding *)
(* is funded with.                                                           *)
EXTENDS ProcessorManager

CONSTANTS p1, p2, m1, funds, root, batch1, batch2

Chain(key, serials, from, to, usage, accepted) ==
    [key |-> key, serials |-> serials, not_before |-> from, not_after |-> to,
     usage_expires |-> usage, accepted |-> accepted]

MCChains ==
    {Chain(p1, {root, batch1}, 0, 2, None, TRUE),
     Chain(p2, {root, batch1}, 0, 2, 1, TRUE),
     Chain(p2, {root, batch2}, 0, 2, None, FALSE)}

MCBalances == [a \in Accounts |->
    CASE a = funds -> 4 [] a = p2 -> 3 [] OTHER -> 0]

MCSettings == {[funds |-> 2, max_funds |-> 3]}
=============================================================================
