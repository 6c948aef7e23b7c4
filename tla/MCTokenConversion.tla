-------------------------- MODULE MCTokenConversion --------------------------
(* An account that converts little more than the minimum and a sponsor who   *)
(* pays for its messages.  The pallet starts with its deposits and no funds. *)
EXTENDS TokenConversion

CONSTANTS alice, sponsor

MCSource == [a \in Accounts |-> CASE a = alice -> 5 [] a = sponsor -> 3 [] OTHER -> 1]

MCDestination == [a \in Accounts |-> IF a = PalletAccount THEN 1 ELSE 0]
=============================================================================
