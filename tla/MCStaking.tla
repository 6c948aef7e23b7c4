------------------------------ MODULE MCStaking ------------------------------
(* Small staking instances. *)
EXTENDS Staking, TLC

\* The distribution account owns its deposit, stakers enough for one stake or
\* for two, and the slasher nothing but his deposit.
OneStake == [a \in Accounts |-> IF a \in Committers \cup Delegators THEN 9 ELSE 1]

TwoStakes == [a \in Accounts |-> IF a \in Committers \cup Delegators THEN 16 ELSE 1]

DelegatorSymmetry == Permutations(Delegators)

CommitterSymmetry == Permutations(Committers)
=============================================================================
