-------------------------------- MODULE Sums ---------------------------------
(***************************************************************************)
(* The sum of a function over a finite set.  The properties that compare a *)
(* balance with what it stands for are stated with it; what proofs need to *)
(* know about it is in Balances_proofs.                                    *)
(***************************************************************************)
EXTENDS FiniteSetsExt

SumOver(f, S) == MapThenSumSet(LAMBDA x : f[x], S)
=============================================================================
