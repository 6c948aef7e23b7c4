------------------------------ MODULE Currency ------------------------------
(***************************************************************************)
(* The native currency as the pallets use it (T::Currency, pallet-balances *)
(* through the fungible traits): every account has a free balance and a    *)
(* balance on hold.  External code, modelled from how the pallets call it: *)
(* every operation is a guard ("the call succeeds") and the ledger it      *)
(* returns, so that one transaction can chain several of them.             *)
(***************************************************************************)
EXTENDS Naturals

CONSTANTS Accounts,           \* account ids
          ExistentialDeposit  \* the balance an account may not fall below

ASSUME ExistentialDepositAssumption == ExistentialDeposit \in Nat

Ledgers == [free : [Accounts -> Nat], held : [Accounts -> Nat]]

\* Preservation::Preserve and Protect: the existential deposit stays behind.
CanWithdraw(l, a, n) == n = 0 \/ l.free[a] >= n + ExistentialDeposit

\* reducible_balance under the same preservations.
Reducible(l, a) == IF l.free[a] > ExistentialDeposit THEN l.free[a] - ExistentialDeposit ELSE 0

\* A deposit may not leave the receiver below the existential deposit.
CanDeposit(l, a, n) == n = 0 \/ l.free[a] + n >= ExistentialDeposit

Withdraw(l, a, n) == [l EXCEPT !.free[a] = @ - n]

Deposit(l, a, n) == [l EXCEPT !.free[a] = @ + n]

CanTransfer(l, from, to, n) == CanWithdraw(l, from, n) /\ CanDeposit(l, to, n)

Transfer(l, from, to, n) == Deposit(Withdraw(l, from, n), to, n)

CanHold(l, a, n) == CanWithdraw(l, a, n)

Hold(l, a, n) == [Withdraw(l, a, n) EXCEPT !.held[a] = @ + n]

CanRelease(l, a, n) == l.held[a] >= n

Release(l, a, n) == [Deposit(l, a, n) EXCEPT !.held[a] = @ - n]

\* Precision::BestEffort releases what is there.
ReleaseBestEffort(l, a, n) ==
    Release(l, a, IF l.held[a] < n THEN l.held[a] ELSE n)

CanTransferOnHold(l, from, to, n) == CanRelease(l, from, n) /\ CanDeposit(l, to, n)

TransferOnHold(l, from, to, n) == Deposit([l EXCEPT !.held[from] = @ - n], to, n)
=============================================================================
