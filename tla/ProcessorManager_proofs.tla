----------------------- MODULE ProcessorManager_proofs -----------------------
(***************************************************************************)
(* Proofs about ProcessorManager, and about the attestations it stores,    *)
(* for all processors, managers, chains, fees and settings.                *)
(***************************************************************************)
EXTENDS ProcessorManager, Balances_proofs

(***************************************************************************)
(* Attestations: a stored chain is one of the account that stores it.      *)
(***************************************************************************)
AttestInv ==
    /\ now \in Nat
    /\ stored \in [Processors -> Chains \cup {None}]
    /\ \A a \in Processors : stored[a] # None => stored[a].key = a

(***************************************************************************)
(* Pairings: ids are given out in increasing order and to one manager      *)
(* each, and every id a processor is paired with has an owner.             *)
(***************************************************************************)
IdsUnique ==
    /\ managerId \in [Managers -> Nat \cup {None}]
    /\ lastManagerId \in Nat
    /\ \A m \in Managers : managerId[m] # None => managerId[m] <= lastManagerId
    /\ \A m, n \in Managers : managerId[m] # None /\ m # n => managerId[m] # managerId[n]

Paired == {p \in Processors : managerOf[p] # None}

PairInv ==
    /\ IdsUnique
    /\ managerOf \in [Processors -> Nat \cup {None}]
    /\ \A p \in Paired : \E m \in Managers : managerId[m] = managerOf[p]
    /\ managedProcessors = {<<managerOf[p], p>> : p \in Paired}

(***************************************************************************)
(* Consents: the counter of a manager is the largest one it has used.      *)
(***************************************************************************)
ConsentInv ==
    /\ counter \in [Managers -> Nat]
    /\ used \subseteq Managers \X Nat
    /\ IsFiniteSet(used)
    /\ \A m \in Managers, c \in Nat : <<m, c>> \in used => c <= counter[m]
    /\ consented = Cardinality(used)

(***************************************************************************)
(* Money: a manager for whom money is on hold is alive.                    *)
(***************************************************************************)
Alive(l) == \A m \in Managers : l.held[m] = 0 \/ l.free[m] >= ExistentialDeposit

MoneyInv ==
    /\ ledger \in Ledgers
    /\ Alive(ledger)
    /\ settings \in SettingsChoices \cup {None}

ManagerInv == AttestInv /\ PairInv /\ ConsentInv /\ MoneyInv

-----------------------------------------------------------------------------
\* A consent is not None.
LEMMA ConsentIsSome == ASSUME NEW c \in Consents PROVE c # None
BY ConsentAssumption, AttestationAssumption, ManagerAssumption DEF Consents

\* owner_for finds the manager of a paired processor.
LEMMA OwnerFor ==
    ASSUME PairInv, NEW p \in Processors, managerOf[p] # None
    PROVE  owner_for(managerOf[p]) \in Managers /\ managerId[owner_for(managerOf[p])] = managerOf[p]
<1>1. \E m \in Managers : managerId[m] = managerOf[p]
  BY DEF PairInv, Paired
<1> QED BY <1>1 DEF owner_for

\* Whoever pays a fee is a processor or a manager.
LEMMA PayerType ==
    ASSUME PairInv, NEW who \in Signers, NEW call, call.pairing # None => call.pairing.account \in Managers
    PROVE  fee_payer(who, call) \in Signers
<1>1. CASE lookup_manager_id(who) # None
  <2>1. who \in Processors /\ managerOf[who] # None /\ lookup_manager_id(who) = managerOf[who]
    BY <1>1 DEF lookup_manager_id
  <2> QED BY <1>1, <2>1, OwnerFor DEF fee_payer, Signers
<1>2. CASE lookup_manager_id(who) = None
  BY <1>2 DEF fee_payer, Signers
<1> QED BY <1>1, <1>2

\* do_add_processor_manager_pairing keeps the indexes in step, also when it
\* creates the id of the manager.
LEMMA AddPairingKeeps ==
    ASSUME PairInv, NEW p \in Processors, NEW m \in Managers, AddPairing(p, m)
    PROVE  PairInv' /\ managerOf'[p] = managerId'[m]
<1> DEFINE id == NewManagerId(m)
<1>1. /\ managerOf[p] = None
      /\ managerId' = [managerId EXCEPT ![m] = id]
      /\ lastManagerId' = IF managerId[m] # None THEN lastManagerId ELSE lastManagerId + 1
      /\ managedProcessors' = managedProcessors \cup {<<id, p>>}
      /\ managerOf' = [managerOf EXCEPT ![p] = id]
  BY DEF AddPairing, CreateManagerId
<1>2. /\ managerId \in [Managers -> Nat \cup {None}] /\ lastManagerId \in Nat
      /\ managerOf \in [Processors -> Nat \cup {None}]
  BY DEF PairInv, IdsUnique
<1>3. /\ id \in Nat /\ id # None /\ id <= lastManagerId' /\ lastManagerId <= lastManagerId'
      /\ lastManagerId' \in Nat
  BY <1>1, <1>2, AttestationAssumption DEF NewManagerId, PairInv, IdsUnique
<1>4. \A n \in Managers : n # m => managerId[n] # id
  <2> SUFFICES ASSUME NEW n \in Managers, n # m PROVE managerId[n] # id
    OBVIOUS
  <2>1. CASE managerId[m] # None
    BY <2>1 DEF NewManagerId, PairInv, IdsUnique
  <2>2. CASE managerId[m] = None /\ managerId[n] # None
    <3>1. managerId[n] \in Nat /\ managerId[n] <= lastManagerId
      BY <1>2, <2>2 DEF PairInv, IdsUnique
    <3> QED BY <1>2, <2>2, <3>1 DEF NewManagerId
  <2>3. CASE managerId[m] = None /\ managerId[n] = None
    BY <1>3, <2>3
  <2> QED BY <2>1, <2>2, <2>3
<1>5. managerId[m] # None => id = managerId[m]
  BY DEF NewManagerId
<1> HIDE DEF id
<1>6. IdsUnique'
  <2>1. managerId' \in [Managers -> Nat \cup {None}]
    BY <1>1, <1>2, <1>3
  <2>2. \A n \in Managers : managerId'[n] # None => managerId'[n] <= lastManagerId'
    BY <1>1, <1>2, <1>3 DEF PairInv, IdsUnique
  <2>3. \A n, k \in Managers : managerId'[n] # None /\ n # k => managerId'[n] # managerId'[k]
    BY <1>1, <1>2, <1>3, <1>4 DEF PairInv, IdsUnique
  <2> QED BY <1>3, <2>1, <2>2, <2>3 DEF IdsUnique
<1>7. managerOf' \in [Processors -> Nat \cup {None}] /\ managerOf'[p] = id /\ managerId'[m] = id
  BY <1>1, <1>2, <1>3
<1>8. Paired' = Paired \cup {p} /\ \A q \in Paired : managerOf'[q] = managerOf[q]
  BY <1>1, <1>2, <1>3 DEF Paired
<1>9. \A q \in Paired' : \E n \in Managers : managerId'[n] = managerOf'[q]
  <2> SUFFICES ASSUME NEW q \in Paired, q # p
               PROVE  \E n \in Managers : managerId'[n] = managerOf'[q]
    BY <1>7, <1>8
  <2>1. PICK n \in Managers : managerId[n] = managerOf[q]
    BY DEF PairInv
  <2>2. managerId[n] # None
    BY <2>1 DEF Paired
  <2>3. managerId'[n] = managerId[n]
    BY <1>1, <1>2, <1>5, <2>2
  <2> QED BY <1>8, <2>1, <2>3
<1>10. managedProcessors' = {<<managerOf'[q], q>> : q \in Paired'}
  BY <1>1, <1>7, <1>8 DEF PairInv
<1> QED BY <1>6, <1>7, <1>9, <1>10 DEF PairInv

\* So does do_remove_processor_manager_pairing, by the manager.
LEMMA RemovePairingKeeps ==
    ASSUME PairInv, NEW p \in Processors, NEW m \in Managers,
           ensure_managed(m, p), RemovePairing(m, p), UNCHANGED <<managerId, lastManagerId>>
    PROVE  PairInv'
<1>1. managerOf[p] # None /\ managerId[m] = managerOf[p]
  BY OwnerFor DEF ensure_managed
<1>2. /\ managerOf' = [managerOf EXCEPT ![p] = None]
      /\ managedProcessors' = managedProcessors \ {<<managerOf[p], p>>}
  BY <1>1 DEF RemovePairing
<1>3. managerOf \in [Processors -> Nat \cup {None}]
  BY DEF PairInv
<1>4. Paired' = Paired \ {p} /\ \A q \in Paired' : managerOf'[q] = managerOf[q]
  BY <1>2, <1>3 DEF Paired
<1>5. managedProcessors' = {<<managerOf'[q], q>> : q \in Paired'}
  BY <1>2, <1>4 DEF PairInv
<1>6. \A q \in Paired' : \E n \in Managers : managerId'[n] = managerOf'[q]
  BY <1>4 DEF PairInv
<1>7. managerOf' \in [Processors -> Nat \cup {None}]
  BY <1>2, <1>3
<1> QED BY <1>5, <1>6, <1>7 DEF PairInv, IdsUnique

\* A consent with the next counter has not been used.
LEMMA UseConsentKeeps ==
    ASSUME ConsentInv, NEW c \in Consents, c.counter \in {None, counter[c.account] + 1},
           UseConsent(c)
    PROVE  ConsentInv'
<1>1. CASE c.counter = None
  BY <1>1 DEF UseConsent, ConsentInv
<1>2. CASE c.counter # None
  <2> DEFINE m == c.account
             n == c.counter
  <2>1. m \in Managers /\ n \in Nat /\ n = counter[m] + 1
    BY <1>2 DEF Consents, ConsentInv
  <2>2. /\ counter' = [counter EXCEPT ![m] = n]
        /\ used' = used \cup {<<m, n>>}
        /\ consented' = consented + 1
    BY <1>2 DEF UseConsent
  <2> HIDE DEF m, n
  <2>3. <<m, n>> \notin used
    BY <2>1 DEF ConsentInv
  <2>4. IsFiniteSet(used') /\ consented' = Cardinality(used')
    BY <2>2, <2>3, FS_AddElement DEF ConsentInv
  <2>5. \A k \in Managers, i \in Nat : <<k, i>> \in used' => i <= counter'[k]
    BY <2>1, <2>2 DEF ConsentInv
  <2> QED BY <2>1, <2>2, <2>4, <2>5 DEF ConsentInv
<1> QED BY <1>1, <1>2

-----------------------------------------------------------------------------
(***************************************************************************)
(* Money.                                                                  *)
(***************************************************************************)
\* The smaller of two numbers.
LEMMA MinOfTwo ==
    ASSUME NEW a \in Int, NEW b \in Int
    PROVE  Min({a, b}) = IF a <= b THEN a ELSE b
<1> DEFINE c == IF a <= b THEN a ELSE b
<1>1. c \in {a, b} /\ \A y \in {a, b} : c <= y
  OBVIOUS
<1>2. Min({a, b}) \in {a, b} /\ \A y \in {a, b} : Min({a, b}) <= y
  BY <1>1 DEF Min
<1> QED BY <1>1, <1>2

\* What is granted for an onboarding, and where it goes: the manager is alive
\* afterwards, and all it has on hold is within the maximum.
LEMMA FundMoves ==
    ASSUME MoneyInv, NEW p, NEW m \in Managers, can_fund_processor_onboarding(p, m),
           CanTransfer(ledger, FundsAccount, m, OnboardingFunds(m))
    PROVE  /\ fund(ledger, m) \in Ledgers
           /\ Alive(fund(ledger, m))
           /\ fund(ledger, m).free[m] >= ExistentialDeposit
           /\ fund(ledger, m).held[m] <= settings.max_funds
           /\ fund(ledger, m).free[m] + fund(ledger, m).held[m] =
                 ledger.free[m] + ledger.held[m] + OnboardingFunds(m)
           /\ ledger.free[m] >= ExistentialDeposit =>
                 fund(ledger, m).held[m] = ledger.held[m] + OnboardingFunds(m)
           /\ fund(ledger, m).held[m] = ledger.held[m] + OnboardingFunds(m)
                 \/ fund(ledger, m).free[m] = ExistentialDeposit
<1> DEFINE n == OnboardingFunds(m)
           t == Transfer(ledger, FundsAccount, m, n)
           h == Min({n, Reducible(t, m)})
           f == Hold(t, m, h)
<1>1. /\ settings.funds \in Nat \ {0} /\ settings.max_funds \in Nat
      /\ ledger.held[m] \in Nat /\ ledger.free[m] \in Nat /\ ledger.held[m] < settings.max_funds
      /\ ledger.free[FundsAccount] \in Nat /\ m \in Accounts /\ FundsAccount \in Accounts
      /\ m # FundsAccount /\ ExistentialDeposit \in Nat
  BY ManagerAssumption, ExistentialDepositAssumption
     DEF can_fund_processor_onboarding, MoneyInv, Ledgers
<1>2. n \in Nat \ {0} /\ n <= settings.max_funds - ledger.held[m]
  <2>1. n = IF settings.funds <= settings.max_funds - ledger.held[m]
            THEN settings.funds ELSE settings.max_funds - ledger.held[m]
    BY <1>1, MinOfTwo DEF OnboardingFunds
  <2> HIDE DEF n
  <2> QED BY <1>1, <2>1
<1>3. ledger.free[FundsAccount] >= n /\ ledger.free[m] + n >= ExistentialDeposit
  BY <1>1, <1>2 DEF CanTransfer, CanWithdraw, CanDeposit
<1> HIDE DEF n
<1>4. /\ t \in Ledgers /\ t.held = ledger.held
      /\ t.free[m] = ledger.free[m] + n
      /\ \A c \in Accounts : c # FundsAccount /\ c # m => t.free[c] = ledger.free[c]
  BY <1>1, <1>2, <1>3, TransferMoves DEF MoneyInv, Ledgers
<1> HIDE DEF t
<1>5. /\ h \in Nat /\ h <= n /\ h <= t.free[m] /\ t.free[m] - h >= ExistentialDeposit
      /\ h = n \/ t.free[m] - h = ExistentialDeposit
      /\ ledger.free[m] >= ExistentialDeposit => h = n
  <2>1. Reducible(t, m) = t.free[m] - ExistentialDeposit /\ Reducible(t, m) \in Nat
    BY <1>1, <1>2, <1>3, <1>4 DEF Reducible
  <2>2. h = IF n <= Reducible(t, m) THEN n ELSE Reducible(t, m)
    BY <1>2, <2>1, MinOfTwo
  <2> HIDE DEF h
  <2> QED BY <1>1, <1>2, <1>3, <1>4, <2>1, <2>2
<1> HIDE DEF h
<1>6. /\ f \in Ledgers
      /\ \A c \in Accounts : /\ f.free[c] = t.free[c] - (IF c = m THEN h ELSE 0)
                             /\ f.held[c] = t.held[c] + (IF c = m THEN h ELSE 0)
  BY <1>1, <1>4, <1>5, HoldMoves
<1>7. fund(ledger, m) = f
  BY DEF fund, HoldReceived, f, h, t, n
<1> HIDE DEF f
<1>8. f.free[m] = ledger.free[m] + n - h /\ f.held[m] = ledger.held[m] + h
  BY <1>1, <1>2, <1>4, <1>5, <1>6
<1>9. Alive(f)
  <2> SUFFICES ASSUME NEW k \in Managers, k # m
               PROVE  f.held[k] = 0 \/ f.free[k] >= ExistentialDeposit
    BY <1>1, <1>2, <1>4, <1>5, <1>8 DEF Alive
  <2>1. k \in Accounts /\ k # FundsAccount
    BY ManagerAssumption
  <2>2. /\ ledger.free[k] \in Nat /\ ledger.held[k] \in Nat
        /\ ledger.held[k] = 0 \/ ledger.free[k] >= ExistentialDeposit
    BY <2>1 DEF MoneyInv, Ledgers, Alive
  <2>3. f.free[k] = ledger.free[k] /\ f.held[k] = ledger.held[k]
    BY <1>4, <1>6, <2>1, <2>2
  <2> QED BY <2>2, <2>3
<1>10. n = OnboardingFunds(m)
  BY DEF n
<1> QED BY <1>1, <1>2, <1>4, <1>5, <1>6, <1>7, <1>8, <1>9, <1>10

\* A release of what there is keeps everybody alive, costs nobody anything.
LEMMA ReleaseKeeps ==
    ASSUME NEW l \in Ledgers, Alive(l), NEW a \in Accounts, NEW n \in Nat
    PROVE  /\ ReleaseBestEffort(l, a, n) \in Ledgers
           /\ Alive(ReleaseBestEffort(l, a, n))
           /\ \A c \in Accounts :
                 /\ ReleaseBestEffort(l, a, n).free[c] >= l.free[c]
                 /\ ReleaseBestEffort(l, a, n).held[c] <= l.held[c]
           /\ ReleaseBestEffort(l, a, n).free[a] = l.free[a] + (IF l.held[a] < n THEN l.held[a] ELSE n)
<1> DEFINE k == IF l.held[a] < n THEN l.held[a] ELSE n
           r == Release(l, a, k)
<1>1. k \in Nat /\ k <= l.held[a] /\ l.free \in [Accounts -> Nat] /\ l.held \in [Accounts -> Nat]
  BY DEF Ledgers
<1>2. r = ReleaseBestEffort(l, a, n)
  BY DEF ReleaseBestEffort
<1> HIDE DEF k
<1>3. /\ r \in Ledgers
      /\ \A c \in Accounts : /\ r.free[c] = l.free[c] + (IF c = a THEN k ELSE 0)
                             /\ r.held[c] = l.held[c] - (IF c = a THEN k ELSE 0)
  BY <1>1, ReleaseMoves
<1> HIDE DEF r
<1>4. \A c \in Accounts : r.free[c] >= l.free[c] /\ r.held[c] <= l.held[c]
  BY <1>1, <1>3
<1>5. Alive(r)
  <2> SUFFICES ASSUME NEW m \in Managers PROVE r.held[m] = 0 \/ r.free[m] >= ExistentialDeposit
    BY DEF Alive
  <2>1. m \in Accounts
    BY ManagerAssumption
  <2>2. /\ r.held[m] \in Nat /\ r.free[m] \in Nat /\ l.held[m] \in Nat /\ l.free[m] \in Nat
        /\ l.held[m] = 0 \/ l.free[m] >= ExistentialDeposit
    BY <1>1, <1>3, <2>1 DEF Alive, Ledgers
  <2>3. r.held[m] <= l.held[m] /\ r.free[m] >= l.free[m]
    BY <1>4, <2>1
  <2> QED BY <2>2, <2>3, ExistentialDepositAssumption
<1> QED BY <1>1, <1>2, <1>3, <1>4, <1>5 DEF k

\* A fee is only withdrawn from an account that stays alive.
LEMMA WithdrawKeeps ==
    ASSUME NEW l \in Ledgers, Alive(l), NEW a \in Accounts, NEW n \in Nat, CanWithdraw(l, a, n)
    PROVE  /\ Withdraw(l, a, n) \in Ledgers
           /\ Alive(Withdraw(l, a, n))
           /\ Withdraw(l, a, n).held = l.held
           /\ \A c \in Accounts : c # a => Withdraw(l, a, n).free[c] = l.free[c]
<1>1. l.free[a] \in Nat /\ l.free[a] >= n /\ (n = 0 \/ l.free[a] - n >= ExistentialDeposit)
  BY ExistentialDepositAssumption DEF CanWithdraw, Ledgers
<1> DEFINE w == Withdraw(l, a, n)
<1>2. /\ w \in Ledgers /\ w.held = l.held
      /\ \A c \in Accounts : w.free[c] = l.free[c] - (IF c = a THEN n ELSE 0)
  BY <1>1, WithdrawMoves
<1> HIDE DEF w
<1>3. \A c \in Accounts : c # a => w.free[c] = l.free[c]
  BY <1>2 DEF Ledgers
<1>4. Alive(w)
  <2> SUFFICES ASSUME NEW m \in Managers PROVE w.held[m] = 0 \/ w.free[m] >= ExistentialDeposit
    BY DEF Alive
  <2>1. m \in Accounts /\ l.free[m] \in Nat
    BY ManagerAssumption DEF Ledgers
  <2>2. CASE m = a /\ n # 0
    BY <1>1, <1>2, <2>1, <2>2
  <2>3. CASE m # a \/ n = 0
    BY <1>2, <2>1, <2>3 DEF Alive
  <2> QED BY <2>2, <2>3
<1> QED BY <1>2, <1>3, <1>4 DEF w

\* What an account receives does it no harm.
LEMMA DepositKeeps ==
    ASSUME NEW l \in Ledgers, Alive(l), NEW a \in Accounts, NEW n \in Nat
    PROVE  /\ Deposit(l, a, n) \in Ledgers
           /\ Alive(Deposit(l, a, n))
           /\ Deposit(l, a, n).held = l.held
           /\ \A c \in Accounts : Deposit(l, a, n).free[c] >= l.free[c]
<1> DEFINE d == Deposit(l, a, n)
<1>1. /\ d \in Ledgers /\ d.held = l.held
      /\ \A c \in Accounts : d.free[c] = l.free[c] + (IF c = a THEN n ELSE 0)
  BY DepositMoves
<1> HIDE DEF d
<1>2. \A c \in Accounts : d.free[c] >= l.free[c] /\ d.free[c] \in Nat /\ l.free[c] \in Nat
  BY <1>1 DEF Ledgers
<1>3. Alive(d)
  <2> SUFFICES ASSUME NEW m \in Managers PROVE d.held[m] = 0 \/ d.free[m] >= ExistentialDeposit
    BY DEF Alive
  <2>1. m \in Accounts
    BY ManagerAssumption
  <2> QED BY <1>1, <1>2, <2>1, ExistentialDepositAssumption DEF Alive
<1> QED BY <1>1, <1>2, <1>3 DEF d

\* The prepare steps up to the fee: onboarding funds, then the release.
LEMMA ReleasedKeeps ==
    ASSUME PairInv, MoneyInv, NEW who \in Signers, NEW call, NEW fee \in Fees,
           call.pairing # None => call.pairing.account \in Managers,
           is_funding_call(call) => call.pairing # None,
           Funded(who, call) => CanTransfer(ledger, FundsAccount, call.pairing.account,
                                            OnboardingFunds(call.pairing.account))
    PROVE  /\ Released(who, call, fee) \in Ledgers
           /\ Alive(Released(who, call, fee))
           /\ ~Funded(who, call) =>
                 Released(who, call, fee).free[FundsAccount] >= ledger.free[FundsAccount]
           /\ Funded(who, call) =>
                 Released(who, call, fee).held[call.pairing.account] <= settings.max_funds
<1> DEFINE payer == fee_payer(who, call)
           l == Onboarding_prepare(who, call)
           r == Released(who, call, fee)
           m == call.pairing.account
<1>1. payer \in Accounts /\ payer # FundsAccount /\ fee \in Nat /\ FundsAccount \in Accounts
  BY PayerType, ManagerAssumption DEF Signers
<1>2. /\ l \in Ledgers /\ Alive(l)
      /\ ~Funded(who, call) => l = ledger
      /\ Funded(who, call) => m \in Managers /\ l.held[m] <= settings.max_funds
  <2>1. CASE Funded(who, call)
    <3>1. m \in Managers /\ can_fund_processor_onboarding(who, m) /\ l = fund(ledger, m)
      BY <2>1 DEF Funded, Onboarding_prepare
    <3> HIDE DEF l, m
    <3>2. CanTransfer(ledger, FundsAccount, m, OnboardingFunds(m))
      BY <2>1 DEF m
    <3> QED BY <2>1, <3>1, <3>2, FundMoves
  <2>2. CASE ~Funded(who, call)
    BY <2>2 DEF Onboarding_prepare, MoneyInv
  <2> QED BY <2>1, <2>2
<1> HIDE DEF l
<1>3. r = l \/ r = ReleaseBestEffort(l, payer, fee)
  BY DEF Released, release_fee_funds, l
<1> HIDE DEF r, payer
<1>4. r \in Ledgers /\ Alive(r) /\ \A c \in Accounts : r.free[c] >= l.free[c] /\ r.held[c] <= l.held[c]
  <2>1. CASE r = l
    BY <1>2, <2>1 DEF Ledgers
  <2>2. CASE r = ReleaseBestEffort(l, payer, fee)
    BY <1>1, <1>2, <2>2, ReleaseKeeps
  <2> QED BY <1>3, <2>1, <2>2
<1>5. ~Funded(who, call) => r.free[FundsAccount] >= ledger.free[FundsAccount]
  BY <1>1, <1>2, <1>4
<1>6. ASSUME Funded(who, call) PROVE r.held[m] <= settings.max_funds
  <2>1. m \in Accounts /\ m \in Managers /\ l.held[m] <= settings.max_funds
    BY <1>2, <1>6, ManagerAssumption
  <2>2. r.held[m] <= l.held[m] /\ r.held[m] \in Nat /\ l.held[m] \in Nat
    BY <1>2, <1>4, <2>1 DEF Ledgers
  <2>3. settings.max_funds \in Nat
    BY <1>6, ManagerAssumption DEF Funded, can_fund_processor_onboarding, MoneyInv
  <2> QED BY <2>1, <2>2, <2>3
<1> QED BY <1>4, <1>5, <1>6 DEF r

\* A transaction that is charged: the fee is withdrawn after that.
LEMMA ChargedKeeps ==
    ASSUME PairInv, MoneyInv, NEW who \in Signers, NEW call, NEW fee \in Fees,
           call.pairing # None => call.pairing.account \in Managers,
           is_funding_call(call) => call.pairing # None,
           Charged(who, call, fee)
    PROVE  /\ fee_payer(who, call) \in Accounts
           /\ withdraw_fee(who, call, fee) \in Ledgers
           /\ Alive(withdraw_fee(who, call, fee))
           /\ ~Funded(who, call) =>
                 withdraw_fee(who, call, fee).free[FundsAccount] >= ledger.free[FundsAccount]
           /\ Funded(who, call) =>
                 withdraw_fee(who, call, fee).held[call.pairing.account] <= settings.max_funds
<1> DEFINE payer == fee_payer(who, call)
           r == Released(who, call, fee)
           w == Withdraw(r, payer, fee)
<1>1. payer \in Accounts /\ payer # FundsAccount /\ fee \in Nat /\ FundsAccount \in Accounts
  BY PayerType, ManagerAssumption DEF Signers
<1>2. CanWithdraw(r, payer, fee)
  BY DEF Charged, Prepare
<1>3. /\ r \in Ledgers /\ Alive(r)
      /\ ~Funded(who, call) => r.free[FundsAccount] >= ledger.free[FundsAccount]
      /\ Funded(who, call) => r.held[call.pairing.account] <= settings.max_funds
  BY ReleasedKeeps DEF Charged, Prepare
<1>4. w = withdraw_fee(who, call, fee)
  BY DEF withdraw_fee
<1> HIDE DEF r, payer
<1>5. /\ w \in Ledgers /\ Alive(w) /\ w.held = r.held
      /\ \A c \in Accounts : c # payer => w.free[c] = r.free[c]
  BY <1>1, <1>2, <1>3, WithdrawKeeps
<1> HIDE DEF w
<1> QED BY <1>1, <1>3, <1>4, <1>5 DEF payer

\* With the refund, for a call that moves no money itself.
LEMMA PayFeeKeeps ==
    ASSUME PairInv, MoneyInv, NEW who \in Signers, NEW call, NEW fee \in Fees,
           call.pairing # None => call.pairing.account \in Managers,
           is_funding_call(call) => call.pairing # None,
           PayFee(who, call, fee)
    PROVE  /\ ledger' \in Ledgers
           /\ Alive(ledger')
           /\ ~Funded(who, call) => ledger'.free[FundsAccount] >= ledger.free[FundsAccount]
           /\ Funded(who, call) => ledger'.held[call.pairing.account] <= settings.max_funds
<1> DEFINE w == withdraw_fee(who, call, fee)
           payer == fee_payer(who, call)
<1>1. PICK unused \in 0 .. fee : ledger' = Deposit(w, payer, unused)
  BY DEF PayFee, Refund
<1>2. unused \in Nat /\ FundsAccount \in Accounts /\ ledger.free[FundsAccount] \in Nat
  BY ManagerAssumption DEF MoneyInv, Ledgers
<1>3. /\ payer \in Accounts /\ w \in Ledgers /\ Alive(w)
      /\ ~Funded(who, call) => w.free[FundsAccount] >= ledger.free[FundsAccount]
      /\ Funded(who, call) => w.held[call.pairing.account] <= settings.max_funds
  BY ChargedKeeps DEF PayFee
<1> HIDE DEF w, payer
<1>4. /\ ledger' \in Ledgers /\ Alive(ledger') /\ ledger'.held = w.held
      /\ \A c \in Accounts : ledger'.free[c] >= w.free[c]
  BY <1>1, <1>2, <1>3, DepositKeeps
<1>5. ~Funded(who, call) => ledger'.free[FundsAccount] >= ledger.free[FundsAccount]
  <2>1. w.free[FundsAccount] \in Nat /\ ledger'.free[FundsAccount] \in Nat
    BY <1>2, <1>3, <1>4 DEF Ledgers
  <2> QED BY <1>2, <1>3, <1>4, <2>1
<1> QED BY <1>3, <1>4, <1>5

\* recover_funds takes from a processor what it can spare, and nothing from
\* the funds account.
LEMMA RecoverFundsKeeps ==
    ASSUME PairInv, MoneyInv, NEW m \in Managers, NEW p \in Processors, NEW d \in Managers,
           NEW fee \in Fees, RecoverFunds(m, p, d, fee)
    PROVE  /\ ledger' \in Ledgers
           /\ Alive(ledger')
           /\ ledger'.free[FundsAccount] >= ledger.free[FundsAccount]
<1> DEFINE call == Call("recover_funds")
           w == withdraw_fee(m, call, fee)
           n == Reducible(w, p)
           t == Transfer(w, p, d, n)
           payer == fee_payer(m, call)
<1>1. PICK unused \in 0 .. fee : ledger' = Deposit(t, payer, unused)
  BY DEF RecoverFunds, Refund, RecoverAssets
<1>2. call.pairing = None /\ ~is_funding_call(call) /\ ~Funded(m, call)
  BY DEF Call, is_funding_call, Funded
<1>3. m \in Signers /\ Charged(m, call, fee)
  BY DEF Signers, RecoverFunds
<1>4. /\ payer \in Accounts /\ w \in Ledgers /\ Alive(w)
      /\ w.free[FundsAccount] >= ledger.free[FundsAccount]
  <2> HIDE DEF call
  <2> QED BY <1>2, <1>3, ChargedKeeps
<1>5. /\ p \in Accounts /\ d \in Accounts /\ FundsAccount \in Accounts
      /\ p # FundsAccount /\ unused \in Nat
  BY ManagerAssumption
<1> HIDE DEF w, payer
<1>6. n \in Nat /\ CanWithdraw(w, p, n) /\ w.free[FundsAccount] \in Nat
  BY <1>4, <1>5, ExistentialDepositAssumption DEF Ledgers, Reducible, CanWithdraw
<1> HIDE DEF n
<1> DEFINE x == Withdraw(w, p, n)
<1>7. x \in Ledgers /\ Alive(x) /\ x.free[FundsAccount] = w.free[FundsAccount]
  BY <1>4, <1>5, <1>6, WithdrawKeeps
<1>8. t \in Ledgers /\ Alive(t) /\ t.free[FundsAccount] >= w.free[FundsAccount]
  <2>1. t = Deposit(x, d, n)
    BY DEF Transfer
  <2> HIDE DEF x, t
  <2> QED BY <1>5, <1>6, <1>7, <2>1, DepositKeeps
<1> HIDE DEF t, x
<1>9. /\ ledger' \in Ledgers /\ Alive(ledger')
      /\ \A c \in Accounts : ledger'.free[c] >= t.free[c]
  BY <1>1, <1>4, <1>5, <1>8, DepositKeeps
<1>10. /\ ledger'.free[FundsAccount] >= t.free[FundsAccount]
       /\ ledger'.free[FundsAccount] \in Nat /\ ledger.free[FundsAccount] \in Nat
       /\ t.free[FundsAccount] \in Nat
  BY <1>5, <1>8, <1>9 DEF Ledgers, MoneyInv
<1> QED BY <1>4, <1>6, <1>8, <1>9, <1>10

-----------------------------------------------------------------------------
(***************************************************************************)
(* The invariant, transaction by transaction.                              *)
(***************************************************************************)
\* The part of the invariant that is about pairings and consents.
LinkInv == PairInv /\ ConsentInv

\* A pairing with the consent of the other side.
LEMMA ConsentedPairing ==
    ASSUME LinkInv, NEW p \in Processors, NEW c \in Consents,
           AddPairing(p, c.account), UseConsent(c), c.counter \in {None, counter[c.account] + 1}
    PROVE  LinkInv' /\ managerOf'[p] = managerId'[c.account]
<1>1. c.account \in Managers
  BY DEF Consents
<1> QED BY <1>1, AddPairingKeeps, UseConsentKeeps DEF LinkInv

\* A transaction that leaves the pairings alone.
LEMMA LinkUnchanged == LinkInv /\ UNCHANGED pairingVars => LinkInv'
BY DEF LinkInv, PairInv, Paired, IdsUnique, ConsentInv, pairingVars

\* A transaction that leaves attestations and clock alone.
LEMMA AttestUnchanged == AttestInv /\ UNCHANGED attestVars => AttestInv'
BY DEF AttestInv, attestVars

\* A transaction that leaves money and settings alone.
LEMMA MoneyUnchanged == MoneyInv /\ UNCHANGED <<ledger, settings>> => MoneyInv'
BY DEF MoneyInv, Alive

\* onboard, whether or not its dispatch succeeds.
LEMMA OnboardKeeps ==
    ASSUME ManagerInv, NEW p \in Processors, NEW c \in ManagerConsents, NEW chain \in Chains,
           NEW fee \in Fees, Onboard(p, c, chain, fee)
    PROVE  ManagerInv'
<1> DEFINE call == OnboardCall(c, chain)
<1>1. /\ p \in Signers /\ c \in Consents /\ c # None /\ c.account \in Managers /\ chain # None
      /\ call.pairing = c /\ call.chain = chain
  BY ConsentIsSome, ConsentAssumption DEF ManagerConsents, Consents, Signers, OnboardCall
<1>2. do_validate_pairing(c) /\ validate(p, chain)
  BY <1>1 DEF Onboard, PayFee, Charged, Validate
<1>3. LinkInv'
  BY <1>1, <1>2, ConsentedPairing, LinkUnchanged
     DEF Onboard, ManagerInv, LinkInv, do_validate_pairing, lookup_manager_id
<1>4. MoneyInv'
  BY <1>1, PayFeeKeeps DEF Onboard, ManagerInv, MoneyInv
<1>5. AttestInv'
  <2>1. chain.key = p
    BY <1>2 DEF validate, ensure_valid_public_key_for_source
  <2> QED BY <2>1 DEF Onboard, ManagerInv, AttestInv
<1> QED BY <1>3, <1>4, <1>5 DEF ManagerInv, LinkInv

\* pair_with_manager and multi_pair_with_manager.
LEMMA PairWithManagerKeeps ==
    ASSUME ManagerInv, NEW p \in Processors, NEW c \in ManagerConsents,
           NEW fee \in Fees, PairWithManager(p, c, fee)
    PROVE  ManagerInv'
<1> DEFINE call == PairCall(c)
<1>1. /\ p \in Signers /\ c \in Consents /\ c # None /\ c.account \in Managers
      /\ call.pairing = c /\ ~is_funding_call(call)
  BY ConsentIsSome DEF ManagerConsents, Consents, Signers, PairCall, Call, is_funding_call
<1>2. do_validate_pairing(c)
  BY <1>1 DEF PairWithManager, PayFee, Charged, Validate
<1>3. LinkInv'
  BY <1>1, <1>2, ConsentedPairing, LinkUnchanged
     DEF PairWithManager, ManagerInv, LinkInv, do_validate_pairing
<1>4. MoneyInv'
  BY <1>1, PayFeeKeeps DEF PairWithManager, ManagerInv, MoneyInv
<1>5. AttestInv'
  BY AttestUnchanged DEF PairWithManager, ManagerInv
<1> QED BY <1>3, <1>4, <1>5 DEF ManagerInv, LinkInv

\* Calls without a pairing in them neither fund nor name a payer.
LEMMA PlainCall ==
    ASSUME NEW name, name # "onboard"
    PROVE  /\ Call(name).pairing = None /\ ~is_funding_call(Call(name))
           /\ \A who : ~Funded(who, Call(name))
BY DEF Call, is_funding_call, Funded

\* The fee of such a call.
LEMMA PlainFeeKeeps ==
    ASSUME ManagerInv, NEW who \in Signers, NEW name, name # "onboard", NEW fee \in Fees,
           PayFee(who, Call(name), fee), UNCHANGED settings
    PROVE  MoneyInv' /\ ledger'.free[FundsAccount] >= ledger.free[FundsAccount]
<1>1. Call(name).pairing = None /\ ~is_funding_call(Call(name)) /\ ~Funded(who, Call(name))
  BY PlainCall
<1> QED BY <1>1, PayFeeKeeps DEF ManagerInv, MoneyInv

\* update_processor_pairings, an addition.
LEMMA AddProcessorKeeps ==
    ASSUME ManagerInv, NEW m \in Managers, NEW c \in ProcessorConsents,
           NEW fee \in Fees, AddProcessor(m, c, fee)
    PROVE  ManagerInv'
<1>1. /\ m \in Signers /\ c \in Consents /\ c.signer \in Processors
      /\ c.account = m /\ c.counter = counter[m] + 1
  BY DEF Signers, ProcessorConsents, AddProcessor
<1>2. LinkInv'
  BY <1>1, ConsentedPairing DEF AddProcessor, ManagerInv, LinkInv
<1>3. MoneyInv'
  BY <1>1, PlainFeeKeeps DEF AddProcessor
<1>4. AttestInv'
  BY AttestUnchanged DEF AddProcessor, ManagerInv
<1> QED BY <1>2, <1>3, <1>4 DEF ManagerInv, LinkInv

\* update_processor_pairings, a removal.
LEMMA RemoveProcessorKeeps ==
    ASSUME ManagerInv, NEW m \in Managers, NEW p \in Processors,
           NEW fee \in Fees, RemoveProcessor(m, p, fee)
    PROVE  ManagerInv'
<1>1. m \in Signers
  BY DEF Signers
<1>2. PairInv'
  BY RemovePairingKeeps DEF RemoveProcessor, ManagerInv
<1>3. ConsentInv'
  BY DEF RemoveProcessor, ManagerInv, ConsentInv
<1>4. MoneyInv'
  BY <1>1, PlainFeeKeeps DEF RemoveProcessor
<1>5. AttestInv'
  BY AttestUnchanged DEF RemoveProcessor, ManagerInv
<1> QED BY <1>2, <1>3, <1>4, <1>5 DEF ManagerInv

\* Calls that change balances, or an attestation, only.
LEMMA OtherCallsKeep ==
    ASSUME ManagerInv, NEW who \in Signers, NEW fee \in Fees,
           \/ Heartbeat(who, fee)
           \/ OtherCall(who, fee)
           \/ who \in Processors /\ \E chain \in Chains : SubmitOwnAttestation(who, chain, fee)
    PROVE  ManagerInv'
<1>1. /\ UNCHANGED <<pairingVars, settings>>
      /\ \E name \in {"heartbeat_with_version", "other", "submit_attestation"} :
            PayFee(who, Call(name), fee)
  BY DEF Heartbeat, OtherCall, SubmitOwnAttestation
<1>2. LinkInv' /\ MoneyInv'
  BY <1>1, LinkUnchanged, PlainFeeKeeps DEF ManagerInv, LinkInv
<1>3. AttestInv'
  <2>1. CASE Heartbeat(who, fee) \/ OtherCall(who, fee)
    BY <2>1, AttestUnchanged DEF Heartbeat, OtherCall, ManagerInv
  <2>2. CASE who \in Processors /\ \E chain \in Chains : SubmitOwnAttestation(who, chain, fee)
    BY <2>2 DEF SubmitOwnAttestation, SubmitAttestation, validate,
                ensure_valid_public_key_for_source, ManagerInv, AttestInv
  <2> QED BY <2>1, <2>2
<1> QED BY <1>2, <1>3 DEF ManagerInv, LinkInv

\* recover_funds.
LEMMA RecoverKeeps ==
    ASSUME ManagerInv, NEW m \in Managers, NEW p \in Processors, NEW d \in Managers,
           NEW fee \in Fees, RecoverFunds(m, p, d, fee)
    PROVE  ManagerInv'
<1>1. UNCHANGED <<attestVars, pairingVars, settings>>
  BY DEF RecoverFunds
<1>2. MoneyInv'
  BY <1>1, RecoverFundsKeeps DEF ManagerInv, MoneyInv
<1> QED BY <1>1, <1>2, LinkUnchanged, AttestUnchanged DEF ManagerInv, LinkInv

\* The invariant holds at genesis.
LEMMA InitManagerInv == ManagerInit => ManagerInv
<1> SUFFICES ASSUME ManagerInit PROVE ManagerInv
  OBVIOUS
<1>1. AttestInv
  BY DEF ManagerInit, AttestInit, AttestInv
<1>2. PairInv
  BY DEF ManagerInit, PairInv, IdsUnique, Paired
<1>3. ConsentInv
  BY FS_EmptySet DEF ManagerInit, ConsentInv
<1>4. MoneyInv
  BY ManagerAssumption DEF ManagerInit, MoneyInv, Ledgers, Alive
<1> QED BY <1>1, <1>2, <1>3, <1>4 DEF ManagerInv

\* Every transaction, every act of governance and time keep it.
LEMMA NextManagerInv == ManagerInv /\ [ManagerNext]_vars => ManagerInv'
<1> SUFFICES ASSUME ManagerInv, [ManagerNext]_vars PROVE ManagerInv'
  OBVIOUS
<1>1. CASE ProcessorCalls
  <2>1. PICK p \in Processors, fee \in Fees :
          \/ \E c \in ManagerConsents, chain \in Chains : Onboard(p, c, chain, fee)
          \/ \E c \in ManagerConsents : PairWithManager(p, c, fee)
          \/ \E chain \in Chains : SubmitOwnAttestation(p, chain, fee)
          \/ Heartbeat(p, fee)
          \/ OtherCall(p, fee)
    BY <1>1 DEF ProcessorCalls
  <2>2. p \in Signers
    BY DEF Signers
  <2> QED BY <2>1, <2>2, OnboardKeeps, PairWithManagerKeeps, OtherCallsKeep
<1>2. CASE ManagerCalls
  <2>1. PICK m \in Managers, fee \in Fees :
          \/ \E c \in ProcessorConsents : AddProcessor(m, c, fee)
          \/ \E p \in Processors : RemoveProcessor(m, p, fee)
          \/ \E p \in Processors, d \in Managers : RecoverFunds(m, p, d, fee)
          \/ OtherCall(m, fee)
    BY <1>2 DEF ManagerCalls
  <2>2. m \in Signers
    BY DEF Signers
  <2> QED BY <2>1, <2>2, AddProcessorKeeps, RemoveProcessorKeeps, RecoverKeeps, OtherCallsKeep
<1>3. CASE Governance
  <2>1. CASE \E s \in SettingsChoices \cup {None} : UpdateOnboardingSettings(s)
    <3>1. UNCHANGED <<attestVars, ledger, pairingVars>> /\ settings' \in SettingsChoices \cup {None}
      BY <2>1 DEF UpdateOnboardingSettings
    <3>2. MoneyInv'
      BY <3>1 DEF ManagerInv, MoneyInv, Alive
    <3> QED BY <3>1, <3>2, LinkUnchanged, AttestUnchanged DEF ManagerInv, LinkInv
  <2>2. CASE /\ \E s \in Serials, add \in BOOLEAN : UpdateRevocationList(s, add)
             /\ UNCHANGED managerVars
    <3>1. AttestInv'
      BY <2>2 DEF UpdateRevocationList, ManagerInv, AttestInv
    <3> QED BY <2>2, <3>1, LinkUnchanged, MoneyUnchanged DEF ManagerInv, LinkInv, managerVars
  <2> QED BY <1>3, <2>1, <2>2 DEF Governance
<1>4. CASE Time
  <2>1. AttestInv'
    BY <1>4 DEF Time, Tick, ManagerInv, AttestInv
  <2> QED BY <1>4, <2>1, LinkUnchanged, MoneyUnchanged DEF Time, ManagerInv, LinkInv, managerVars
<1>5. CASE UNCHANGED vars
  BY <1>5, LinkUnchanged, MoneyUnchanged, AttestUnchanged DEF vars, managerVars, ManagerInv, LinkInv
<1> QED BY <1>1, <1>2, <1>3, <1>4, <1>5 DEF ManagerNext

\* The invariant holds in every reachable state; in particular no transaction
\* and no onboarding leaves a manager with money on hold and no account.
THEOREM ManagerInvCorrect == ManagerSpec => []ManagerInv
<1> QED BY InitManagerInv, NextManagerInv, PTL DEF ManagerSpec

-----------------------------------------------------------------------------
(***************************************************************************)
(* What follows from the invariant.                                        *)
(***************************************************************************)
\* The invariant says that both indexes hold the same pairs and that ids are
\* unique: the id of a processor then has exactly one manager.
THEOREM PairingIndexesMirrorCorrect == ManagerSpec => []PairingIndexesMirror
<1>1. ManagerInv => PairingIndexesMirror
  <2> SUFFICES ASSUME PairInv PROVE PairingIndexesMirror
    BY DEF ManagerInv
  <2>1. managedProcessors = {<<managerOf[p], p>> : p \in {q \in Processors : managerOf[q] # None}}
    BY DEF PairInv, Paired
  <2>2. ASSUME NEW p \in Processors, managerOf[p] # None
        PROVE  Cardinality({m \in Managers : managerId[m] = managerOf[p]}) = 1
    <3>1. PICK n \in Managers : managerId[n] = managerOf[p]
      BY <2>2 DEF PairInv, Paired
    <3>2. {m \in Managers : managerId[m] = managerOf[p]} = {n}
      BY <2>2, <3>1 DEF PairInv, IdsUnique
    <3> QED BY <3>2, FS_Singleton
  <2> QED BY <2>1, <2>2 DEF PairingIndexesMirror
<1> QED BY <1>1, ManagerInvCorrect, PTL

\* Each use of a consent with a counter adds a new pair to the used ones.
THEOREM ConsentUsedOnceCorrect == ManagerSpec => []ConsentUsedOnce
<1>1. ManagerInv => ConsentUsedOnce
  BY DEF ManagerInv, ConsentInv, ConsentUsedOnce
<1> QED BY <1>1, ManagerInvCorrect, PTL

\* onboard and submit_attestation store only chains of the signer's own key.
THEOREM VerifiedByOwnUnrevokedKeyCorrect == ManagerSpec => []VerifiedByOwnUnrevokedKey
<1>1. ManagerInv => VerifiedByOwnUnrevokedKey
  BY DEF ManagerInv, AttestInv, VerifiedByOwnUnrevokedKey, ensure_source_verified,
         check_attestation, ensure_not_revoked
<1> QED BY <1>1, ManagerInvCorrect, PTL

\* A step either leaves the stored attestations alone or stores one that was
\* validated in the same step.
LEMMA StoredOnlyValidated ==
    ASSUME ManagerInv, [ManagerNext]_vars
    PROVE  \/ stored' = stored
           \/ /\ now' = now /\ revoked' = revoked
              /\ \E p \in Processors, chain \in Chains :
                    validate(p, chain) /\ stored' = [stored EXCEPT ![p] = chain]
<1>1. CASE ProcessorCalls
  <2>1. PICK p \in Processors, fee \in Fees :
          \/ \E c \in ManagerConsents, chain \in Chains : Onboard(p, c, chain, fee)
          \/ \E c \in ManagerConsents : PairWithManager(p, c, fee)
          \/ \E chain \in Chains : SubmitOwnAttestation(p, chain, fee)
          \/ Heartbeat(p, fee)
          \/ OtherCall(p, fee)
    BY <1>1 DEF ProcessorCalls
  <2>2. ASSUME NEW c \in ManagerConsents, NEW chain \in Chains, Onboard(p, c, chain, fee)
        PROVE  /\ validate(p, chain) /\ now' = now /\ revoked' = revoked
               /\ stored' = stored \/ stored' = [stored EXCEPT ![p] = chain]
    <3>1. chain # None /\ OnboardCall(c, chain).chain = chain
      BY ConsentAssumption DEF OnboardCall
    <3> QED BY <2>2, <3>1 DEF Onboard, PayFee, Charged, Validate
  <2>3. ASSUME NEW chain \in Chains, SubmitOwnAttestation(p, chain, fee)
        PROVE  /\ validate(p, chain) /\ now' = now /\ revoked' = revoked
               /\ stored' = [stored EXCEPT ![p] = chain]
    BY <2>3 DEF SubmitOwnAttestation, SubmitAttestation
  <2>4. CASE \/ \E c \in ManagerConsents : PairWithManager(p, c, fee)
             \/ Heartbeat(p, fee)
             \/ OtherCall(p, fee)
    BY <2>4 DEF PairWithManager, Heartbeat, OtherCall, attestVars
  <2> QED BY <2>1, <2>2, <2>3, <2>4
<1>2. CASE ManagerCalls
  BY <1>2 DEF ManagerCalls, AddProcessor, RemoveProcessor, RecoverFunds, OtherCall, attestVars
<1>3. CASE Governance \/ Time
  BY <1>3 DEF Governance, UpdateOnboardingSettings, UpdateRevocationList, Time, Tick, attestVars
<1>4. CASE UNCHANGED vars
  BY <1>4 DEF vars, attestVars
<1> QED BY <1>1, <1>2, <1>3, <1>4 DEF ManagerNext

\* An account becomes verified by a chain that is usable then, or because
\* the list of revoked certificates changed: time alone verifies nobody.
THEOREM VerifiedOnlyByUsableChainCorrect == ManagerSpec => VerifiedOnlyByUsableChain
<1> DEFINE Step ==
      \A a \in Processors :
         (ensure_source_verified(a)' /\ ~ensure_source_verified(a)) =>
            \/ revoked' # revoked
            \/ /\ stored'[a].not_before <= now /\ now < stored'[a].not_after
               /\ stored'[a].usage_expires # None => now < stored'[a].usage_expires
<1>1. ASSUME ManagerInv, [ManagerNext]_vars PROVE Step
  <2> SUFFICES ASSUME NEW a \in Processors, ensure_source_verified(a)', ~ensure_source_verified(a),
                      revoked' = revoked
               PROVE  ensure_not_expired(stored'[a])
    BY DEF ensure_not_expired
  <2>1. stored'[a] # stored[a]
    BY DEF ensure_source_verified, check_attestation, ensure_not_revoked
  <2>2. PICK p \in Processors, chain \in Chains :
          validate(p, chain) /\ stored' = [stored EXCEPT ![p] = chain]
    BY <1>1, <2>1, StoredOnlyValidated
  <2>3. stored'[a] = chain
    BY <1>1, <2>1, <2>2 DEF ManagerInv, AttestInv
  <2> QED BY <2>2, <2>3 DEF validate
<1>2. ASSUME ManagerInv, [ManagerNext]_vars PROVE [Step]_attestVars
  BY <1>1, <1>2
<1> QED BY <1>2, ManagerInvCorrect, PTL DEF ManagerSpec, VerifiedOnlyByUsableChain

\* A funded onboarding is of an unpaired processor with the consent of the
\* manager who gets the money; its dispatch pairs them.
LEMMA FundedOnboardPairs ==
    ASSUME ManagerInv, NEW p \in Processors, NEW c \in ManagerConsents, NEW chain \in Chains,
           NEW fee \in Fees, Onboard(p, c, chain, fee), Funded(p, OnboardCall(c, chain))
    PROVE  /\ c.account \in Managers
           /\ managerOf[p] = None /\ managerOf'[p] = managerId'[c.account]
           /\ ensure_source_verified(p)'
           /\ ledger'.held[c.account] <= settings.max_funds
<1> DEFINE call == OnboardCall(c, chain)
<1>1. /\ p \in Signers /\ c \in Consents /\ c # None /\ c.account \in Managers /\ chain # None
      /\ call.pairing = c /\ call.chain = chain
  BY ConsentIsSome, ConsentAssumption DEF ManagerConsents, Consents, Signers, OnboardCall
<1>2. do_validate_pairing(c) /\ validate(p, chain)
  BY <1>1 DEF Onboard, PayFee, Charged, Validate
<1>3. lookup_manager_id(p) = None /\ managerOf[p] = None
  BY DEF Funded, can_fund_processor_onboarding, lookup_manager_id
<1>4. /\ AddPairing(p, c.account) /\ UseConsent(c) /\ stored' = [stored EXCEPT ![p] = chain]
      /\ revoked' = revoked
  BY <1>3 DEF Onboard
<1>5. managerOf'[p] = managerId'[c.account]
  BY <1>1, <1>2, <1>4, ConsentedPairing DEF ManagerInv, LinkInv, do_validate_pairing
<1>6. ensure_source_verified(p)'
  <2>1. stored'[p] = chain
    BY <1>4 DEF ManagerInv, AttestInv
  <2> QED BY <1>1, <1>2, <1>4, <2>1
          DEF validate, ensure_source_verified, check_attestation, ensure_not_revoked
<1>7. ledger'.held[c.account] <= settings.max_funds
  <2>1. call.pairing # None /\ call.pairing.account \in Managers /\ PayFee(p, call, fee)
        /\ Funded(p, call)
    BY <1>1 DEF Onboard
  <2> HIDE DEF call
  <2>2. ledger'.held[call.pairing.account] <= settings.max_funds
    BY <1>1, <2>1, PayFeeKeeps DEF ManagerInv
  <2> QED BY <1>1, <2>2
<1> QED BY <1>1, <1>3, <1>5, <1>6, <1>7

\* A processor's transaction that takes from the funds account is a funded
\* onboarding.
LEMMA ProcessorSpendsFunds ==
    ASSUME ManagerInv, ProcessorCalls, ~(ledger'.free[FundsAccount] >= ledger.free[FundsAccount])
    PROVE  \E p \in Processors, fee \in Fees, c \in ManagerConsents, chain \in Chains :
              Onboard(p, c, chain, fee) /\ Funded(p, OnboardCall(c, chain))
<1>1. PICK p \in Processors, fee \in Fees :
        \/ \E c \in ManagerConsents, chain \in Chains : Onboard(p, c, chain, fee)
        \/ \E c \in ManagerConsents : PairWithManager(p, c, fee)
        \/ \E chain \in Chains : SubmitOwnAttestation(p, chain, fee)
        \/ Heartbeat(p, fee)
        \/ OtherCall(p, fee)
  BY DEF ProcessorCalls
<1>2. p \in Signers
  BY DEF Signers
<1>3. ASSUME NEW c \in ManagerConsents, PairWithManager(p, c, fee) PROVE FALSE
  <2> DEFINE call == PairCall(c)
  <2>1. /\ call.pairing # None => call.pairing.account \in Managers
        /\ ~is_funding_call(call) /\ ~Funded(p, call) /\ PayFee(p, call, fee)
    BY <1>3 DEF ManagerConsents, Consents, PairCall, Call, is_funding_call, Funded, PairWithManager
  <2> HIDE DEF call
  <2> QED BY <1>2, <2>1, PayFeeKeeps DEF ManagerInv
<1>4. CASE \/ \E chain \in Chains : SubmitOwnAttestation(p, chain, fee)
           \/ Heartbeat(p, fee)
           \/ OtherCall(p, fee)
  <2>1. /\ UNCHANGED settings
        /\ \E name \in {"heartbeat_with_version", "other", "submit_attestation"} :
              PayFee(p, Call(name), fee)
    BY <1>4 DEF Heartbeat, OtherCall, SubmitOwnAttestation
  <2> QED BY <1>2, <2>1, PlainFeeKeeps
<1>5. ASSUME NEW c \in ManagerConsents, NEW chain \in Chains, Onboard(p, c, chain, fee)
      PROVE  Funded(p, OnboardCall(c, chain))
  <2> DEFINE call == OnboardCall(c, chain)
  <2>1. /\ call.pairing # None /\ call.pairing.account \in Managers /\ PayFee(p, call, fee)
    BY <1>5, ConsentIsSome DEF ManagerConsents, Consents, OnboardCall, Onboard
  <2> HIDE DEF call
  <2>2. Funded(p, call)
    BY <1>2, <2>1, PayFeeKeeps DEF ManagerInv
  <2> QED BY <2>2 DEF call
<1> QED BY <1>1, <1>3, <1>4, <1>5

\* No manager's transaction, no act of governance and no other step does.
LEMMA OthersSpareFunds ==
    ASSUME ManagerInv, [ManagerNext]_vars, ~ProcessorCalls
    PROVE  ledger'.free[FundsAccount] >= ledger.free[FundsAccount]
<1>1. CASE ManagerCalls
  <2>1. PICK m \in Managers, fee \in Fees :
          \/ \E c \in ProcessorConsents : AddProcessor(m, c, fee)
          \/ \E p \in Processors : RemoveProcessor(m, p, fee)
          \/ \E p \in Processors, d \in Managers : RecoverFunds(m, p, d, fee)
          \/ OtherCall(m, fee)
    BY <1>1 DEF ManagerCalls
  <2>2. m \in Signers
    BY DEF Signers
  <2>3. CASE \E p \in Processors, d \in Managers : RecoverFunds(m, p, d, fee)
    BY <2>3, RecoverFundsKeeps DEF ManagerInv
  <2>4. CASE \/ \E c \in ProcessorConsents : AddProcessor(m, c, fee)
             \/ \E p \in Processors : RemoveProcessor(m, p, fee)
             \/ OtherCall(m, fee)
    <3>1. /\ UNCHANGED settings
          /\ \E name \in {"update_processor_pairings", "other"} : PayFee(m, Call(name), fee)
      BY <2>4 DEF AddProcessor, RemoveProcessor, OtherCall
    <3> QED BY <2>2, <3>1, PlainFeeKeeps
  <2> QED BY <2>1, <2>3, <2>4
<1>2. CASE UNCHANGED ledger
  <2>1. ledger.free[FundsAccount] \in Nat
    BY ManagerAssumption DEF ManagerInv, MoneyInv, Ledgers
  <2> QED BY <1>2, <2>1
<1> QED BY <1>1, <1>2 DEF ManagerNext, Governance, UpdateOnboardingSettings, Time, managerVars, vars

\* The chain's money moves only with the pairing it is paid for.
THEOREM FundingPairsCorrect == ManagerSpec => FundingPairs
<1> DEFINE Step ==
      ledger'.free[FundsAccount] < ledger.free[FundsAccount] =>
         \E p \in Processors, m \in Managers :
            /\ managerOf[p] = None /\ managerOf'[p] = managerId'[m]
            /\ ensure_source_verified(p)'
            /\ ledger'.held[m] <= settings.max_funds
<1>1. ASSUME ManagerInv, [ManagerNext]_vars, ManagerInv' PROVE Step
  <2> SUFFICES ASSUME ledger'.free[FundsAccount] < ledger.free[FundsAccount]
               PROVE  \E p \in Processors, m \in Managers :
                        /\ managerOf[p] = None /\ managerOf'[p] = managerId'[m]
                        /\ ensure_source_verified(p)'
                        /\ ledger'.held[m] <= settings.max_funds
    OBVIOUS
  <2>1. ledger.free[FundsAccount] \in Nat /\ ledger'.free[FundsAccount] \in Nat
    BY <1>1, ManagerAssumption DEF ManagerInv, MoneyInv, Ledgers
  <2>2. ~(ledger'.free[FundsAccount] >= ledger.free[FundsAccount])
    BY <2>1
  <2>3. ProcessorCalls
    BY <1>1, <2>2, OthersSpareFunds
  <2>4. PICK p \in Processors, fee \in Fees, c \in ManagerConsents, chain \in Chains :
          Onboard(p, c, chain, fee) /\ Funded(p, OnboardCall(c, chain))
    BY <1>1, <2>2, <2>3, ProcessorSpendsFunds
  <2> QED BY <1>1, <2>4, FundedOnboardPairs
<1>2. ASSUME ManagerInv, [ManagerNext]_vars, ManagerInv' PROVE [Step]_vars
  BY <1>1, <1>2
<1> QED BY <1>2, ManagerInvCorrect, PTL DEF ManagerSpec, FundingPairs

-----------------------------------------------------------------------------
(***************************************************************************)
(* Validation and application agree on the fee.                            *)
(***************************************************************************)
\* A call that is not funded by the chain: what validation found on hold is
\* released, and what it found missing is free.
LEMMA UnfundedIsPayable ==
    ASSUME ManagerInv, NEW who \in Signers, NEW call, NEW fee \in Fees,
           call.pairing # None => call.pairing.account \in Managers,
           Validate(who, call, fee), ~Funded(who, call)
    PROVE  Prepare(who, call, fee)
<1> DEFINE payer == fee_payer(who, call)
           r == Released(who, call, fee)
           missing == MissingFee(who, call, fee)
<1>1. payer \in Accounts /\ fee \in Nat /\ ExistentialDeposit \in Nat
  BY PayerType, ManagerAssumption, ExistentialDepositAssumption DEF ManagerInv, Signers
<1>2. ledger \in Ledgers /\ Alive(ledger) /\ ledger.free[payer] \in Nat /\ ledger.held[payer] \in Nat
  BY <1>1 DEF ManagerInv, MoneyInv, Ledgers
<1>3. ledger.free[payer] >= ExistentialDeposit /\ CanWithdraw(ledger, payer, missing)
  BY DEF Validate, PayerExists, can_withdraw_fee
<1>4. CASE payer = who \/ ~is_fundable_call(call)
  <2>1. r = ledger /\ missing = fee
    BY <1>4 DEF Released, release_fee_funds, Onboarding_prepare, MissingFee
  <2> QED BY <1>3, <2>1 DEF Prepare
<1>5. CASE payer # who /\ is_fundable_call(call)
  <2>1. r = ReleaseBestEffort(ledger, payer, fee)
    BY <1>5 DEF Released, release_fee_funds, Onboarding_prepare
  <2>2. missing = IF ledger.held[payer] >= fee THEN 0 ELSE fee - ledger.held[payer]
    BY <1>5 DEF MissingFee
  <2> HIDE DEF r, missing, payer
  <2>3. r.free[payer] = ledger.free[payer] + (IF ledger.held[payer] < fee THEN ledger.held[payer] ELSE fee)
    BY <1>1, <1>2, <2>1, ReleaseKeeps
  <2>4. missing = 0 \/ ledger.free[payer] >= missing + ExistentialDeposit
    BY <1>3 DEF CanWithdraw
  <2>5. r.free[payer] >= fee + ExistentialDeposit
    BY <1>1, <1>2, <1>3, <2>2, <2>3, <2>4
  <2>6. CanWithdraw(r, payer, fee)
    BY <2>5 DEF CanWithdraw
  <2> QED BY <2>6 DEF Prepare, r, payer
<1> QED BY <1>4, <1>5

\* An onboarding the chain funds: if the fee is covered, the manager stays
\* alive, also when the manager's account is created by it.
LEMMA FundedIsPayable ==
    ASSUME ManagerInv, NEW who \in Processors, NEW call, NEW fee \in Fees,
           call.pairing # None, call.pairing.account \in Managers,
           Funded(who, call), Covered(who, call, fee)
    PROVE  Prepare(who, call, fee)
<1> DEFINE m == call.pairing.account
           n == OnboardingFunds(m)
           f == fund(ledger, m)
           r == Released(who, call, fee)
<1>1. /\ can_fund_processor_onboarding(who, m) /\ is_fundable_call(call)
      /\ lookup_manager_id(who) = None /\ m \in Accounts
  BY ManagerAssumption DEF Funded, is_funding_call, is_fundable_call, can_fund_processor_onboarding
<1>2. /\ settings.funds # 0 /\ fee \in Nat
      /\ settings.funds \in Nat /\ settings.max_funds \in Nat
      /\ ledger.held[m] < settings.max_funds /\ CanWithdraw(ledger, FundsAccount, n)
      /\ ledger.free[m] \in Nat /\ ledger.held[m] \in Nat /\ ExistentialDeposit \in Nat
  BY <1>1, ManagerAssumption, ExistentialDepositAssumption
     DEF can_fund_processor_onboarding, ManagerInv, MoneyInv, Ledgers
<1>3. n \in Nat
  <2>1. n = IF settings.funds <= settings.max_funds - ledger.held[m]
            THEN settings.funds ELSE settings.max_funds - ledger.held[m]
    BY <1>2, MinOfTwo DEF OnboardingFunds
  <2> HIDE DEF n
  <2> QED BY <1>2, <2>1
<1>4. ledger.held[m] = 0 \/ ledger.free[m] >= ExistentialDeposit
  BY DEF ManagerInv, MoneyInv, Alive
<1>5. /\ fee_payer(who, call) = m
      /\ r = IF m # who THEN ReleaseBestEffort(f, m, fee) ELSE f
  BY <1>1 DEF fee_payer, Released, release_fee_funds, Onboarding_prepare
<1>6. fee + ExistentialDeposit <= IF m = who THEN ledger.free[m]
                                  ELSE ledger.free[m] + ledger.held[m] + n
  BY <1>5 DEF Covered
<1> HIDE DEF m, n
<1>7. CanTransfer(ledger, FundsAccount, m, n)
  <2>1. ledger.free[m] + n >= ExistentialDeposit
    BY <1>2, <1>3, <1>4, <1>6
  <2> QED BY <1>2, <2>1 DEF CanTransfer, CanDeposit
<1>8. /\ f \in Ledgers /\ Alive(f) /\ f.free[m] >= ExistentialDeposit
      /\ f.free[m] + f.held[m] = ledger.free[m] + ledger.held[m] + n
      /\ ledger.free[m] >= ExistentialDeposit => f.held[m] = ledger.held[m] + n
  BY <1>1, <1>7, FundMoves DEF ManagerInv, n, m
<1> HIDE DEF f
<1>9. f.free[m] \in Nat /\ f.held[m] \in Nat
  BY <1>1, <1>8 DEF Ledgers
<1>10. m # who => r.free[m] = f.free[m] + (IF f.held[m] < fee THEN f.held[m] ELSE fee)
  BY <1>1, <1>2, <1>5, <1>8, ReleaseKeeps
<1>11. m = who => r = f
  BY <1>5
<1> HIDE DEF r
<1>12. r.free[m] >= fee + ExistentialDeposit
  <2>1. CASE m # who /\ f.held[m] >= fee
    BY <1>2, <1>8, <1>9, <1>10, <2>1
  <2>2. CASE m # who /\ f.held[m] < fee
    BY <1>2, <1>3, <1>6, <1>8, <1>9, <1>10, <2>2
  <2>3. CASE m = who
    BY <1>2, <1>3, <1>6, <1>8, <1>9, <1>11, <2>3
  <2> QED BY <1>2, <1>9, <2>1, <2>2, <2>3
<1>13. CanWithdraw(r, m, fee)
  BY <1>12 DEF CanWithdraw
<1>14. n = OnboardingFunds(call.pairing.account) /\ m = call.pairing.account
  BY DEF n, m
<1> QED BY <1>5, <1>7, <1>13, <1>14 DEF Prepare, r

\* Whoever signs and whatever is called: a transaction that passed the
\* validate steps passes the prepare steps, the covered ones if it is an
\* onboarding that the chain funds.
THEOREM ValidatedIsPayableCorrect == ManagerSpec => []ValidatedIsPayable
<1>1. ManagerInv => ValidatedIsPayable
  <2> SUFFICES ASSUME ManagerInv, NEW who \in Signers, NEW fee \in Fees
               PROVE  /\ \A name \in {"heartbeat_with_version", "other"} :
                            Validate(who, Call(name), fee) => Prepare(who, Call(name), fee)
                      /\ \A m \in Managers, chain \in Chains :
                            LET consent == [signer |-> m, account |-> m, timestamp |-> now,
                                            counter |-> counter[m] + 1]
                                onboard == OnboardCall(consent, chain)
                                pair == PairCall(consent)
                            IN  /\ Validate(who, pair, fee) => Prepare(who, pair, fee)
                                /\ Validate(who, onboard, fee)
                                      /\ (Funded(who, onboard) => Covered(who, onboard, fee))
                                         => Prepare(who, onboard, fee)
    BY DEF ValidatedIsPayable
  <2>1. ASSUME NEW name \in {"heartbeat_with_version", "other"}, Validate(who, Call(name), fee)
        PROVE  Prepare(who, Call(name), fee)
    <3>1. Call(name).pairing = None /\ ~Funded(who, Call(name))
      BY PlainCall
    <3> QED BY <2>1, <3>1, UnfundedIsPayable
  <2>2. ASSUME NEW m \in Managers, NEW chain \in Chains, NEW consent,
               consent = [signer |-> m, account |-> m, timestamp |-> now, counter |-> counter[m] + 1]
        PROVE  /\ Validate(who, PairCall(consent), fee) => Prepare(who, PairCall(consent), fee)
               /\ Validate(who, OnboardCall(consent, chain), fee)
                     /\ (Funded(who, OnboardCall(consent, chain)) =>
                           Covered(who, OnboardCall(consent, chain), fee))
                        => Prepare(who, OnboardCall(consent, chain), fee)
    <3>1. consent.account = m
      BY <2>2
    <3>2. ASSUME Validate(who, PairCall(consent), fee) PROVE Prepare(who, PairCall(consent), fee)
      <4> DEFINE call == PairCall(consent)
      <4>1. call.pairing.account \in Managers /\ ~Funded(who, call) /\ Validate(who, call, fee)
        BY <3>1, <3>2 DEF PairCall, Call, Funded, is_funding_call
      <4> HIDE DEF call
      <4>2. Prepare(who, call, fee)
        BY <4>1, UnfundedIsPayable
      <4> QED BY <4>2 DEF call
    <3>3. ASSUME Validate(who, OnboardCall(consent, chain), fee),
                 Funded(who, OnboardCall(consent, chain)) =>
                    Covered(who, OnboardCall(consent, chain), fee)
          PROVE  Prepare(who, OnboardCall(consent, chain), fee)
      <4> DEFINE call == OnboardCall(consent, chain)
      <4>1. /\ call.pairing.account \in Managers /\ call.pairing = consent /\ call.chain = chain
            /\ Validate(who, call, fee) /\ (Funded(who, call) => Covered(who, call, fee))
        BY <3>1, <3>3 DEF OnboardCall
      <4> HIDE DEF call
      <4>2. chain # None /\ validate(who, chain)
        BY <4>1, ConsentAssumption DEF Validate
      <4>3. who \in Processors
        BY <4>2, AttestationAssumption DEF validate, ensure_valid_public_key_for_source
      <4>4. consent # None
        <5>1. /\ m \in Signers /\ now \in Nat /\ counter[m] + 1 \in Nat
          BY DEF Signers, ManagerInv, AttestInv, ConsentInv
        <5> QED BY <2>2, <5>1, ConsentAssumption
      <4>5. ~Funded(who, call) => Prepare(who, call, fee)
        BY <4>1, UnfundedIsPayable
      <4>6. Funded(who, call) => Prepare(who, call, fee)
        BY <4>1, <4>3, <4>4, FundedIsPayable
      <4>7. Prepare(who, call, fee)
        BY <4>5, <4>6
      <4> QED BY <4>7 DEF call
    <3> QED BY <3>2, <3>3
  <2> QED BY <2>1, <2>2
<1> QED BY <1>1, ManagerInvCorrect, PTL
=============================================================================
