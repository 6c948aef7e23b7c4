-------------------------- MODULE ProcessorManager --------------------------
(***************************************************************************)
(* pallet-acurast-processor-manager with the transaction extensions the    *)
(* runtimes build on it: processors are paired with managers by signed     *)
(* consents, managers pay the fees of their processors, and the first      *)
(* transaction of a new device, onboard, may be funded by the chain with   *)
(* money that is held on the manager's account for such fees.              *)
(*                                                                         *)
(* A transaction passes the validate steps of all extensions, then their   *)
(* prepare steps, then it is dispatched, then unused fee is refunded.  If  *)
(* validate or prepare fails nothing happens; if the dispatch fails only   *)
(* its own effects are rolled back.  Account nonces are left out: a signed *)
(* transaction is a new one each time.                                     *)
(***************************************************************************)
EXTENDS Attestation, Currency, FiniteSetsExt

CONSTANTS Managers,       \* accounts that manage processors
          FundsAccount,   \* funds_account of the onboarding settings
          SettingsChoices,\* onboarding settings governance chooses from
          PairingProofExpirationTime,
          Fees,           \* transaction fees
          InitialBalances,
          MaxCounter      \* bound on ManagerCounter

ASSUME ManagerAssumption ==
    /\ Processors \cup Managers \cup {FundsAccount} \subseteq Accounts
    \* The account governance funds onboardings from signs nothing here.  A
    \* device may well be a manager, even its own.
    /\ FundsAccount \notin Processors \cup Managers
    /\ SettingsChoices \subseteq [funds : Nat, max_funds : Nat]
    /\ PairingProofExpirationTime \in Nat
    /\ Fees \subseteq Nat
    /\ InitialBalances \in [Accounts -> Nat]
    /\ MaxCounter \in Nat

VARIABLES ledger,       \* balances; on hold is HoldReason::Onboarding
          managerId,    \* ManagerIdProvider: manager -> id, or None
          lastManagerId,\* LastManagerId
          managedProcessors, \* ManagedProcessors: pairs <<id, processor>>
          managerOf,    \* ProcessorToManagerIdIndex: processor -> id, or None
          counter,      \* ManagerCounter
          settings,     \* ProcessorOnboardingSettings, or None
          used,         \* history: <<manager, counter>> of the consents used
          consented     \* history: number of pairings by consents with a counter

pairingVars == <<managerId, lastManagerId, managedProcessors, managerOf, counter, used, consented>>
managerVars == <<ledger, pairingVars, settings>>
vars == <<attestVars, managerVars>>

Signers == Processors \cup Managers

\* ProcessorPairing: `signer` signed (account, timestamp, counter), or
\* (account, timestamp) if the counter is None.
Consents == [signer : Signers, account : Managers, timestamp : 0 .. LastTime,
             counter : 1 .. MaxCounter \cup {None}]

\* None is neither a consent, however late or high its counter, nor a chain.
ASSUME ConsentAssumption ==
    /\ None \notin [signer : Signers, account : Managers, timestamp : Nat,
                    counter : Nat \cup {None}]
    /\ None \notin Chains

ManagerConsents == {c \in Consents : c.signer = c.account}

ProcessorConsents == {c \in Consents : c.signer \in Processors}

-----------------------------------------------------------------------------
lookup_manager_id(who) == IF who \in Processors THEN managerOf[who] ELSE None

owner_for(id) == CHOOSE m \in Managers : managerId[m] = id

ensure_managed(manager, processor) ==
    managerOf[processor] # None /\ owner_for(managerOf[processor]) = manager

validate_timestamp(consent) ==
    consent.timestamp <= now /\ now - consent.timestamp < PairingProofExpirationTime

\* Slip: the counter in the consent need not be the next one.
do_validate_pairing_anyCounter(consent) ==
    consent.signer = consent.account /\ validate_timestamp(consent)

\* A consent without a counter verifies in the multi calls only, one with a
\* counter in the others only: which call it is follows from the consent.
do_validate_pairing(consent) ==
    /\ consent.signer = consent.account
    /\ validate_timestamp(consent)
    /\ consent.counter \in {None, counter[consent.account] + 1}

\* do_get_or_create_manager_id
NewManagerId(manager) ==
    IF managerId[manager] # None THEN managerId[manager] ELSE lastManagerId + 1

CreateManagerId(manager) ==
    /\ managerId' = [managerId EXCEPT ![manager] = NewManagerId(manager)]
    /\ lastManagerId' = IF managerId[manager] # None THEN lastManagerId ELSE lastManagerId + 1

\* do_add_processor_manager_pairing
AddPairing(processor, manager) ==
    /\ managerOf[processor] = None
    /\ CreateManagerId(manager)
    /\ managedProcessors' = managedProcessors \cup {<<NewManagerId(manager), processor>>}
    /\ managerOf' = [managerOf EXCEPT ![processor] = NewManagerId(manager)]

\* The counter moves with every consent that carries one.
UseConsent(consent) ==
    IF consent.counter = None THEN UNCHANGED <<counter, used, consented>>
    ELSE /\ counter' = [counter EXCEPT ![consent.account] = consent.counter]
         /\ used' = used \cup {<<consent.account, consent.counter>>}
         /\ consented' = consented + 1
-----------------------------------------------------------------------------
(***************************************************************************)
(* Calls as the extensions see them.                                       *)
(***************************************************************************)
Call(name) == [name |-> name, pairing |-> None, chain |-> None]

PairCall(pairing) == [Call("pair_with_manager") EXCEPT !.pairing = pairing]

OnboardCall(pairing, chain) == [name |-> "onboard", pairing |-> pairing, chain |-> chain]

is_funding_call(call) == call.name = "onboard"

is_fundable_call(call) ==
    call.name \in {"heartbeat_with_version", "onboard", "pair_with_manager"}

fee_payer(who, call) ==
    IF lookup_manager_id(who) # None THEN owner_for(lookup_manager_id(who))
    ELSE IF call.pairing # None THEN call.pairing.account
    ELSE who

\* The amount can_fund_processor_onboarding grants: none but for a processor
\* without a manager, and never more than what is missing to max_funds.
OnboardingFunds(manager) == Min({settings.funds, settings.max_funds - ledger.held[manager]})

can_fund_processor_onboarding(processor, manager) ==
    /\ settings # None /\ settings.funds # 0
    /\ lookup_manager_id(processor) = None
    /\ ledger.held[manager] < settings.max_funds
    /\ CanWithdraw(ledger, FundsAccount, OnboardingFunds(manager))

Funded(who, call) ==
    is_funding_call(call) /\ can_fund_processor_onboarding(who, call.pairing.account)

\* fund: what arrives is held, except what keeps the manager alive.
HoldReceived(l, a, amount) == Hold(l, a, Min({amount, Reducible(l, a)}))

fund(l, manager) ==
    HoldReceived(Transfer(l, FundsAccount, manager, OnboardingFunds(manager)),
                 manager, OnboardingFunds(manager))

Onboarding_prepare(who, call) ==
    IF Funded(who, call) THEN fund(ledger, call.pairing.account) ELSE ledger

\* Slip: the money on hold is not released for the fee.
release_fee_funds_kept(l, who, call, fee) == l

\* withdraw_fee releases what is on hold before it withdraws.
release_fee_funds(l, who, call, fee) ==
    LET payer == fee_payer(who, call)
    IN  IF payer # who /\ is_fundable_call(call) THEN ReleaseBestEffort(l, payer, fee) ELSE l

Released(who, call, fee) == release_fee_funds(Onboarding_prepare(who, call), who, call, fee)

withdraw_fee(who, call, fee) == Withdraw(Released(who, call, fee), fee_payer(who, call), fee)

\* The part of a fee that is not covered by money on hold.
MissingFee(who, call, fee) ==
    LET payer == fee_payer(who, call)
    IN  IF payer = who \/ ~is_fundable_call(call) THEN fee
        ELSE IF ledger.held[payer] >= fee THEN 0 ELSE fee - ledger.held[payer]

can_withdraw_fee(who, call, fee) ==
    \/ Funded(who, call)
    \/ CanWithdraw(ledger, fee_payer(who, call), MissingFee(who, call, fee))

\* The account that pays for the nonce exists or is about to be funded.
PayerExists(who, call) ==
    Funded(who, call) \/ ledger.free[fee_payer(who, call)] >= ExistentialDeposit

\* The validate steps of Onboarding, CheckNonce and ChargeTransactionPayment.
Validate(who, call, fee) ==
    /\ call.pairing # None => do_validate_pairing(call.pairing)
    /\ call.chain # None => validate(who, call.chain)
    /\ PayerExists(who, call)
    /\ can_withdraw_fee(who, call, fee)

\* Their prepare steps.
Prepare(who, call, fee) ==
    /\ Funded(who, call) =>
          CanTransfer(ledger, FundsAccount, call.pairing.account,
                      OnboardingFunds(call.pairing.account))
    /\ CanWithdraw(Released(who, call, fee), fee_payer(who, call), fee)

Charged(who, call, fee) == Validate(who, call, fee) /\ Prepare(who, call, fee)

\* correct_and_deposit_fee: what was not used goes back to the payer.
Refund(l, payer, amount) == Deposit(l, payer, amount)

\* A transaction whose dispatch does not touch balances.
PayFee(who, call, fee) ==
    /\ Charged(who, call, fee)
    /\ \E unused \in 0 .. fee :
          ledger' = Refund(withdraw_fee(who, call, fee), fee_payer(who, call), unused)
-----------------------------------------------------------------------------
\* Slip: the attestation is checked but not stored.
Onboard_notStored(who, consent, chain, fee) ==
    /\ PayFee(who, OnboardCall(consent, chain), fee)
    /\ \/ AddPairing(who, consent.account) /\ UseConsent(consent)
       \/ lookup_manager_id(who) # None /\ UNCHANGED pairingVars
    /\ UNCHANGED <<attestVars, settings>>

\* onboard stores the attestation and pairs; for a paired processor the
\* dispatch fails.
Onboard(who, consent, chain, fee) ==
    /\ PayFee(who, OnboardCall(consent, chain), fee)
    /\ \/ /\ AddPairing(who, consent.account)
          /\ UseConsent(consent)
          /\ stored' = [stored EXCEPT ![who] = chain]
       \/ /\ lookup_manager_id(who) # None
          /\ UNCHANGED <<pairingVars, stored>>
    /\ UNCHANGED <<now, revoked, settings>>

\* pair_with_manager and multi_pair_with_manager
PairWithManager(who, consent, fee) ==
    /\ PayFee(who, PairCall(consent), fee)
    /\ \/ AddPairing(who, consent.account) /\ UseConsent(consent)
       \/ lookup_manager_id(who) # None /\ UNCHANGED pairingVars
    /\ UNCHANGED <<attestVars, settings>>

\* update_processor_pairings, one update at a time: the processor consented.
AddProcessor(who, consent, fee) ==
    /\ consent.account = who
    /\ validate_timestamp(consent)
    /\ consent.counter = counter[who] + 1
    /\ AddPairing(consent.signer, who)
    /\ UseConsent(consent)
    /\ PayFee(who, Call("update_processor_pairings"), fee)
    /\ UNCHANGED <<attestVars, settings>>

\* Slip: the entry of the processor in ManagedProcessors stays.
RemovePairing_entryKept(who, processor) ==
    /\ managerOf' = [managerOf EXCEPT ![processor] = None]
    /\ UNCHANGED managedProcessors

\* do_remove_processor_manager_pairing
RemovePairing(who, processor) ==
    /\ managerOf' = [managerOf EXCEPT ![processor] = None]
    /\ managedProcessors' = managedProcessors \ {<<managerId[who], processor>>}

RemoveProcessor(who, processor, fee) ==
    /\ ensure_managed(who, processor)
    /\ RemovePairing(who, processor)
    /\ PayFee(who, Call("update_processor_pairings"), fee)
    /\ UNCHANGED <<attestVars, managerId, lastManagerId, counter, used, consented, settings>>

\* recover_assets: all but the existential deposit is burned and minted anew.
RecoverAssets(l, processor, destination) ==
    Transfer(l, processor, destination, Reducible(l, processor))

RecoverFunds(who, processor, destination, fee) ==
    LET call == Call("recover_funds")
        charged == withdraw_fee(who, call, fee)
    IN  /\ ensure_managed(who, processor)
        /\ Charged(who, call, fee)
        /\ CanDeposit(charged, destination, Reducible(charged, processor))
        /\ \E unused \in 0 .. fee :
              ledger' = Refund(RecoverAssets(charged, processor, destination),
                               fee_payer(who, call), unused)
        /\ UNCHANGED <<attestVars, pairingVars, settings>>

\* heartbeat_with_version and heartbeat_with_metrics; what they record and
\* the reward they may collect is not part of this module.
Heartbeat(who, fee) ==
    /\ PayFee(who, Call("heartbeat_with_version"), fee)
    /\ UNCHANGED <<attestVars, pairingVars, settings>>

\* Any call that fails, or that does not touch this state.
OtherCall(who, fee) ==
    /\ PayFee(who, Call("other"), fee)
    /\ UNCHANGED <<attestVars, pairingVars, settings>>

SubmitOwnAttestation(who, chain, fee) ==
    /\ PayFee(who, Call("submit_attestation"), fee)
    /\ SubmitAttestation(who, chain)
    /\ UNCHANGED <<pairingVars, settings>>

UpdateOnboardingSettings(new_settings) ==
    /\ settings' = new_settings
    /\ UNCHANGED <<attestVars, ledger, pairingVars>>
-----------------------------------------------------------------------------
ManagerInit ==
    /\ AttestInit
    /\ ledger = [free |-> InitialBalances, held |-> [a \in Accounts |-> 0]]
    /\ managerId = [m \in Managers |-> None] /\ lastManagerId = 0
    /\ managedProcessors = {} /\ managerOf = [p \in Processors |-> None]
    /\ counter = [m \in Managers |-> 0] /\ used = {} /\ consented = 0
    /\ settings = None

ProcessorCalls == \E p \in Processors, fee \in Fees :
    \/ \E consent \in ManagerConsents :
          \/ \E chain \in Chains : Onboard(p, consent, chain, fee)
          \/ PairWithManager(p, consent, fee)
    \/ \E chain \in Chains : SubmitOwnAttestation(p, chain, fee)
    \/ Heartbeat(p, fee)
    \/ OtherCall(p, fee)

ManagerCalls == \E m \in Managers, fee \in Fees :
    \/ \E consent \in ProcessorConsents : AddProcessor(m, consent, fee)
    \/ \E p \in Processors : RemoveProcessor(m, p, fee)
    \/ \E p \in Processors, d \in Managers : RecoverFunds(m, p, d, fee)
    \/ OtherCall(m, fee)

Governance ==
    \/ \E s \in SettingsChoices \cup {None} : UpdateOnboardingSettings(s)
    \/ /\ \E s \in Serials, add \in BOOLEAN : UpdateRevocationList(s, add)
       /\ UNCHANGED managerVars

Time == Tick /\ UNCHANGED managerVars

ManagerNext == ProcessorCalls \/ ManagerCalls \/ Governance \/ Time

ManagerSpec == ManagerInit /\ [][ManagerNext]_vars
-----------------------------------------------------------------------------
\* ManagedProcessors and ProcessorToManagerIdIndex mirror each other through
\* pairings from either side, removals and pairings with another manager, and
\* every id in them belongs to exactly one manager.
PairingIndexesMirror ==
    /\ managedProcessors =
          {<<managerOf[p], p>> : p \in {q \in Processors : managerOf[q] # None}}
    /\ \A p \in Processors : managerOf[p] # None =>
          Cardinality({m \in Managers : managerId[m] = managerOf[p]}) = 1

\* A consent with a counter pairs at most one processor, once: it cannot be
\* used again after the pairing was removed, by either side.
ConsentUsedOnce == consented = Cardinality(used)

\* What validation does not look at, since it admits every fee, tip included, of
\* an onboarding that will be funded: the fee fits into what its payer has
\* once the funds are paid.  Nothing is released for a device that is its own
\* manager, so that its fee must fit into what it has free already.
Covered(who, call, fee) ==
    LET payer == fee_payer(who, call)
    IN  fee + ExistentialDeposit <=
            IF payer = who THEN ledger.free[who]
            ELSE ledger.free[payer] + ledger.held[payer] + OnboardingFunds(payer)

\* A transaction that passed validation can be applied: whoever pays for it,
\* the fee it was admitted with can be withdrawn once the onboarding funds
\* are paid and the money on hold is released.  For an onboarding that the chain
\* funds, can_withdraw_fee admits any fee: there it holds for a covered one.
ValidatedIsPayable ==
    \A who \in Signers, fee \in Fees :
        /\ \A name \in {"heartbeat_with_version", "other"} :
              Validate(who, Call(name), fee) => Prepare(who, Call(name), fee)
        /\ \A m \in Managers, chain \in Chains :
              LET consent == [signer |-> m, account |-> m, timestamp |-> now,
                              counter |-> counter[m] + 1]
                  onboard == OnboardCall(consent, chain)
                  pair == PairCall(consent)
              IN  /\ Validate(who, pair, fee) => Prepare(who, pair, fee)
                  /\ Validate(who, onboard, fee)
                        /\ (Funded(who, onboard) => Covered(who, onboard, fee))
                           => Prepare(who, onboard, fee)

\* The chain pays for onboarding only when the same transaction pairs an
\* attested processor that had no manager, and the money on hold for a
\* manager never exceeds the configured maximum by it.
FundingPairs ==
    [][ledger'.free[FundsAccount] < ledger.free[FundsAccount] =>
         \E p \in Processors, m \in Managers :
            /\ managerOf[p] = None /\ managerOf'[p] = managerId'[m]
            /\ ensure_source_verified(p)'
            /\ ledger'.held[m] <= settings.max_funds]_vars
=============================================================================
