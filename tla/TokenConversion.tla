--------------------------- MODULE TokenConversion ---------------------------
(***************************************************************************)
(* pallet-acurast-token-conversion on both of its chains.  On the source   *)
(* chain an account burns its tokens and a message is sent for it; on the  *)
(* destination chain the message funds the account from the pallet's own   *)
(* money and locks what it received.  A message may get lost, arrive late  *)
(* or again; the pallet may lack money; so both halves can be retried.     *)
(*                                                                         *)
(* hyperdrive-ibc is used here by what it guarantees: one message per      *)
(* account is outstanding, its fee is on hold on the pallet's account, it  *)
(* can be replaced or removed once its time to live is over, and it is not *)
(* received again while it is recorded at the destination.  Times are kept *)
(* as what is left, or as ages that stop counting once they make no more   *)
(* difference, so that behaviours need no bound on the number of blocks.   *)
(***************************************************************************)
EXTENDS Currency, Integers, FiniteSets, FiniteSetsExt

CONSTANTS
    Converters,         \* accounts that convert
    Payers,             \* accounts that pay for messages
    PalletAccount,      \* account_id, on either chain
    Relayer,            \* an account that is paid for deliveries
    Liquidity, MinTransferAmount, ConvertTTL,    \* configuration of the pallet
    MinLockDuration, MaxLockDuration,
    Accuracy,           \* Perquintill::ACCURACY
    MinFee, IncomingTTL,                         \* configuration of hyperdrive-ibc
    Fees,               \* the fees callers offer
    SlashAmounts,       \* the amounts slash is called with
    SourceBalances, DestinationBalances,         \* free balances at genesis
    TopUp,              \* what governance adds to an empty pallet account
    MaxConversions,     \* bound on the conversions of one account
    None                \* Option::None

ASSUME ConversionAssumption ==
    /\ Converters \subseteq Payers
    /\ Payers \cup {PalletAccount, Relayer} \subseteq Accounts
    /\ PalletAccount \notin Payers
    /\ Liquidity \in Nat /\ MinTransferAmount \in Nat /\ Liquidity <= MinTransferAmount
    /\ ConvertTTL \in Nat /\ IncomingTTL \in Nat /\ MinFee \in Nat
    /\ MinLockDuration \in Nat /\ MaxLockDuration \in Nat \ {0} /\ Accuracy \in Nat \ {0}
    /\ MinLockDuration <= MaxLockDuration
    /\ Fees \subseteq Nat /\ SlashAmounts \subseteq Nat
    /\ SourceBalances \in [Accounts -> Nat] /\ DestinationBalances \in [Accounts -> Nat]
    /\ TopUp \in Nat /\ MaxConversions \in Nat

\* The values of the storage maps.
InitiatedConversions == [burned : Nat, fee_payer : Payers]

OutgoingMessages == [fee : Nat, left : Nat, payer : Payers]

LockedConversions == [amount : Nat, age : Nat]

ASSUME NoneAssumption ==
    None \notin Nat \cup InitiatedConversions \cup OutgoingMessages \cup LockedConversions

VARIABLES
    source,      \* ledger of the source chain; on hold are fees of messages
    enabled,     \* Enabled
    denied,      \* DeniedSource
    initiated,   \* InitiatedConversion: account -> [burned, fee_payer], or None
    outgoing,    \* outstanding message: account -> [fee, left, payer], or None
    wire,        \* accounts whose message the relayers still have
    dest,        \* ledger of the destination chain; on hold is HoldReason::Conversion
    locked,      \* LockedConversion: account -> [amount, age], or None
    unprocessed, \* UnprocessedConversion: account -> amount, or None
    incoming,    \* IncomingMessages: account -> age of the record, or None
    received,    \* history: accounts whose message was ever received
    conversions  \* history: account -> number of conversions processed

sourceVars == <<source, enabled, denied, initiated, outgoing>>
destVars == <<dest, locked, unprocessed, conversions>>
conversionVars == <<sourceVars, wire, destVars, incoming, received>>

-----------------------------------------------------------------------------
(***************************************************************************)
(* The source chain.                                                       *)
(***************************************************************************)
\* send_message: a message that is still within its ttl cannot be replaced.
Replaceable(account) == outgoing[account] # None => outgoing[account].left = 0

OldFee(account) == IF outgoing[account] = None THEN 0 ELSE outgoing[account].fee

\* The fee moves to the pallet's account and is held there instead of the
\* fee of the message it replaces.
HoldFee(l, account, payer, fee) ==
    Hold(Release(Transfer(l, payer, PalletAccount, fee), PalletAccount, OldFee(account)),
         PalletAccount, fee)

CanHoldFee(l, account, payer, fee) ==
    /\ CanTransfer(l, payer, PalletAccount, fee)
    /\ fee >= MinFee
    /\ CanRelease(l, PalletAccount, OldFee(account))
    /\ CanHold(Release(Transfer(l, payer, PalletAccount, fee), PalletAccount, OldFee(account)),
               PalletAccount, fee)

\* What was released for the replaced message goes back to who paid for it.
send_convert_message(l, account, payer, prev_payer, fee) ==
    /\ Replaceable(account)
    /\ CanHoldFee(l, account, payer, fee)
    /\ CanTransfer(HoldFee(l, account, payer, fee), PalletAccount, prev_payer, OldFee(account))
    /\ source' = Transfer(HoldFee(l, account, payer, fee), PalletAccount, prev_payer,
                          OldFee(account))
    /\ outgoing' = [outgoing EXCEPT ![account] =
                       [fee |-> fee, left |-> ConvertTTL + 1, payer |-> payer]]
    /\ wire' = wire \cup {account}

\* All but the fee, the liquidity and the existential deposit is burned.
convert(who, fee) ==
    LET reducible == Reducible(source, who)
        burned == reducible - fee - Liquidity
    IN  /\ enabled
        /\ who \notin denied
        /\ initiated[who] = None
        /\ reducible >= fee
        /\ reducible - fee >= MinTransferAmount
        /\ send_convert_message(Withdraw(source, who, burned), who, who, who, fee)
        /\ initiated' = [initiated EXCEPT ![who] = [burned |-> burned, fee_payer |-> who]]
        /\ UNCHANGED <<enabled, denied, destVars, incoming, received>>

\* Slip: the payer of the first message stays recorded.
update_initiated_conversion_kept(account, new_fee_payer) == UNCHANGED initiated

update_initiated_conversion(account, new_fee_payer) ==
    initiated' = [initiated EXCEPT ![account].fee_payer = new_fee_payer]

\* Slip: a retry is refused like a conversion once the source is denied.
retry_convert_for_denied(account, who, fee) ==
    /\ initiated[account] # None /\ account \notin denied
    /\ update_initiated_conversion(account, who)
    /\ send_convert_message(source, account, who, initiated[account].fee_payer, fee)
    /\ UNCHANGED <<enabled, denied, destVars, incoming, received>>

\* retry_convert is the case who = account.
retry_convert_for(account, who, fee) ==
    /\ initiated[account] # None
    /\ update_initiated_conversion(account, who)
    /\ send_convert_message(source, account, who, initiated[account].fee_payer, fee)
    /\ UNCHANGED <<enabled, denied, destVars, incoming, received>>

set_enabled(enable) ==
    /\ enabled' = enable
    /\ UNCHANGED <<source, denied, initiated, outgoing, wire, destVars, incoming, received>>

deny_source(account, deny) ==
    /\ denied' = IF deny THEN denied \cup {account} ELSE denied \ {account}
    /\ UNCHANGED <<source, enabled, initiated, outgoing, wire, destVars, incoming, received>>

\* hyperdrive-ibc: the fee of a delivered message goes to the relayer.
confirm_message_delivery(account) ==
    /\ outgoing[account] # None /\ outgoing[account].left > 0
    /\ account \in received
    /\ CanTransferOnHold(source, PalletAccount, Relayer, outgoing[account].fee)
    /\ source' = TransferOnHold(source, PalletAccount, Relayer, outgoing[account].fee)
    /\ outgoing' = [outgoing EXCEPT ![account] = None]
    /\ UNCHANGED <<enabled, denied, initiated, wire, destVars, incoming, received>>

\* hyperdrive-ibc: anyone removes a message over its ttl; its fee is released
\* to the pallet's account and stays there.
remove_message(account) ==
    /\ outgoing[account] # None /\ outgoing[account].left = 0
    /\ source' = ReleaseBestEffort(source, PalletAccount, outgoing[account].fee)
    /\ outgoing' = [outgoing EXCEPT ![account] = None]
    /\ UNCHANGED <<enabled, denied, initiated, wire, destVars, incoming, received>>
-----------------------------------------------------------------------------
(***************************************************************************)
(* The destination chain.                                                  *)
(***************************************************************************)
fund(account, amount) == Transfer(dest, PalletAccount, account, amount)

\* If the liquidity cannot be left free, as much as possible is held.
HoldAmount(l, account, amount) ==
    IF amount > Liquidity THEN amount - Liquidity ELSE Min({amount, Reducible(l, account)})

CanProcess(account, amount) ==
    /\ CanTransfer(dest, PalletAccount, account, amount)
    /\ CanHold(fund(account, amount), account, HoldAmount(fund(account, amount), account, amount))

\* hold
LockFunds(account, amount) ==
    LET funded == fund(account, amount)
        hold_amount == HoldAmount(funded, account, amount)
    IN  /\ dest' = Hold(funded, account, hold_amount)
        /\ locked' = [locked EXCEPT ![account] = [amount |-> hold_amount, age |-> 0]]

\* Slip: a conversion is processed although one is locked.
process_conversion_again(account, amount, waiting) ==
    LET first == IF waiting = None THEN amount ELSE waiting
    IN  IF CanProcess(account, first)
        THEN /\ LockFunds(account, first)
             /\ unprocessed' = [unprocessed EXCEPT ![account] = None]
             /\ conversions' = [conversions EXCEPT ![account] = @ + 1]
        ELSE /\ unprocessed' = [unprocessed EXCEPT ![account] = first]
             /\ UNCHANGED <<dest, locked, conversions>>

\* A message for an account with a lock is ignored; an unprocessed message
\* of the same account (waiting) goes first.  If funding or holding fails
\* the funding is undone and the message waits for a retry.
process_conversion(account, amount, waiting) ==
    LET first == IF waiting = None THEN amount ELSE waiting
    IN  IF locked[account] # None
        THEN /\ unprocessed' = [unprocessed EXCEPT ![account] = waiting]
             /\ UNCHANGED <<dest, locked, conversions>>
        ELSE IF CanProcess(account, first)
        THEN /\ LockFunds(account, first)
             /\ unprocessed' = [unprocessed EXCEPT ![account] = None]
             /\ conversions' = [conversions EXCEPT ![account] = @ + 1]
        ELSE /\ unprocessed' = [unprocessed EXCEPT ![account] = first]
             /\ UNCHANGED <<dest, locked, conversions>>

\* hyperdrive-ibc's receive_message with this pallet as the processor.
process(account) ==
    /\ account \in wire
    /\ incoming[account] = None
    /\ conversions[account] < MaxConversions
    /\ incoming' = [incoming EXCEPT ![account] = 0]
    /\ received' = received \cup {account}
    /\ process_conversion(account, initiated[account].burned, unprocessed[account])
    /\ UNCHANGED <<sourceVars, wire>>

\* The message is taken before it is processed; anyone may call it.
retry_process_conversion_for(account) ==
    /\ unprocessed[account] # None
    /\ process_conversion(account, unprocessed[account], None)
    /\ UNCHANGED <<sourceVars, wire, incoming, received>>

\* The part of the amount that the time waited has earned.
amount_unlocked(lock) == (((lock.age * Accuracy) \div MaxLockDuration) * lock.amount) \div Accuracy

UnlockSlash(lock) == lock.amount - amount_unlocked(lock)

ReleaseAll(account) == Release(dest, account, dest.held[account])

CanUnlock(account) ==
    /\ locked[account].age >= MinLockDuration
    /\ CanWithdraw(ReleaseAll(account), account, UnlockSlash(locked[account]))

\* What is slashed leaves the accounts of this module (OnSlash).  Without a
\* lock the call succeeds and does nothing.
unlock(who) ==
    /\ locked[who] # None
    /\ CanUnlock(who)
    /\ dest' = Withdraw(ReleaseAll(who), who, UnlockSlash(locked[who]))
    /\ locked' = [locked EXCEPT ![who] = None]
    /\ UNCHANGED <<sourceVars, wire, unprocessed, conversions, incoming, received>>

\* Slashable: the hold gives what it has, the record follows it.
slash(account, amount) ==
    LET slashed == Min({amount, dest.held[account]})
        new_amount == locked[account].amount - slashed
    IN  /\ locked[account] # None
        /\ dest' = [dest EXCEPT !.held[account] = @ - slashed]
        /\ locked' = [locked EXCEPT ![account] =
                         IF new_amount = 0 THEN None ELSE [@ EXCEPT !.amount = new_amount]]
        /\ UNCHANGED <<sourceVars, wire, unprocessed, conversions, incoming, received>>

clean_incoming(account) ==
    /\ incoming[account] # None /\ incoming[account] > IncomingTTL
    /\ incoming' = [incoming EXCEPT ![account] = None]
    /\ UNCHANGED <<sourceVars, wire, destVars, received>>
-----------------------------------------------------------------------------
(***************************************************************************)
(* The environment.                                                        *)
(***************************************************************************)
Tick ==
    /\ outgoing' = [a \in Converters |->
          IF outgoing[a] = None THEN None
          ELSE [outgoing[a] EXCEPT !.left = Max({0, @ - 1})]]
    /\ locked' = [a \in Converters |->
          IF locked[a] = None THEN None
          ELSE [locked[a] EXCEPT !.age = Min({MaxLockDuration, @ + 1})]]
    /\ incoming' = [a \in Converters |->
          IF incoming[a] = None THEN None ELSE Min({IncomingTTL + 1, incoming[a] + 1})]
    /\ UNCHANGED <<source, enabled, denied, initiated, wire, dest, unprocessed, received,
                   conversions>>

\* The relayers give up on a message once its fee can no longer be earned.
Lose(account) ==
    /\ account \in wire
    /\ Replaceable(account)
    /\ wire' = wire \ {account}
    /\ UNCHANGED <<sourceVars, destVars, incoming, received>>

\* Governance funds the pallet's account when a conversion has to wait.
TopUpPallet ==
    /\ \E a \in Converters :
          unprocessed[a] # None /\ ~CanTransfer(dest, PalletAccount, a, unprocessed[a])
    /\ dest' = Deposit(dest, PalletAccount, TopUp)
    /\ UNCHANGED <<sourceVars, wire, locked, unprocessed, conversions, incoming, received>>

\* Users spend their free balance elsewhere.
SpendAtSource(who, n) ==
    /\ n # 0 /\ CanWithdraw(source, who, n)
    /\ source' = Withdraw(source, who, n)
    /\ UNCHANGED <<enabled, denied, initiated, outgoing, wire, destVars, incoming, received>>

SpendAtDestination(who, n) ==
    /\ n # 0 /\ CanWithdraw(dest, who, n)
    /\ dest' = Withdraw(dest, who, n)
    /\ UNCHANGED <<sourceVars, wire, locked, unprocessed, conversions, incoming, received>>
-----------------------------------------------------------------------------
ConversionInit ==
    /\ source = [free |-> SourceBalances, held |-> [a \in Accounts |-> 0]]
    /\ dest = [free |-> DestinationBalances, held |-> [a \in Accounts |-> 0]]
    /\ enabled = FALSE /\ denied = {}
    /\ initiated = [a \in Converters |-> None] /\ outgoing = [a \in Converters |-> None]
    /\ locked = [a \in Converters |-> None] /\ unprocessed = [a \in Converters |-> None]
    /\ incoming = [a \in Converters |-> None]
    /\ wire = {} /\ received = {} /\ conversions = [a \in Converters |-> 0]

Retry(account) == \E who \in Payers, fee \in Fees : retry_convert_for(account, who, fee)

SourceNext == \E a \in Converters :
    \/ \E fee \in Fees : convert(a, fee)
    \/ Retry(a)
    \/ confirm_message_delivery(a)
    \/ remove_message(a)
    \/ \E deny \in BOOLEAN : deny_source(a, deny)

DestinationNext == \E a \in Converters :
    \/ process(a)
    \/ retry_process_conversion_for(a)
    \/ unlock(a)
    \/ \E n \in SlashAmounts : slash(a, n)
    \/ clean_incoming(a)

EnvironmentNext ==
    \/ Tick
    \/ TopUpPallet
    \/ \E a \in Converters : Lose(a)
    \/ \E a \in Payers : SpendAtSource(a, Reducible(source, a))
    \/ \E a \in Converters : SpendAtDestination(a, Reducible(dest, a))
    \/ \E enable \in BOOLEAN : set_enabled(enable)

ConversionNext == SourceNext \/ DestinationNext \/ EnvironmentNext

\* Blocks are produced; somebody who wants the conversion retries both of its
\* halves whenever that is possible; governance keeps the pallet funded; and
\* relayers, who are paid for it, do not miss a message every time it is sent.
ConversionFairness ==
    /\ WF_conversionVars(Tick)
    /\ WF_conversionVars(TopUpPallet)
    /\ \A a \in Converters :
          /\ WF_conversionVars(Retry(a))
          /\ WF_conversionVars(retry_process_conversion_for(a))
          /\ SF_conversionVars(process(a))

ConversionSpec ==
    ConversionInit /\ [][ConversionNext]_conversionVars /\ ConversionFairness
-----------------------------------------------------------------------------
\* What is on hold for an account is what its lock records, through unlocks,
\* slashes and conversions received again, and once the minimum duration is
\* over the lock can be lifted, whatever the account did with its free balance.
LockCanBeLifted == \A a \in Converters :
    /\ dest.held[a] = IF locked[a] = None THEN 0 ELSE locked[a].amount
    /\ locked[a] # None /\ locked[a].age >= MinLockDuration => CanUnlock(a)

\* When a message over its ttl is replaced its fee goes back to the account
\* that paid it, although anybody may have paid for the message before and
\* anybody may pay for the next one.
RefundReachesPayer ==
    [][\A a \in Converters :
          outgoing[a] # None /\ outgoing[a].left = 0 /\ outgoing'[a] # None
             /\ outgoing'[a] # outgoing[a] =>
          source'.free[outgoing[a].payer] = source.free[outgoing[a].payer] + outgoing[a].fee
             - (IF outgoing'[a].payer = outgoing[a].payer THEN outgoing'[a].fee ELSE 0)]_conversionVars

\* Burned tokens arrive: every conversion that was initiated is processed,
\* through lost and late messages, a pallet without funds and a source that
\* is denied meanwhile, unless nobody is left who can pay for a message.
ConversionCompletes == \A a \in Converters :
    initiated[a] # None ~>
        \/ conversions[a] > 0
        \/ \A p \in Payers, fee \in Fees : ~CanWithdraw(source, p, fee)
=============================================================================
