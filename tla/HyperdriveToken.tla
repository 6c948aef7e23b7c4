--------------------------- MODULE HyperdriveToken ---------------------------
(***************************************************************************)
(* pallet-acurast-hyperdrive-token on top of HyperdriveIbc: native tokens  *)
(* are locked in a vault and a TransferToken message is sent to the proxy  *)
(* contract on Ethereum; a message from the proxy pays out of the vault.   *)
(* Fees go through a fee vault that is the payer of every message.         *)
(*                                                                         *)
(* The proxy contract is external: it mints on the first delivery of a     *)
(* transfer nonce, and burns before it emits a transfer, which it may emit *)
(* again under another message nonce.  Only Ethereum is a configured proxy *)
(* chain: proxy_params rejects every other destination.                    *)
(***************************************************************************)
EXTENDS HyperdriveIbc

CONSTANTS
    Users,                  \* accounts with a key: they sign extrinsics
    PalletAccount, EthereumVault, EthereumFeeVault, OperationalFeeAccount,
    Contracts,              \* proxy contract addresses
    Dests,                  \* recipients on Ethereum
    MinTransferAmount, DefaultOutgoingTransferTTL,
    Amounts,                \* amounts of transfers
    InitialSupply,          \* tokens on Ethereum at genesis
    MaxTransfers, MaxEnables \* bounds on nonces

ASSUME TokenAssumption ==
    /\ Users \subseteq Accounts \ {PalletAccount, EthereumVault, EthereumFeeVault}
    /\ {PalletAccount, EthereumVault, EthereumFeeVault} \subseteq Accounts
    /\ EthereumVault # EthereumFeeVault
    /\ OperationalFeeAccount \in Users /\ Relayers \subseteq Users
    /\ Contracts \subseteq Remotes
    /\ MinTransferAmount \in Nat /\ DefaultOutgoingTransferTTL \in Nat
    /\ Amounts \subseteq Nat /\ InitialSupply \in Nat
    /\ MaxTransfers \in Nat /\ MaxEnables \in Nat
    /\ \A m \in RemoteMessages :
          /\ m.payload.amount \in Amounts /\ m.payload.dest \in Users
          /\ m.payload.transfer_nonce \in 0 .. MaxTransfers - 1

\* The genesis configuration endows the fee vault.
ASSUME FeeVaultAssumption == InitialBalances[EthereumFeeVault] >= ExistentialDeposit

VARIABLES
    enabled,                \* Enabled
    ethereumContract,       \* EthereumContract, or None
    outgoingTransfers,      \* OutgoingTransfers: nonce -> transfer, or None
    nextTransferNonce,      \* NextTransferNonce
    incomingTransferNonces, \* IncomingTransferNonces
    nextEnableNonce,        \* NextEnableNonce
    outgoingTransferTTL,    \* OutgoingTransferTTL, or None
    supply,                 \* external: tokens on Ethereum
    proxyMinted,            \* external: transfer nonces minted by the proxy
    proxyBurned             \* external: nonce -> <<amount, dest>>, or None

configVars == <<enabled, ethereumContract, outgoingTransferTTL>>
transferVars == <<outgoingTransfers, nextTransferNonce, nextEnableNonce>>
proxyVars == <<supply, proxyMinted, proxyBurned>>
tokenVars == <<ibcVars, configVars, transferVars, incomingTransferNonces, proxyVars>>

TransferNonces == 0 .. MaxTransfers - 1

\* Action::TransferToken and Action::SetEnabled; asset_id 0 is the native token.
TransferToken(amount, asset_id, transfer_nonce, dest) ==
    [action |-> "TransferToken", amount |-> amount, asset_id |-> asset_id,
     transfer_nonce |-> transfer_nonce, dest |-> dest]

SetEnabledAction(b) == [action |-> "SetEnabled", enabled |-> b]

TransferMessageNonce(n) == <<"transfer", n>>
EnableMessageNonce(n) == <<"enable", n>>

\* OutgoingTransfers: what a transfer is stored as.
OutgoingTransfers == [source : Users, dest : Dests, amount : Amounts]

\* What the pallet sends are messages, and None is none of the values it is
\* told apart from.
ASSUME TransferAssumption ==
    /\ \A n \in TransferNonces : TransferMessageNonce(n) \in Nonces
    /\ \A n \in 0 .. MaxEnables - 1 : EnableMessageNonce(n) \in Nonces
    /\ \A a \in Amounts, n \in TransferNonces, d \in Dests : TransferToken(a, 0, n, d) \in Payloads
    /\ \A b \in BOOLEAN : SetEnabledAction(b) \in Payloads
    /\ None \notin Remotes /\ None \notin OutgoingTransfers /\ None \notin Amounts \X Users

-----------------------------------------------------------------------------
outgoing_transfer_ttl_or_default ==
    IF outgoingTransferTTL = None THEN DefaultOutgoingTransferTTL ELSE outgoingTransferTTL

\* The tail shared by do_transfer_native and do_enable: the fee moves to the
\* fee vault, which pays for the message; the fee of a replaced message goes
\* back to the caller.
FeeMoved(l, source, fee) == Transfer(l, source, EthereumFeeVault, fee)

ReplacedFee(nonce) ==
    IF Replaced(PalletAccount, nonce) = None THEN 0 ELSE Replaced(PalletAccount, nonce).fee

MessageHeld(l, source, nonce, fee) ==
    LedgerAfterSend(FeeMoved(l, source, fee), PalletAccount, EthereumFeeVault, nonce, fee)

CanPayAndSend(l, source, nonce, fee) ==
    /\ ethereumContract # None
    /\ CanTransfer(l, source, EthereumFeeVault, fee)
    /\ CanSendMessage(FeeMoved(l, source, fee), PalletAccount, EthereumFeeVault, nonce,
                      ethereumContract, outgoing_transfer_ttl_or_default, fee)
    /\ CanTransfer(MessageHeld(l, source, nonce, fee), EthereumFeeVault, source, ReplacedFee(nonce))

PayAndSend(l, source, nonce, payload, fee) ==
    /\ do_send_message(PalletAccount, EthereumFeeVault, nonce, ethereumContract, payload,
                       outgoing_transfer_ttl_or_default, fee)
    /\ ledger' = Transfer(MessageHeld(l, source, nonce, fee),
                          EthereumFeeVault, source, ReplacedFee(nonce))
    /\ UNCHANGED <<now, oracles, counter, paid, inVars, remoteVars>>
-----------------------------------------------------------------------------
TransferNative(source, dest, amount, fee) ==
    LET n       == nextTransferNonce
        nonce   == TransferMessageNonce(n)
        vaulted == Transfer(ledger, source, EthereumVault, amount)
    IN  /\ n < MaxTransfers
        /\ enabled
        /\ amount >= MinTransferAmount
        /\ CanTransfer(ledger, source, EthereumVault, amount)
        /\ CanPayAndSend(vaulted, source, nonce, fee)
        /\ PayAndSend(vaulted, source, nonce, TransferToken(amount, 0, n, dest), fee)
        /\ nextTransferNonce' = n + 1
        /\ outgoingTransfers' = [outgoingTransfers EXCEPT ![n] =
              [source |-> source, dest |-> dest, amount |-> amount]]
        /\ UNCHANGED <<configVars, nextEnableNonce, incomingTransferNonces, proxyVars>>

\* What a retry needs besides the caller being the original source.
CanRetry(n, fee) ==
    /\ enabled
    /\ outgoingTransfers[n].amount >= MinTransferAmount
    /\ CanPayAndSend(ledger, outgoingTransfers[n].source, TransferMessageNonce(n), fee)

\* Slip: a retry locks the amount a second time.
RetryTransferNative_locksAgain(source, n, fee) ==
    LET t       == outgoingTransfers[n]
        vaulted == Transfer(ledger, source, EthereumVault, t.amount)
    IN  /\ t # None /\ t.source = source
        /\ enabled /\ t.amount >= MinTransferAmount
        /\ CanTransfer(ledger, source, EthereumVault, t.amount)
        /\ CanPayAndSend(vaulted, source, TransferMessageNonce(n), fee)
        /\ PayAndSend(vaulted, source, TransferMessageNonce(n),
                      TransferToken(t.amount, 0, n, t.dest), fee)
        /\ UNCHANGED <<configVars, transferVars, incomingTransferNonces, proxyVars>>

\* Nothing is locked again: only the fee is paid for another message.
RetryTransferNative(source, n, fee) ==
    LET t == outgoingTransfers[n]
    IN  /\ t # None /\ t.source = source
        /\ CanRetry(n, fee)
        /\ PayAndSend(ledger, source, TransferMessageNonce(n),
                      TransferToken(t.amount, 0, n, t.dest), fee)
        /\ UNCHANGED <<configVars, transferVars, incomingTransferNonces, proxyVars>>

EnableProxyChain(b, fee) ==
    LET nonce == EnableMessageNonce(nextEnableNonce)
    IN  /\ nextEnableNonce < MaxEnables
        /\ CanPayAndSend(ledger, OperationalFeeAccount, nonce, fee)
        /\ PayAndSend(ledger, OperationalFeeAccount, nonce, SetEnabledAction(b), fee)
        /\ nextEnableNonce' = nextEnableNonce + 1
        /\ UNCHANGED <<configVars, outgoingTransfers, nextTransferNonce,
                       incomingTransferNonces, proxyVars>>

UpdateEthereumContract(contract) ==
    /\ ethereumContract' = contract
    /\ UNCHANGED <<ibcVars, enabled, outgoingTransferTTL, transferVars,
                   incomingTransferNonces, proxyVars>>

SetEnabled(b) ==
    /\ enabled' = b
    /\ UNCHANGED <<ibcVars, ethereumContract, outgoingTransferTTL, transferVars,
                   incomingTransferNonces, proxyVars>>

UpdateOutgoingTransferTTL(ttl) ==
    /\ outgoingTransferTTL' = ttl
    /\ UNCHANGED <<ibcVars, enabled, ethereumContract, transferVars,
                   incomingTransferNonces, proxyVars>>
-----------------------------------------------------------------------------
(***************************************************************************)
(* receive_message with the processor: a message to the pallet account     *)
(* from the configured contract that decodes to a transfer of the native   *)
(* token with a new nonce is paid out; the effects of any other message    *)
(* are rolled back, but the message stays recorded as received.            *)
(***************************************************************************)
\* Slip: any contract on the proxy chain is taken for the proxy.
Executable_senderUnchecked(m) ==
    /\ m.recipient = PalletAccount
    /\ m.payload.action = "TransferToken" /\ m.payload.asset_id = 0
    /\ m.payload.transfer_nonce \notin incomingTransferNonces
    /\ CanTransfer(ledger, EthereumVault, m.payload.dest, m.payload.amount)

Executable(m) ==
    /\ m.recipient = PalletAccount
    /\ m.sender = ethereumContract
    /\ m.payload.action = "TransferToken"
    /\ m.payload.asset_id = 0
    /\ m.payload.transfer_nonce \notin incomingTransferNonces
    /\ CanTransfer(ledger, EthereumVault, m.payload.dest, m.payload.amount)

execute(m) ==
    \/ /\ Executable(m)
       /\ incomingTransferNonces' = incomingTransferNonces \cup {m.payload.transfer_nonce}
       /\ ledger' = Transfer(ledger, EthereumVault, m.payload.dest, m.payload.amount)
    \/ /\ ~Executable(m)
       /\ UNCHANGED <<incomingTransferNonces, ledger>>

ReceiveTokenMessage(m, sigs) ==
    /\ AcceptMessage(m, sigs)
    /\ execute(m)
    /\ UNCHANGED <<now, oracles, outVars, remoteVars, configVars, transferVars, proxyVars>>

\* External: the proxy burns tokens and emits the transfer, or emits a
\* transfer it has burned for again; other contracts emit what they like.
ProxyEmit(m) ==
    LET n == m.payload.transfer_nonce
        burn == <<m.payload.amount, m.payload.dest>>
    IN  /\ RemoteEmit(m)
        /\ \/ /\ m.sender \in Contracts /\ m.payload.asset_id = 0
              /\ proxyBurned[n] = None /\ m.payload.amount <= supply
              /\ proxyBurned' = [proxyBurned EXCEPT ![n] = burn]
              /\ supply' = supply - m.payload.amount
           \/ /\ m.sender \in Contracts /\ m.payload.asset_id = 0
              /\ proxyBurned[n] = burn
              /\ UNCHANGED <<proxyBurned, supply>>
           \/ /\ m.sender \notin Contracts \/ m.payload.asset_id # 0
              /\ UNCHANGED <<proxyBurned, supply>>
        /\ UNCHANGED <<proxyMinted, configVars, transferVars, incomingTransferNonces>>

\* External: the proxy executes a delivered message; it mints a transfer
\* nonce once.
ProxyMints(m) ==
    /\ m.payload.action = "TransferToken"
    /\ m.payload.transfer_nonce \notin proxyMinted

ProxyDeliver(m, relayer) ==
    /\ RemoteDeliver(m, relayer)
    /\ IF ProxyMints(m)
       THEN /\ proxyMinted' = proxyMinted \cup {m.payload.transfer_nonce}
            /\ supply' = supply + m.payload.amount
       ELSE UNCHANGED <<proxyMinted, supply>>
    /\ UNCHANGED <<proxyBurned, configVars, transferVars, incomingTransferNonces>>
-----------------------------------------------------------------------------
TokenInit ==
    /\ IbcInit
    /\ enabled = FALSE /\ ethereumContract = None /\ outgoingTransferTTL = None
    /\ outgoingTransfers = [n \in TransferNonces |-> None]
    /\ nextTransferNonce = 0 /\ nextEnableNonce = 0
    /\ incomingTransferNonces = {}
    /\ supply = InitialSupply
    /\ proxyMinted = {} /\ proxyBurned = [n \in TransferNonces |-> None]

\* Steps of hyperdrive-ibc that do not concern the token pallet.
IbcStep ==
    /\ NextBlock \/ Update \/ Confirm \/ Remove \/ Clean
    /\ UNCHANGED <<configVars, transferVars, incomingTransferNonces, proxyVars>>

DoTransfer == \E source \in Users, dest \in Dests, amount \in Amounts, fee \in Fees :
    TransferNative(source, dest, amount, fee)

DoRetry == \E source \in Users, n \in TransferNonces, fee \in Fees :
    RetryTransferNative(source, n, fee)

DoReceive == \E m \in RemoteMessages, sigs \in SignatureLists :
    /\ Obtainable(sigs, m \in emitted)
    /\ ReceiveTokenMessage(m, sigs)

Administer ==
    \/ \E b \in BOOLEAN : SetEnabled(b)
    \/ \E b \in BOOLEAN, fee \in Fees : EnableProxyChain(b, fee)
    \/ \E contract \in Contracts : UpdateEthereumContract(contract)
    \/ \E ttl \in TTLs \cup {None} : UpdateOutgoingTransferTTL(ttl)

Ethereum ==
    \/ \E m \in RemoteMessages : ProxyEmit(m)
    \/ \E m \in sent, relayer \in Relayers : ProxyDeliver(m, relayer)

TokenNext == IbcStep \/ DoTransfer \/ DoRetry \/ DoReceive \/ Administer \/ Ethereum

TokenSpec == TokenInit /\ [][TokenNext]_tokenVars
-----------------------------------------------------------------------------
\* The amounts of the transfers in either direction, as far as there are any.
Locked == [n \in TransferNonces |->
    IF outgoingTransfers[n] = None THEN None ELSE outgoingTransfers[n].amount]
Burned == [n \in TransferNonces |->
    IF proxyBurned[n] = None THEN None ELSE proxyBurned[n][1]]

\* The pallet, the message layer and the proxy together implement the
\* abstract bridge: whatever is retried, replayed, cleaned up or delivered
\* late, a transfer is locked once, minted once, and credited once.
TheBridge == INSTANCE Bridge WITH
    Transfers <- TransferNonces,
    NoAmount  <- None,
    Backing   <- InitialBalances[EthereumVault] - InitialSupply,
    vault     <- ledger.free[EthereumVault],
    supply    <- supply,
    locked    <- Locked,
    minted    <- proxyMinted,
    burned    <- Burned,
    credited  <- incomingTransferNonces

ImplementsBridge == TheBridge!Spec

\* What has left one side and has not arrived on the other.
InTransit(amounts, arrived) ==
    SumOver(amounts, {n \in TransferNonces : amounts[n] # None} \ arrived)

\* The vault holds exactly what circulates on Ethereum, plus what is on its
\* way in either direction, plus its initial surplus.
VaultBacksSupply ==
    ledger.free[EthereumVault] + InitialSupply =
        InitialBalances[EthereumVault] + supply
          + InTransit(Locked, proxyMinted) + InTransit(Burned, incomingTransferNonces)

\* A transfer is never stuck: once its message is gone or over its ttl, the
\* source can retry it with the fee it can afford, because the fee vault can
\* always cover the hold of the new fee and the refund of the old one.
RetryNeverBlocked ==
    \A n \in TransferNonces, fee \in Fees :
        LET t == outgoingTransfers[n]
            pending == Replaced(PalletAccount, TransferMessageNonce(n))
        IN  /\ enabled /\ ethereumContract # None
            /\ t # None
            /\ fee >= MinFee /\ outgoing_transfer_ttl_or_default >= MinTTL
            /\ pending # None => pending.ttl_block < now
            /\ ledger.free[t.source] >= fee + ExistentialDeposit
            => CanRetry(n, fee)
=============================================================================
