------------------------------- MODULE InkIbc --------------------------------
(***************************************************************************)
(* The ibc contract of a proxy chain (ink) and its composition with the    *)
(* pallet: what HyperdriveIbc assumes of "another chain" is here the code  *)
(* of the contract, with a clock, a ledger, oracle keys and a              *)
(* configuration of its own.  A call that returns an error or panics       *)
(* changes nothing, so only the successful calls are actions.              *)
(*                                                                         *)
(* All messages of the contract have the contract as their sender, whoever *)
(* called it.  Oracles are the same on both sides: they sign what the      *)
(* storage of the other chain shows, the ones in Faulty sign anything.     *)
(***************************************************************************)
EXTENDS HyperdriveIbc

CONSTANTS Contract,        \* the contract, as a subject and as an account
          Configs,         \* configurations the owner chooses from
          InitialConfig,
          InitialWallet,   \* balances on the proxy chain
          Submissions,     \* messages relayers may submit to the contract
          MaxHeight,       \* bound on the block number of the proxy chain
          MaxMessages      \* bound on the messages the contract sends

\* Whoever calls the contract, the contract is the sender.
ContractMessage(nonce, recipient, payload) ==
    [sender |-> Contract, nonce |-> nonce, recipient |-> recipient, payload |-> payload]

ASSUME ContractAssumption ==
    /\ Contract \in Remotes
    /\ InitialConfig \in Configs
    /\ Configs \subseteq [paused : BOOLEAN, min_delivery_signatures : Nat,
                          min_receipt_signatures : Nat, min_ttl : Nat, incoming_ttl : Nat,
                          publics : SUBSET Keys]
    /\ InitialWallet \in [Accounts \cup {Contract} -> Nat]
    /\ Submissions \subseteq Messages
    /\ MaxHeight \in Nat /\ MaxMessages \in Nat
    /\ \A a, b \in Senders, n \in 0 .. MaxCounter - 1 :
          ContractMessage(<<"test", n>>, a, b) \in RemoteMessages

\* The chain of the contract keeps accounts, contracts included, above the
\* existential deposit: instantiating one transfers it.
ASSUME ContractFundedAssumption == InitialWallet[Contract] >= ExistentialDeposit

\* As many signatures as a faulty group cannot bring together.
ASSUME ContractQuorumAssumption == \A c \in Configs :
    /\ Cardinality(Faulty) < c.min_delivery_signatures
    /\ Cardinality(Faulty) < c.min_receipt_signatures

VARIABLES height,           \* the block number of the proxy chain
          wallet,           \* balances on the proxy chain
          config,           \* Config, and oracle_public_keys as publics
          messageCounter,   \* message_counter
          sending,          \* outgoing: id -> message with meta, or None
          sendingIndex,     \* outgoing_index
          arrived,          \* incoming: id -> message with meta, or None
          arrivedIndex,     \* incoming_index
          relayed,          \* what the pallet recorded: <<message, relayer>>
          claimed           \* history: <<message, relayer>> confirmed at the contract

sendingVars == <<wallet, messageCounter, sending, sendingIndex, claimed>>
arrivedVars == <<arrived, arrivedIndex>>
contractVars == <<height, config, sendingVars, arrivedVars>>
palletVars == <<now, ledger, oracles, outVars, inVars>>
chainsVars == <<ibcVars, contractVars, relayed>>

-----------------------------------------------------------------------------
\* Slip: a key that signs several times counts every time.
recover_all_repeated(sigs, min_signatures) ==
    /\ Len(sigs) >= min_signatures
    /\ \A i \in DOMAIN sigs : sigs[i].verifies /\ sigs[i].key \in config.publics

\* check_signatures of the contract: every signature recovers to a known key,
\* and no key comes twice.
recover_all(sigs, min_signatures) ==
    /\ Len(sigs) >= min_signatures
    /\ \A i \in DOMAIN sigs :
          /\ sigs[i].verifies
          /\ sigs[i].key \in config.publics
          /\ \A j \in 1 .. i - 1 : sigs[j].key # sigs[i].key

\* do_send_message of the contract.  The value that came with the call is the
\* fee; a message over its ttl is replaced, its fee stays with the contract.
Dispatch(m, caller, ttl, fee) ==
    LET id == message_id(m.sender, m.nonce)
    IN  /\ messageCounter < MaxMessages
        /\ ~config.paused
        /\ sending[id] # None => sending[id].ttl_block < height
        /\ ttl >= config.min_ttl
        /\ CanTransfer(wallet, caller, Contract, fee)
        /\ wallet' = Transfer(wallet, caller, Contract, fee)
        /\ sending' = [sending EXCEPT ![id] =
              [message |-> m, ttl_block |-> height + ttl, fee |-> fee, payer |-> caller]]
        /\ sendingIndex' = Append(sendingIndex, id)
        /\ messageCounter' = messageCounter + 1
        /\ emitted' = IF m.recipient \in Accounts THEN emitted \cup {m} ELSE emitted
        /\ UNCHANGED <<palletVars, delivered, height, config, arrivedVars, relayed, claimed>>

ContractSend(m, caller, ttl, fee) == Dispatch(m, caller, ttl, fee)

ContractSendTest(recipient, caller, ttl, fee) ==
    /\ messageCounter < MaxCounter
    /\ Dispatch(ContractMessage(<<"test", messageCounter>>, recipient, caller), caller, ttl, fee)

\* Slip: the message can be confirmed again.
Forget_kept(id) == UNCHANGED <<sending, sendingIndex>>

\* The message leaves the store and, wherever it is, the index.
Forget(id) ==
    /\ sending' = [sending EXCEPT ![id] = None]
    /\ sendingIndex' = SelectSeq(sendingIndex, LAMBDA i : i # id)

\* confirm_message_delivery of the contract: the fee goes to the payer.
ContractConfirm(who, id, sigs) ==
    /\ ~config.paused
    /\ sending[id] # None
    /\ sending[id].ttl_block >= height
    /\ recover_all(sigs, config.min_delivery_signatures)
    /\ CanTransfer(wallet, Contract, sending[id].payer, sending[id].fee)
    /\ wallet' = Transfer(wallet, Contract, sending[id].payer, sending[id].fee)
    /\ Forget(id)
    /\ claimed' = claimed \cup {<<sending[id].message, who>>}
    /\ UNCHANGED <<palletVars, remoteVars, height, config, messageCounter,
                   arrivedVars, relayed>>

\* receive_message of the contract: what is recorded stays recorded whether
\* the call of the recipient succeeds or fails.
ContractReceive(m, who, sigs) ==
    LET id == message_id(m.sender, m.nonce)
    IN  /\ ~config.paused
        /\ m.recipient \in Remotes
        /\ arrived[id] = None
        /\ recover_all(sigs, config.min_receipt_signatures)
        /\ arrived' = [arrived EXCEPT ![id] = [message |-> m, current_block |-> height]]
        /\ arrivedIndex' = Append(arrivedIndex, id)
        /\ delivered' = delivered \cup {<<m, who>>}
        /\ UNCHANGED <<palletVars, emitted, height, config, sendingVars, relayed>>

\* clean_outgoing_index and clean_incoming_index leave the stores alone.
CleanOutgoingIndex ==
    /\ ~config.paused
    /\ sendingIndex' = SelectSeq(sendingIndex,
          LAMBDA i : sending[i] # None /\ height < sending[i].ttl_block)
    /\ UNCHANGED <<palletVars, remoteVars, height, config, wallet, messageCounter,
                   sending, claimed, arrivedVars, relayed>>

CleanIncomingIndex ==
    /\ ~config.paused
    /\ arrivedIndex' = SelectSeq(arrivedIndex,
          LAMBDA i : arrived[i].current_block >
                     IF height > config.incoming_ttl THEN height - config.incoming_ttl ELSE 0)
    /\ UNCHANGED <<palletVars, remoteVars, height, config, sendingVars, arrived, relayed>>

\* configure, by the owner: any part of the configuration and the keys.
Configure(new) ==
    /\ config' = new
    /\ UNCHANGED <<palletVars, remoteVars, height, sendingVars, arrivedVars, relayed>>

ContractBlock ==
    /\ height < MaxHeight
    /\ height' = height + 1
    /\ UNCHANGED <<palletVars, remoteVars, config, sendingVars, arrivedVars, relayed>>

-----------------------------------------------------------------------------
ContractInit ==
    /\ height = 0
    /\ wallet = [free |-> InitialWallet, held |-> [a \in DOMAIN InitialWallet |-> 0]]
    /\ config = InitialConfig
    /\ messageCounter = 0
    /\ sending = [id \in Ids |-> None] /\ sendingIndex = <<>>
    /\ arrived = [id \in Ids |-> None] /\ arrivedIndex = <<>>
    /\ relayed = {} /\ claimed = {}

\* The calls anyone may submit, with the signatures obtainable off-chain.
ContractCalls == \E who \in Relayers, sigs \in SignatureLists :
    \/ \E id \in Ids :
          /\ sending[id] # None
          /\ Obtainable(sigs, <<sending[id].message, who>> \in relayed)
          /\ ContractConfirm(who, id, sigs)
    \/ \E m \in sent \cup Submissions :
          /\ Obtainable(sigs, m \in sent)
          /\ ContractReceive(m, who, sigs)

ContractNext ==
    \/ ContractBlock
    \/ \E new \in Configs : Configure(new)
    \/ CleanOutgoingIndex
    \/ CleanIncomingIndex
    \/ ContractCalls
    \/ \E caller \in Senders, ttl \in TTLs, fee \in Fees :
          \/ \E m \in {r \in RemoteMessages : r.nonce \in Nonces} :
                m.sender = Contract /\ ContractSend(m, caller, ttl, fee)
          \/ \E recipient \in Senders : ContractSendTest(recipient, caller, ttl, fee)

\* A message is received with the name of the relayer that brought it.
ReceiveFrom == \E m \in RemoteMessages, who \in Relayers, sigs \in SignatureLists :
    /\ Obtainable(sigs, m \in emitted)
    /\ ReceiveMessage(m, sigs)
    /\ relayed' = relayed \cup {<<m, who>>}
    /\ UNCHANGED contractVars

\* What the pallet does by itself.
PalletNext ==
    /\ NextBlock \/ Update \/ Send \/ SendTest \/ Confirm \/ Remove \/ Clean
    /\ UNCHANGED <<contractVars, relayed>>

ChainsInit == IbcInit /\ ContractInit

ChainsSpec == ChainsInit /\ [][PalletNext \/ ReceiveFrom \/ ContractNext]_chainsVars
-----------------------------------------------------------------------------
\* The contract is the other chain that HyperdriveIbc assumes: to the pallet
\* each of its steps is one that RemoteEmit or RemoteDeliver allows, with keys
\* that are faulty, retired on one side only or used twice.  So what is proved
\* of IbcSpec holds of the two chains together.
ContractIsRemote == [][Emit \/ Deliver]_remoteVars

\* confirm_message_delivery of the contract pays only for messages that the
\* pallet has accepted from that relayer, although messages are replaced under
\* the same id and the two chains forget them at different times.
ClaimedOnlyIfRelayed == claimed \subseteq relayed

\* The fees of all messages that the contract stores.
PendingFees(out) == SumOver([id \in Outstanding(out) |-> out[id].fee], Outstanding(out))

\* The contract can always pay: what it owns covers the fees of all messages
\* that can still be confirmed, so that "SEVERE: Paying fee to relayer failed"
\* is never reached.
FeesCovered == Reducible(wallet, Contract) >= PendingFees(sending)
=============================================================================
