-------------------------- MODULE MCHyperdriveToken --------------------------
(* One user who bridges out and in and also relays, one honest and one       *)
(* faulty oracle key.  The proxy emits each of its transfers under two       *)
(* message nonces, and a transfer of a foreign asset; a stranger contract    *)
(* sends a message of the same shape.                                        *)
EXTENDS HyperdriveToken

CONSTANTS alice, pallet, vault, feeVault, proxy, stranger, eve

MCBalances == [a \in Accounts |->
    IF a = alice THEN 6 ELSE IF a = vault THEN 3 ELSE ExistentialDeposit]

MCWindows == {[start_block |-> 0, end_block |-> None]}

Outbound == {TransferToken(a, 0, n, eve) : a \in Amounts, n \in 0 .. MaxTransfers - 1}

Inbound == {TransferToken(a, asset, n, alice) :
              a \in Amounts, asset \in {0, 1}, n \in 0 .. MaxTransfers - 1}

MCPayloads == Outbound \cup Inbound \cup {SetEnabledAction(b) : b \in BOOLEAN}
                \cup {[p EXCEPT !.action = "Unknown"] : p \in Inbound}

ProxyNonces == {<<"proxy", i>> : i \in 0 .. 1}

MCNonces == ProxyNonces
              \cup {TransferMessageNonce(n) : n \in 0 .. MaxTransfers - 1}
              \cup {EnableMessageNonce(n) : n \in 0 .. MaxEnables - 1}

MCRemoteMessages ==
    {[sender |-> proxy, nonce |-> n, recipient |-> pallet, payload |-> TransferToken(1, 0, 0, alice)] :
        n \in ProxyNonces}
    \cup {[sender |-> stranger, nonce |-> <<"proxy", 0>>, recipient |-> pallet,
           payload |-> TransferToken(1, 0, 0, alice)]}
    \cup {[sender |-> proxy, nonce |-> <<"proxy", 1>>, recipient |-> pallet,
           payload |-> TransferToken(1, 1, 0, alice)]}

\* One direction at a time: nothing is emitted towards this chain once a
\* message was sent or its ttl configured, and the other way round.
OneDirection == emitted' = {} \/ (sent' = {} /\ outgoingTransferTTL' = None)
=============================================================================
