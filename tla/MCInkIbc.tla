------------------------------ MODULE MCInkIbc -------------------------------
(* One sender, one relayer, one honest oracle key and a faulty one, on both  *)
(* chains.                                                                   *)
EXTENDS InkIbc, TLC

CONSTANTS alice, proxy, n1, p1, p2

MCBalances == [a \in Accounts |-> 3]

MCWallet == [a \in Accounts \cup {Contract} |-> IF a = alice THEN 3 ELSE 1]

\* Keys lapse in the last block.
MCWindows == {[start_block |-> 0, end_block |-> 3]}

\* What callers of the contract send, test messages included.
MCRemoteMessages ==
    [sender : {proxy}, nonce : {n1}, recipient : {alice}, payload : Payloads]
        \cup {ContractMessage(<<"test", 0>>, alice, alice)}

\* What relayers submit to the contract, sent by alice or not.
MCSubmissions == [sender : {alice}, nonce : {n1}, recipient : {proxy}, payload : Payloads]

MCConfig(paused, publics) ==
    [paused |-> paused, min_delivery_signatures |-> 2, min_receipt_signatures |-> 2,
     min_ttl |-> MinTTL, incoming_ttl |-> 0, publics |-> publics]

MCInitialConfig == MCConfig(FALSE, Faulty)

MCConfigs == {MCInitialConfig, MCConfig(FALSE, Keys), MCConfig(TRUE, Keys)}

PayloadSymmetry == Permutations({p1, p2})

\* The two directions share the oracles and the clocks and nothing else: a
\* behaviour uses one of them.  The contract's clock matters to what it sends.
OneDirection == sent' = {} \/ (messageCounter' = 0 /\ accepted' = {} /\ height' = 0)
=============================================================================
