------------------------- MODULE Hyperdrive_proofs --------------------------
(***************************************************************************)
(* Proofs about the message layer and the two systems built on it, for     *)
(* every set of accounts, keys, nonces and payloads and every value of the *)
(* configuration.                                                          *)
(*                                                                         *)
(* HyperdriveIbc: fees are paid and messages received only for what really *)
(* happened, nothing is received twice, the lookups agree and the held     *)
(* fees are those of the outstanding messages.                             *)
(*                                                                         *)
(* InkIbc: the contract and the pallet together implement the              *)
(* specification of the pallet with "another chain".                       *)
(*                                                                         *)
(* HyperdriveToken: the token pallet on top of the message layer           *)
(* implements the abstract bridge, so the vault backs what circulates on   *)
(* Ethereum and what is under way, and a retry is never blocked, for any   *)
(* number of users, transfers, contracts and messages, in both directions  *)
(* at once.                                                                *)
(***************************************************************************)
EXTENDS InkIbc, HyperdriveToken, Balances_proofs

(***************************************************************************)
(*                         The message layer                               *)
(***************************************************************************)

(***************************************************************************)
(* A signature list that passes check_signatures with a threshold above    *)
(* the number of faulty keys carries a verifying signature of an honest    *)
(* key, so honest oracles have seen what it attests.                       *)
(***************************************************************************)
LEMMA QuorumAttests ==
    ASSUME NEW sigs \in SignatureLists, NEW min \in Nat,
           Cardinality(Faulty) < min,
           check_signatures(sigs, min)
    PROVE  \E i \in DOMAIN sigs : sigs[i].verifies /\ sigs[i].key \notin Faulty
<1>1. IsFiniteSet(ActiveKeys(sigs)) /\ Cardinality(ActiveKeys(sigs)) \in Nat
  <2>1. ActiveKeys(sigs) \subseteq Keys
    BY DEF ActiveKeys
  <2> QED BY <2>1, IbcAssumption, FS_Subset, FS_CardinalityType
<1>2. IsFiniteSet(Faulty) /\ Cardinality(Faulty) \in Nat
  BY IbcAssumption, FS_Subset, FS_CardinalityType
<1>3. ~(ActiveKeys(sigs) \subseteq Faulty)
  <2>1. SUFFICES ASSUME ActiveKeys(sigs) \subseteq Faulty PROVE FALSE
    OBVIOUS
  <2>2. Cardinality(ActiveKeys(sigs)) <= Cardinality(Faulty)
    BY <2>1, <1>2, FS_Subset
  <2> QED BY <2>2, <1>1, <1>2 DEF check_signatures
<1>4. PICK k \in ActiveKeys(sigs) : k \notin Faulty
  BY <1>3
<1>5. PICK n \in 0 .. MaxSignatures : sigs \in [1 .. n -> Entries]
  BY DEF SignatureLists
<1> DEFINE positions == {i \in 1 .. n : sigs[i].key = k}
<1>6. positions # {} /\ positions \subseteq Nat
  BY <1>4, <1>5, IbcAssumption DEF ActiveKeys
<1>7. PICK i \in positions : \A j \in positions : i <= j
  <2>1. \E x \in positions : \A y \in positions : ~ (<<y, x>> \in OpToRel(<, Nat))
    <3> HIDE DEF positions
    <3> QED BY <1>6, NatLessThanWellFounded, WFMin, Zenon
  <2>2. \A x, y \in Nat : y < x => <<y, x>> \in OpToRel(<, Nat)
    BY DEF OpToRel
  <2>3. \E x \in positions : \A y \in positions : ~ (y < x)
    BY <2>1, <2>2, <1>6, Zenon
  <2> QED BY <2>3, <1>6
<1>8. sigs[i].verifies
  <2>1. IsActive(sigs[i].key) /\ i \in DOMAIN sigs
    BY <1>4, <1>5, <1>7 DEF ActiveKeys
  <2>2. ~ \E j \in 1 .. i - 1 : sigs[j].key = sigs[i].key
    BY <1>5, <1>7, IbcAssumption
  <2> QED BY <2>1, <2>2 DEF check_signatures
<1>9. i \in DOMAIN sigs /\ sigs[i].key = k
  BY <1>5, <1>7
<1> QED BY <1>4, <1>8, <1>9

(***************************************************************************)
(* Sending a message on a ledger l keeps the types.                        *)
(***************************************************************************)
LEMMA SendLedgerType ==
    ASSUME IbcTypeOK,
           NEW l \in Ledgers, NEW sender \in Accounts, NEW payer \in Accounts,
           NEW nonce \in MessageNonces, NEW recipient, NEW ttl, NEW fee \in Nat,
           CanSendMessage(l, sender, payer, nonce, recipient, ttl, fee)
    PROVE  LedgerAfterSend(l, sender, payer, nonce, fee) \in Ledgers
<1>1. Replaced(sender, nonce) \in OutgoingMessages \cup {None}
  BY DEF IbcTypeOK, Replaced, message_id, Ids, Subjects
<1>2. ReleaseReplaced(l, sender, nonce) \in Ledgers
  <2>1. CASE Replaced(sender, nonce) = None
    BY <2>1 DEF ReleaseReplaced
  <2>2. CASE Replaced(sender, nonce) # None
    <3>1. /\ Replaced(sender, nonce).payer \in Accounts
          /\ Replaced(sender, nonce).fee \in Nat
      BY <1>1, <2>2 DEF OutgoingMessages
    <3>2. CanRelease(l, Replaced(sender, nonce).payer, Replaced(sender, nonce).fee)
      BY <2>2 DEF CanSendMessage
    <3> QED BY <2>2, <3>1, <3>2, ReleaseType DEF ReleaseReplaced
  <2> QED BY <2>1, <2>2
<1>3. CanHold(ReleaseReplaced(l, sender, nonce), payer, fee)
  BY DEF CanSendMessage
<1> QED BY <1>2, <1>3, HoldType DEF LedgerAfterSend

\* do_send_message: the message it stores is well typed.
LEMMA SendMessageType ==
    ASSUME IbcTypeOK,
           NEW sender \in Accounts, NEW payer \in Accounts, NEW nonce \in MessageNonces,
           NEW recipient \in Subjects, NEW payload \in Payloads \cup Accounts,
           NEW ttl \in Nat, NEW fee \in Nat,
           do_send_message(sender, payer, nonce, recipient, payload, ttl, fee)
    PROVE  /\ outgoing' \in [Ids -> OutgoingMessages \cup {None}]
           /\ outgoingLookup' \subseteq Subjects \X MessageNonces
           /\ sent' \subseteq Messages
<1> DEFINE m == [sender |-> sender, nonce |-> nonce, recipient |-> recipient, payload |-> payload]
<1>1. sender \in Subjects /\ m \in Messages
  BY DEF Subjects, Messages
<1>2. [message |-> m, ttl_block |-> now + ttl, fee |-> fee, payer |-> payer] \in OutgoingMessages
  BY <1>1 DEF IbcTypeOK, OutgoingMessages
<1> QED BY <1>1, <1>2 DEF IbcTypeOK, do_send_message, message_id, Ids

(***************************************************************************)
(* Type correctness.                                                       *)
(***************************************************************************)
\* The genesis state is well typed.
LEMMA InitType == IbcInit => IbcTypeOK
<1> SUFFICES ASSUME IbcInit PROVE IbcTypeOK
  OBVIOUS
<1>1. ledger \in Ledgers
  BY IbcAssumption DEF IbcInit, Ledgers
<1> QED BY <1>1, IbcAssumption DEF IbcInit, IbcTypeOK

\* Every extrinsic and every step of the other chain keeps the types.
LEMMA NextType == IbcTypeOK /\ [IbcNext]_ibcVars => IbcTypeOK'
<1> SUFFICES ASSUME IbcTypeOK, [IbcNext]_ibcVars PROVE IbcTypeOK'
  OBVIOUS
<1> USE DEF ibcVars, outVars, inVars, remoteVars
<1>1. CASE NextBlock
  BY <1>1 DEF NextBlock, IbcTypeOK
<1>2. CASE Update
  BY <1>2 DEF Update, UpdateOracles, IbcTypeOK
<1>3. CASE Send
  <2>1. PICK sender \in Senders, payer \in Accounts, nonce \in Nonces, recipient \in Subjects,
             payload \in Payloads, ttl \in TTLs, fee \in Fees :
          SendMessage(sender, payer, nonce, recipient, payload, ttl, fee)
    BY <1>3 DEF Send
  <2>2. sender \in Accounts /\ nonce \in MessageNonces /\ ttl \in Nat /\ fee \in Nat
    BY IbcAssumption DEF MessageNonces
  <2>3. ledger' \in Ledgers
    BY <2>1, <2>2, SendLedgerType DEF SendMessage, IbcTypeOK
  <2>4. /\ outgoing' \in [Ids -> OutgoingMessages \cup {None}]
        /\ outgoingLookup' \subseteq Subjects \X MessageNonces
        /\ sent' \subseteq Messages
    BY <2>1, <2>2, SendMessageType DEF SendMessage
  <2> QED BY <2>1, <2>3, <2>4 DEF SendMessage, IbcTypeOK
<1>4. CASE SendTest
  <2>1. PICK who \in Senders, recipient \in Subjects, ttl \in TTLs, fee \in Fees :
          SendTestMessage(who, recipient, ttl, fee)
    BY <1>4 DEF SendTest
  <2>2. who \in Accounts /\ <<"test", counter>> \in MessageNonces /\ ttl \in Nat /\ fee \in Nat
    BY IbcAssumption DEF MessageNonces, IbcTypeOK
  <2>3. ledger' \in Ledgers
    BY <2>1, <2>2, SendLedgerType DEF SendTestMessage, IbcTypeOK
  <2>4. /\ outgoing' \in [Ids -> OutgoingMessages \cup {None}]
        /\ outgoingLookup' \subseteq Subjects \X MessageNonces
        /\ sent' \subseteq Messages
    BY <2>1, <2>2, SendMessageType DEF SendTestMessage
  <2>5. counter' \in 0 .. MaxCounter
    BY <2>1, IbcAssumption DEF SendTestMessage, IbcTypeOK
  <2> QED BY <2>1, <2>3, <2>4, <2>5 DEF SendTestMessage, IbcTypeOK
<1>5. CASE Confirm
  <2>1. PICK who \in Relayers, id \in Ids, sigs \in SignatureLists :
          outgoing[id] # None /\ ConfirmMessageDelivery(who, id, sigs)
    BY <1>5 DEF Confirm
  <2>2. who \in Accounts /\ outgoing[id] \in OutgoingMessages
    BY <2>1, IbcAssumption DEF IbcTypeOK
  <2>3. ledger' \in Ledgers
    BY <2>1, <2>2, TransferOnHoldType DEF ConfirmMessageDelivery, IbcTypeOK, OutgoingMessages
  <2>4. paid' \subseteq Messages \X Accounts
    BY <2>1, <2>2 DEF ConfirmMessageDelivery, IbcTypeOK, OutgoingMessages
  <2> QED BY <2>1, <2>3, <2>4 DEF ConfirmMessageDelivery, ClearOutgoing, IbcTypeOK
<1>6. CASE Remove
  <2>1. PICK id \in Ids : RemoveMessage(id)
    BY <1>6 DEF Remove
  <2>2. outgoing[id] \in OutgoingMessages
    BY <2>1 DEF IbcTypeOK, RemoveMessage
  <2>3. ledger' \in Ledgers
    BY <2>1, <2>2, ReleaseBestEffortType DEF RemoveMessage, IbcTypeOK, OutgoingMessages
  <2> QED BY <2>1, <2>3 DEF RemoveMessage, ClearOutgoing, IbcTypeOK
<1>7. CASE Receive
  <2>1. PICK m \in RemoteMessages, sigs \in SignatureLists : ReceiveMessage(m, sigs)
    BY <1>7 DEF Receive
  <2>2. m \in Messages /\ message_id(m.sender, m.nonce) \in Ids
    BY RemoteMessagesAssumption DEF Messages, message_id, Ids
  <2>3. [message |-> m, current_block |-> now] \in IncomingMessages
    BY <2>2 DEF IbcTypeOK, IncomingMessages
  <2>4. m.recipient \in Subjects
    BY <2>2 DEF Messages
  <2> QED BY <2>1, <2>2, <2>3, <2>4 DEF ReceiveMessage, AcceptMessage, IbcTypeOK
<1>8. CASE Clean
  BY <1>8 DEF Clean, CleanIncoming, IbcTypeOK
<1>9. CASE Emit
  BY <1>9, RemoteMessagesAssumption DEF Emit, RemoteEmit, IbcTypeOK
<1>10. CASE Deliver
  BY <1>10, IbcAssumption DEF Deliver, RemoteDeliver, IbcTypeOK
<1>11. CASE UNCHANGED ibcVars
  BY <1>11 DEF IbcTypeOK
<1> QED
  BY <1>1, <1>2, <1>3, <1>4, <1>5, <1>6, <1>7, <1>8, <1>9, <1>10, <1>11 DEF IbcNext

\* Every reachable state of the message layer is well typed; in particular no
\* balance and no hold ever becomes negative.
THEOREM TypeCorrect == IbcSpec => []IbcTypeOK
<1> QED BY InitType, NextType, PTL DEF IbcSpec

(***************************************************************************)
(* The safety invariants need to know that a message is stored under its   *)
(* own id, and what the history of receipts says about the records.        *)
(***************************************************************************)
OutgoingKeyed ==
    \A id \in Ids : outgoing[id] # None =>
        message_id(outgoing[id].message.sender, outgoing[id].message.nonce) = id

\* A recorded message was received at its block; an id without a record that
\* was received before was cleaned up after IncomingTTL.
ReceiptsRecorded ==
    \A id \in Ids :
        /\ incoming[id] # None => lastReceipt[id] = incoming[id].current_block
        /\ incoming[id] = None /\ lastReceipt[id] # None => lastReceipt[id] + IncomingTTL < now

SafetyInv ==
    /\ OutgoingKeyed
    /\ OutgoingLookupConsistent
    /\ IncomingLookupConsistent
    /\ PaidOnlyForDelivery
    /\ AcceptedOnlyIfEmitted
    /\ ReceiptsRecorded

\* With no message and no receipt the safety invariant holds.
LEMMA InitSafety == IbcInit => SafetyInv
BY DEF IbcInit, SafetyInv, OutgoingKeyed, OutgoingLookupConsistent, IncomingLookupConsistent,
       PaidOnlyForDelivery, AcceptedOnlyIfEmitted, ReceiptsRecorded

\* do_send_message, also when it replaces an expired message, keeps message
\* map and lookup in step.
LEMMA SendSafety ==
    ASSUME IbcTypeOK, OutgoingKeyed, OutgoingLookupConsistent,
           NEW sender \in Accounts, NEW payer \in Accounts, NEW nonce \in MessageNonces,
           NEW recipient \in Subjects, NEW payload \in Payloads \cup Accounts,
           NEW ttl \in Nat, NEW fee \in Nat,
           do_send_message(sender, payer, nonce, recipient, payload, ttl, fee)
    PROVE  OutgoingKeyed' /\ OutgoingLookupConsistent'
<1> DEFINE id == message_id(sender, nonce)
           m  == [sender |-> sender, nonce |-> nonce, recipient |-> recipient, payload |-> payload]
           om == [message |-> m, ttl_block |-> now + ttl, fee |-> fee, payer |-> payer]
<1>1. id \in Ids /\ om \in OutgoingMessages
  BY DEF message_id, Ids, Subjects, OutgoingMessages, Messages, IbcTypeOK
<1>2. outgoing' = [outgoing EXCEPT ![id] = om] /\ outgoingLookup' = outgoingLookup \cup {id}
  BY DEF do_send_message, message_id
<1>3. om # None /\ message_id(om.message.sender, om.message.nonce) = id
  BY <1>1, NoneAssumption
<1>4. outgoing \in [Ids -> OutgoingMessages \cup {None}]
  BY DEF IbcTypeOK
<1> HIDE DEF id, om
<1> QED BY <1>1, <1>2, <1>3, <1>4 DEF OutgoingKeyed, OutgoingLookupConsistent

\* So does the removal of a message on confirmation or by remove_message.
LEMMA ClearSafety ==
    ASSUME IbcTypeOK, OutgoingKeyed, OutgoingLookupConsistent,
           NEW id \in Ids, outgoing[id] # None, ClearOutgoing(id)
    PROVE  OutgoingKeyed' /\ OutgoingLookupConsistent'
<1>1. <<outgoing[id].message.sender, outgoing[id].message.nonce>> = id
  BY DEF OutgoingKeyed, message_id
<1>2. outgoing' = [outgoing EXCEPT ![id] = None] /\ outgoingLookup' = outgoingLookup \ {id}
  BY <1>1 DEF ClearOutgoing
<1> QED BY <1>2 DEF OutgoingKeyed, OutgoingLookupConsistent, IbcTypeOK

\* Every step keeps the safety invariant.
LEMMA NextSafety == IbcTypeOK /\ SafetyInv /\ [IbcNext]_ibcVars => SafetyInv'
<1> SUFFICES ASSUME IbcTypeOK, SafetyInv, [IbcNext]_ibcVars PROVE SafetyInv'
  OBVIOUS
<1> USE DEF ibcVars, outVars, inVars, remoteVars
<1> DEFINE OutInv == OutgoingKeyed /\ OutgoingLookupConsistent
           InInv  == IncomingLookupConsistent /\ ReceiptsRecorded
<1>a. ASSUME UNCHANGED <<outgoing, outgoingLookup>> PROVE OutInv'
  BY <1>a DEF SafetyInv, OutgoingKeyed, OutgoingLookupConsistent
<1>b. ASSUME UNCHANGED <<incoming, incomingLookup, lastReceipt, now>> PROVE InInv'
  BY <1>b DEF SafetyInv, IncomingLookupConsistent, ReceiptsRecorded
<1>c. ASSUME UNCHANGED paid, delivered \subseteq delivered' PROVE PaidOnlyForDelivery'
  BY <1>c DEF SafetyInv, PaidOnlyForDelivery
<1>d. ASSUME UNCHANGED accepted, emitted \subseteq emitted' PROVE AcceptedOnlyIfEmitted'
  BY <1>d DEF SafetyInv, AcceptedOnlyIfEmitted
<1>1. CASE NextBlock
  <2>1. InInv'
    BY <1>1, IbcAssumption DEF NextBlock, SafetyInv, IncomingLookupConsistent, ReceiptsRecorded,
                               IbcTypeOK
  <2> QED BY <1>1, <2>1, <1>a, <1>c, <1>d DEF NextBlock, SafetyInv
<1>2. CASE Update
  BY <1>2, <1>a, <1>b, <1>c, <1>d DEF Update, UpdateOracles, SafetyInv
<1>3. CASE Send
  <2>1. PICK sender \in Senders, payer \in Accounts, nonce \in Nonces, recipient \in Subjects,
             payload \in Payloads, ttl \in TTLs, fee \in Fees :
          SendMessage(sender, payer, nonce, recipient, payload, ttl, fee)
    BY <1>3 DEF Send
  <2>2. sender \in Accounts /\ nonce \in MessageNonces /\ ttl \in Nat /\ fee \in Nat
    BY IbcAssumption DEF MessageNonces
  <2>3. OutInv'
    BY <2>1, <2>2, SendSafety DEF SendMessage, SafetyInv
  <2> QED BY <2>1, <2>3, <1>b, <1>c, <1>d DEF SendMessage, SafetyInv
<1>4. CASE SendTest
  <2>1. PICK who \in Senders, recipient \in Subjects, ttl \in TTLs, fee \in Fees :
          SendTestMessage(who, recipient, ttl, fee)
    BY <1>4 DEF SendTest
  <2>2. who \in Accounts /\ <<"test", counter>> \in MessageNonces /\ ttl \in Nat /\ fee \in Nat
    BY IbcAssumption DEF MessageNonces, IbcTypeOK
  <2>3. OutInv'
    BY <2>1, <2>2, SendSafety DEF SendTestMessage, SafetyInv
  <2> QED BY <2>1, <2>3, <1>b, <1>c, <1>d DEF SendTestMessage, SafetyInv
<1>5. CASE Confirm
  <2>1. PICK who \in Relayers, id \in Ids, sigs \in SignatureLists :
          /\ outgoing[id] # None
          /\ Obtainable(sigs, <<outgoing[id].message, who>> \in delivered)
          /\ ConfirmMessageDelivery(who, id, sigs)
    BY <1>5 DEF Confirm
  <2>2. OutInv'
    BY <2>1, ClearSafety DEF ConfirmMessageDelivery, SafetyInv
  <2>3. <<outgoing[id].message, who>> \in delivered
    BY <2>1, QuorumAttests, QuorumAssumption DEF ConfirmMessageDelivery, Obtainable
  <2>4. PaidOnlyForDelivery'
    BY <2>1, <2>3 DEF ConfirmMessageDelivery, SafetyInv, PaidOnlyForDelivery
  <2> QED BY <2>1, <2>2, <2>4, <1>b, <1>d DEF ConfirmMessageDelivery, SafetyInv
<1>6. CASE Remove
  <2>1. PICK id \in Ids : RemoveMessage(id)
    BY <1>6 DEF Remove
  <2>2. OutInv'
    BY <2>1, ClearSafety DEF RemoveMessage, SafetyInv
  <2> QED BY <2>1, <2>2, <1>b, <1>c, <1>d DEF RemoveMessage, SafetyInv
<1>7. CASE Receive
  <2>1. PICK m \in RemoteMessages, sigs \in SignatureLists :
          Obtainable(sigs, m \in emitted) /\ ReceiveMessage(m, sigs)
    BY <1>7 DEF Receive
  <2> DEFINE id == message_id(m.sender, m.nonce)
             im == [message |-> m, current_block |-> now]
  <2>2. m \in emitted
    BY <2>1, QuorumAttests, QuorumAssumption DEF ReceiveMessage, AcceptMessage, Obtainable
  <2>3. id \in Ids /\ im \in IncomingMessages /\ im # None
    BY RemoteMessagesAssumption, NoneAssumption
       DEF Messages, message_id, Ids, IncomingMessages, IbcTypeOK
  <2>4. /\ incoming[id] = None
        /\ incoming' = [incoming EXCEPT ![id] = im]
        /\ incomingLookup' = incomingLookup \cup {<<m.recipient, id>>}
        /\ lastReceipt' = [lastReceipt EXCEPT ![id] = now]
        /\ now' = now
    BY <2>1 DEF ReceiveMessage, AcceptMessage
  <2>5. incoming \in [Ids -> IncomingMessages \cup {None}] /\ lastReceipt \in [Ids -> Nat \cup {None}]
    BY DEF IbcTypeOK
  <2>6. AcceptedOnlyIfEmitted'
    BY <2>1, <2>2 DEF ReceiveMessage, AcceptMessage, SafetyInv, AcceptedOnlyIfEmitted
  <2>7. im.message.recipient = m.recipient /\ im.current_block = now
    OBVIOUS
  <2> HIDE DEF id, im
  <2>8. IncomingLookupConsistent'
    BY <2>3, <2>4, <2>5, <2>7 DEF SafetyInv, IncomingLookupConsistent
  <2>9. ReceiptsRecorded'
    BY <2>3, <2>4, <2>5, <2>7 DEF SafetyInv, ReceiptsRecorded
  <2> QED BY <2>1, <2>6, <2>8, <2>9, <1>a, <1>c DEF ReceiveMessage, SafetyInv
<1>8. CASE Clean
  <2>1. PICK ids \in SUBSET {id \in Ids : incoming[id] # None} : CleanIncoming(ids)
    BY <1>8 DEF Clean
  <2>2. IncomingLookupConsistent'
    <3>1. \A id \in Ids : incoming'[id] = IF id \in Expired(ids) THEN None ELSE incoming[id]
      BY <2>1 DEF CleanIncoming
    <3>2. \A id \in Expired(ids) : id \in Ids
      BY <2>1 DEF Expired
    <3> QED BY <2>1, <3>1, <3>2 DEF CleanIncoming, SafetyInv, IncomingLookupConsistent
  <2>3. ReceiptsRecorded'
    <3> SUFFICES ASSUME NEW id \in Ids
                 PROVE  /\ incoming'[id] # None => lastReceipt'[id] = incoming'[id].current_block
                        /\ incoming'[id] = None /\ lastReceipt'[id] # None
                              => lastReceipt'[id] + IncomingTTL < now'
      BY DEF ReceiptsRecorded
    <3>1. lastReceipt' = lastReceipt /\ now' = now
      BY <2>1 DEF CleanIncoming
    <3>2. CASE id \in Expired(ids)
      BY <3>1, <3>2, <2>1 DEF CleanIncoming, Expired, SafetyInv, ReceiptsRecorded
    <3>3. CASE id \notin Expired(ids)
      BY <3>1, <3>3, <2>1 DEF CleanIncoming, SafetyInv, ReceiptsRecorded
    <3> QED BY <3>2, <3>3
  <2> QED BY <2>1, <2>2, <2>3, <1>a, <1>c, <1>d DEF CleanIncoming, SafetyInv
<1>9. CASE Emit
  <2>1. emitted \subseteq emitted' /\ UNCHANGED <<now, outVars, inVars, delivered>>
    BY <1>9 DEF Emit, RemoteEmit
  <2> QED BY <2>1, <1>a, <1>b, <1>c, <1>d DEF SafetyInv
<1>10. CASE Deliver
  <2>1. delivered \subseteq delivered' /\ UNCHANGED <<now, outVars, inVars, emitted>>
    BY <1>10 DEF Deliver, RemoteDeliver
  <2> QED BY <2>1, <1>a, <1>b, <1>c, <1>d DEF SafetyInv
<1>11. CASE UNCHANGED ibcVars
  BY <1>11, <1>a, <1>b, <1>c, <1>d DEF SafetyInv
<1> QED
  BY <1>1, <1>2, <1>3, <1>4, <1>5, <1>6, <1>7, <1>8, <1>9, <1>10, <1>11 DEF IbcNext

\* send_message, confirm_message_delivery, remove_message, receive_message and
\* clean_incoming keep the whole safety invariant.
THEOREM SafetyCorrect == IbcSpec => []SafetyInv
<1> QED BY InitType, NextType, InitSafety, NextSafety, PTL DEF IbcSpec

\* confirm_message_delivery pays a relayer only for a message it delivered, as
\* long as fewer keys are faulty than a quorum needs.
THEOREM PaidOnlyForDeliveryCorrect == IbcSpec => []PaidOnlyForDelivery
<1>1. SafetyInv => PaidOnlyForDelivery
  BY DEF SafetyInv
<1> QED BY <1>1, SafetyCorrect, PTL

\* receive_message accepts only messages that another chain emitted, under
\* the same assumption on the oracles.
THEOREM AcceptedOnlyIfEmittedCorrect == IbcSpec => []AcceptedOnlyIfEmitted
<1>1. SafetyInv => AcceptedOnlyIfEmitted
  BY DEF SafetyInv
<1> QED BY <1>1, SafetyCorrect, PTL

\* The lookup maps of both directions stay in step with the message maps.
THEOREM LookupsCorrect == IbcSpec => []LookupsConsistent
<1>1. SafetyInv => LookupsConsistent
  BY DEF SafetyInv, LookupsConsistent
<1> QED BY <1>1, SafetyCorrect, PTL

\* A message id is accepted a second time only after IncomingTTL blocks.
THEOREM NoReplayCorrect == IbcSpec => NoReplayWithinTTL
<1> DEFINE A == \A id \in Ids :
          lastReceipt'[id] # lastReceipt[id] /\ lastReceipt[id] # None
             => now > lastReceipt[id] + IncomingTTL
<1>1. IbcTypeOK /\ SafetyInv /\ [IbcNext]_ibcVars => [A]_ibcVars
  <2> SUFFICES ASSUME IbcTypeOK, SafetyInv, IbcNext, NEW id \in Ids,
                      lastReceipt'[id] # lastReceipt[id], lastReceipt[id] # None
               PROVE  now > lastReceipt[id] + IncomingTTL
    OBVIOUS
  <2>1. \E m \in RemoteMessages : /\ incoming[message_id(m.sender, m.nonce)] = None
                                  /\ lastReceipt' = [lastReceipt EXCEPT ![message_id(m.sender, m.nonce)] = now]
    <3>1. CASE Receive
      BY <3>1 DEF Receive, ReceiveMessage, AcceptMessage
    <3>2. CASE ~Receive
      <4>1. lastReceipt' = lastReceipt
        BY <3>2 DEF IbcNext, NextBlock, Update, UpdateOracles, Send, SendMessage, SendTest,
             SendTestMessage, Confirm, ConfirmMessageDelivery, Remove, RemoveMessage, Clean,
             CleanIncoming, Emit, RemoteEmit, Deliver, RemoteDeliver, inVars
      <4> QED BY <4>1
    <3> QED BY <3>1, <3>2
  <2>2. incoming[id] = None
    BY <2>1 DEF IbcTypeOK
  <2> QED BY <2>2, IbcAssumption DEF SafetyInv, ReceiptsRecorded, IbcTypeOK
<1> QED BY <1>1, TypeCorrect, SafetyCorrect, PTL DEF IbcSpec, NoReplayWithinTTL

(***************************************************************************)
(* What is held is what is owed.  A sum over the outstanding messages is   *)
(* known to change with one message only if there are finitely many, which *)
(* is part of the invariant: Ids itself need not be finite.                *)
(***************************************************************************)
\* Fees of outstanding messages are natural numbers, and so is their sum.
LEMMA OwedFeesType ==
    ASSUME NEW out \in [Ids -> OutgoingMessages \cup {None}], IsFiniteSet(Outstanding(out)),
           NEW a \in Accounts
    PROVE  /\ IsFiniteSet(OwedBy(out, a))
           /\ \A id \in OwedBy(out, a) : [i \in OwedBy(out, a) |-> out[i].fee][id] \in Nat
           /\ OwedFees(out, a) \in Nat
           /\ \A id \in OwedBy(out, a) : out[id].fee <= OwedFees(out, a)
<1> DEFINE S == OwedBy(out, a)
           f == [i \in S |-> out[i].fee]
<1>1. S \subseteq Outstanding(out) /\ IsFiniteSet(S)
  <2>1. S \subseteq Outstanding(out)
    BY DEF OwedBy, Outstanding
  <2> QED BY <2>1, FS_Subset
<1>2. \A id \in S : f[id] \in Nat /\ f[id] = out[id].fee
  BY DEF OwedBy, OutgoingMessages
<1>3. OwedFees(out, a) = SumOver(f, S)
  BY DEF OwedFees
<1> HIDE DEF S, f
<1>4. SumOver(f, S) \in Nat /\ \A id \in S : f[id] <= SumOver(f, S)
  BY <1>1, <1>2, SumNat, SumBounds
<1>5. \A id \in S : out[id].fee <= SumOver(f, S)
  BY <1>2, <1>4
<1> QED BY <1>1, <1>2, <1>3, <1>4, <1>5 DEF S, f

\* A message less: its payer owes its fee less, nobody else's debt changes.
LEMMA OwedFeesClear ==
    ASSUME NEW out \in [Ids -> OutgoingMessages \cup {None}], IsFiniteSet(Outstanding(out)),
           NEW new \in [Ids -> OutgoingMessages \cup {None}], NEW a \in Accounts,
           NEW id \in Ids, out[id] # None, new[id] = None,
           \A i \in Ids : i # id => new[i] = out[i]
    PROVE  OwedFees(new, a) =
              OwedFees(out, a) - (IF a = out[id].payer THEN out[id].fee ELSE 0)
<1> DEFINE S == OwedBy(out, a)
           T == OwedBy(new, a)
           f == [i \in S |-> out[i].fee]
           g == [i \in T |-> new[i].fee]
<1>1. IsFiniteSet(S) /\ (\A i \in S : f[i] \in Nat) /\ OwedFees(out, a) \in Nat
  BY OwedFeesType
<1>2. OwedFees(out, a) = SumOver(f, S) /\ OwedFees(new, a) = SumOver(g, T)
  BY DEF OwedFees
<1>3. CASE a = out[id].payer
  <2>1. id \in S /\ T = S \ {id} /\ f[id] = out[id].fee
    BY <1>3 DEF OwedBy
  <2>2. \A i \in S : i # id => g[i] = f[i]
    <3>1. \A i \in S : i # id => i \in T
      BY <2>1
    <3>2. \A i \in T : g[i] = out[i].fee
      BY DEF OwedBy
    <3> QED BY <3>1, <3>2
  <2> HIDE DEF S, T, f, g
  <2>3. SumOver(g, S \ {id}) = SumOver(f, S) - f[id]
    BY <1>1, <2>1, <2>2, SumRemove
  <2> QED BY <1>2, <1>3, <2>1, <2>3
<1>4. CASE a # out[id].payer
  <2>1. T = S
    BY <1>4, NoneAssumption DEF OwedBy
  <2>2. f = g
    BY <1>4, <2>1 DEF OwedBy
  <2> HIDE DEF S, T, f, g
  <2> QED BY <1>1, <1>2, <1>4, <2>1, <2>2
<1> QED BY <1>3, <1>4

\* A message more: its payer owes its fee more.
LEMMA OwedFeesPut ==
    ASSUME NEW out \in [Ids -> OutgoingMessages \cup {None}], IsFiniteSet(Outstanding(out)),
           NEW new \in [Ids -> OutgoingMessages \cup {None}], NEW a \in Accounts,
           NEW id \in Ids, out[id] = None, new[id] # None,
           \A i \in Ids : i # id => new[i] = out[i]
    PROVE  OwedFees(new, a) =
              OwedFees(out, a) + (IF a = new[id].payer THEN new[id].fee ELSE 0)
<1> DEFINE S == OwedBy(out, a)
           T == OwedBy(new, a)
           f == [i \in S |-> out[i].fee]
           g == [i \in T |-> new[i].fee]
<1>1. IsFiniteSet(S) /\ (\A i \in S : f[i] \in Nat) /\ OwedFees(out, a) \in Nat
  BY OwedFeesType
<1>2. OwedFees(out, a) = SumOver(f, S) /\ OwedFees(new, a) = SumOver(g, T)
  BY DEF OwedFees
<1>3. new[id].fee \in Nat
  BY DEF OutgoingMessages
<1>4. CASE a = new[id].payer
  <2>1. id \notin S /\ T = S \cup {id}
    BY <1>3, <1>4 DEF OwedBy
  <2>2. g[id] = new[id].fee /\ \A i \in S : g[i] = f[i]
    BY <2>1 DEF OwedBy
  <2> HIDE DEF S, T, f, g
  <2>3. SumOver(g, S \cup {id}) = SumOver(f, S) + g[id]
    BY <1>1, <1>3, <2>1, <2>2, SumInsert
  <2> QED BY <1>2, <1>4, <2>1, <2>2, <2>3
<1>5. CASE a # new[id].payer
  <2>1. T = S
    BY <1>3, <1>5 DEF OwedBy
  <2>2. f = g
    BY <1>5, <2>1 DEF OwedBy
  <2> HIDE DEF S, T, f, g
  <2> QED BY <1>1, <1>2, <1>5, <2>1, <2>2
<1> QED BY <1>4, <1>5

HeldInv == IsFiniteSet(Outstanding(outgoing)) /\ HeldIsOwedFees

\* do_send_message, on a ledger whose holds are those of the state: the fee of
\* a replaced message is released to its payer, that of the new one is held.
LEMMA SendHeld ==
    ASSUME IbcTypeOK, HeldInv,
           NEW l \in Ledgers, l.held = ledger.held,
           NEW sender \in Accounts, NEW payer \in Accounts, NEW nonce \in MessageNonces,
           NEW recipient \in Subjects, NEW payload \in Payloads \cup Accounts,
           NEW ttl \in Nat, NEW fee \in Nat,
           CanSendMessage(l, sender, payer, nonce, recipient, ttl, fee),
           do_send_message(sender, payer, nonce, recipient, payload, ttl, fee)
    PROVE  /\ IsFiniteSet(Outstanding(outgoing'))
           /\ \A a \in Accounts : LedgerAfterSend(l, sender, payer, nonce, fee).held[a]
                                    = OwedFees(outgoing', a)
<1> DEFINE id  == message_id(sender, nonce)
           m   == [sender |-> sender, nonce |-> nonce, recipient |-> recipient, payload |-> payload]
           om  == [message |-> m, ttl_block |-> now + ttl, fee |-> fee, payer |-> payer]
           old == outgoing[id]
           mid == IF old = None THEN outgoing ELSE [outgoing EXCEPT ![id] = None]
           r   == ReleaseReplaced(l, sender, nonce)
<1>1. /\ id \in Ids /\ om \in OutgoingMessages /\ om.fee = fee /\ om.payer = payer
      /\ outgoing' = [outgoing EXCEPT ![id] = om]
      /\ outgoing \in [Ids -> OutgoingMessages \cup {None}]
  BY DEF message_id, Ids, Subjects, OutgoingMessages, Messages, IbcTypeOK, do_send_message
<1>2. old \in OutgoingMessages \cup {None} /\ old = Replaced(sender, nonce)
  BY <1>1 DEF Replaced
<1>3. /\ mid \in [Ids -> OutgoingMessages \cup {None}] /\ mid[id] = None
      /\ outgoing' = [mid EXCEPT ![id] = om]
      /\ IsFiniteSet(Outstanding(mid))
  <2>1. Outstanding(mid) \subseteq Outstanding(outgoing)
    BY <1>1 DEF Outstanding
  <2> QED BY <1>1, <2>1, FS_Subset DEF HeldInv
<1>4. IsFiniteSet(Outstanding(outgoing'))
  <2>1. Outstanding(outgoing') = Outstanding(mid) \cup {id}
    <3> HIDE DEF mid, om, id
    <3> QED BY <1>1, <1>3, NoneAssumption DEF Outstanding
  <2>2. IsFiniteSet(Outstanding(mid) \cup {id})
    <3> HIDE DEF mid, id
    <3> QED BY <1>3, FS_AddElement
  <2> HIDE DEF mid, id
  <2> QED BY <2>1, <2>2
<1>5. r \in Ledgers /\ \A a \in Accounts : r.held[a] = OwedFees(mid, a)
  <2>1. CASE old = None
    BY <1>2, <2>1 DEF ReleaseReplaced, HeldInv, HeldIsOwedFees
  <2>2. CASE old # None
    <3>1. old.payer \in Accounts /\ old.fee \in Nat /\ CanRelease(l, old.payer, old.fee)
      BY <1>2, <2>2 DEF OutgoingMessages, CanSendMessage
    <3>2. r = Release(l, old.payer, old.fee)
      BY <1>2, <2>2 DEF ReleaseReplaced
    <3>3. r \in Ledgers
      <4> HIDE DEF old, r
      <4> QED BY <3>1, <3>2, ReleaseType
    <3>4. mid = [outgoing EXCEPT ![id] = None]
      BY <2>2
    <3>5. ASSUME NEW a \in Accounts PROVE r.held[a] = OwedFees(mid, a)
      <4>1. OwedFees(mid, a) = OwedFees(outgoing, a) - (IF a = old.payer THEN old.fee ELSE 0)
        <5> HIDE DEF id
        <5> QED BY <1>1, <2>2, <3>4, OwedFeesClear DEF HeldInv
      <4>2. l.held[a] = OwedFees(outgoing, a) /\ l.held[a] \in Nat
        BY DEF HeldInv, HeldIsOwedFees, Ledgers
      <4>3. r.held[a] = l.held[a] - (IF a = old.payer THEN old.fee ELSE 0)
        <5> HIDE DEF old, r
        <5> QED BY <3>1, <3>2, HeldChanges
      <4> QED BY <4>1, <4>2, <4>3
    <3> QED BY <3>3, <3>5
  <2> QED BY <2>1, <2>2
<1>6. ASSUME NEW a \in Accounts
      PROVE  LedgerAfterSend(l, sender, payer, nonce, fee).held[a] = OwedFees(outgoing', a)
  <2>1. OwedFees(outgoing', a) = OwedFees(mid, a) + (IF a = payer THEN fee ELSE 0)
    <3> HIDE DEF mid, om, id
    <3>1. /\ outgoing' \in [Ids -> OutgoingMessages \cup {None}]
          /\ mid \in [Ids -> OutgoingMessages \cup {None}] /\ mid[id] = None /\ id \in Ids
          /\ outgoing'[id] # None /\ IsFiniteSet(Outstanding(mid))
          /\ \A i \in Ids : i # id => outgoing'[i] = mid[i]
      BY <1>1, <1>3, NoneAssumption
    <3>2. OwedFees(outgoing', a) = OwedFees(mid, a)
             + (IF a = outgoing'[id].payer THEN outgoing'[id].fee ELSE 0)
      BY <3>1, OwedFeesPut
    <3> QED BY <1>1, <3>2
  <2>2. Hold(r, payer, fee).held[a] = r.held[a] + (IF a = payer THEN fee ELSE 0)
    <3> HIDE DEF r
    <3> QED BY <1>5, HeldChanges
  <2> QED BY <1>5, <2>1, <2>2 DEF LedgerAfterSend
<1> QED BY <1>4, <1>6

\* A message that leaves the store takes its fee out of the holds of its payer.
LEMMA ClearHeld ==
    ASSUME IbcTypeOK, HeldInv, NEW id \in Ids, outgoing[id] # None, ClearOutgoing(id),
           \A a \in Accounts : ledger'.held[a] =
              ledger.held[a] - (IF a = outgoing[id].payer THEN outgoing[id].fee ELSE 0)
    PROVE  HeldInv'
<1>1. /\ outgoing \in [Ids -> OutgoingMessages \cup {None}]
      /\ outgoing' = [outgoing EXCEPT ![id] = None]
      /\ ledger.held \in [Accounts -> Nat]
  BY DEF IbcTypeOK, ClearOutgoing, Ledgers
<1>2. outgoing[id].payer \in Accounts /\ outgoing[id].fee \in Nat
  BY <1>1 DEF OutgoingMessages
<1>3. IsFiniteSet(Outstanding(outgoing'))
  <2>1. Outstanding(outgoing') \subseteq Outstanding(outgoing)
    BY <1>1 DEF Outstanding
  <2> QED BY <2>1, FS_Subset DEF HeldInv
<1>4. ASSUME NEW a \in Accounts PROVE ledger'.held[a] = OwedFees(outgoing', a)
  <2>1. OwedFees(outgoing', a) =
          OwedFees(outgoing, a) - (IF a = outgoing[id].payer THEN outgoing[id].fee ELSE 0)
    BY <1>1, OwedFeesClear DEF HeldInv
  <2>2. ledger.held[a] = OwedFees(outgoing, a) /\ ledger.held[a] \in Nat
    BY <1>1 DEF HeldInv, HeldIsOwedFees
  <2> QED BY <2>1, <2>2
<1> QED BY <1>3, <1>4 DEF HeldInv, HeldIsOwedFees

\* The fee of an outstanding message is on hold in full: the best-effort
\* release of remove_message releases all of it.
LEMMA FeeIsHeld ==
    ASSUME IbcTypeOK, HeldInv, NEW id \in Ids, outgoing[id] # None
    PROVE  /\ outgoing[id].payer \in Accounts /\ outgoing[id].fee \in Nat
           /\ CanRelease(ledger, outgoing[id].payer, outgoing[id].fee)
<1>1. outgoing[id].payer \in Accounts /\ outgoing[id].fee \in Nat
  BY DEF IbcTypeOK, OutgoingMessages
<1>2. id \in OwedBy(outgoing, outgoing[id].payer)
  BY DEF OwedBy
<1>3. outgoing[id].fee <= OwedFees(outgoing, outgoing[id].payer)
  BY <1>1, <1>2, OwedFeesType DEF IbcTypeOK, HeldInv
<1> QED BY <1>1, <1>3 DEF HeldInv, HeldIsOwedFees, CanRelease

\* confirm_message_delivery keeps the holds equal to the debts.
LEMMA ConfirmHeld ==
    ASSUME IbcTypeOK, HeldInv, NEW who, NEW id \in Ids, NEW sigs,
           ConfirmMessageDelivery(who, id, sigs)
    PROVE  HeldInv'
<1>1. /\ outgoing[id] # None /\ ClearOutgoing(id)
      /\ outgoing[id].payer \in Accounts /\ outgoing[id].fee \in Nat
  BY FeeIsHeld DEF ConfirmMessageDelivery
<1>2. \A a \in Accounts : ledger'.held[a] =
         ledger.held[a] - (IF a = outgoing[id].payer THEN outgoing[id].fee ELSE 0)
  BY <1>1, HeldChanges DEF ConfirmMessageDelivery, IbcTypeOK
<1> QED BY <1>1, <1>2, ClearHeld

\* So does remove_message.
LEMMA RemoveHeld ==
    ASSUME IbcTypeOK, HeldInv, NEW id \in Ids, RemoveMessage(id)
    PROVE  HeldInv'
<1>1. /\ outgoing[id] # None /\ ClearOutgoing(id) /\ outgoing[id].payer \in Accounts
      /\ outgoing[id].fee \in Nat /\ CanRelease(ledger, outgoing[id].payer, outgoing[id].fee)
  BY FeeIsHeld DEF RemoveMessage
<1>2. ledger' = Release(ledger, outgoing[id].payer, outgoing[id].fee)
  BY <1>1 DEF RemoveMessage, ReleaseBestEffort, CanRelease, IbcTypeOK, Ledgers
<1>3. \A a \in Accounts : ledger'.held[a] =
         ledger.held[a] - (IF a = outgoing[id].payer THEN outgoing[id].fee ELSE 0)
  BY <1>1, <1>2, HeldChanges DEF IbcTypeOK
<1> QED BY <1>1, <1>3, ClearHeld

\* Initially nothing is held and nothing owed.
LEMMA InitHeld == IbcInit => HeldInv
<1> SUFFICES ASSUME IbcInit PROVE HeldInv
  OBVIOUS
<1>1. Outstanding(outgoing) = {}
  BY DEF IbcInit, Outstanding
<1>2. ASSUME NEW a \in Accounts PROVE OwedFees(outgoing, a) = 0 /\ ledger.held[a] = 0
  <2>1. OwedBy(outgoing, a) = {}
    BY DEF IbcInit, OwedBy
  <2> QED BY <2>1, SumEmpty DEF OwedFees, IbcInit
<1> QED BY <1>1, <1>2, FS_EmptySet DEF HeldInv, HeldIsOwedFees

\* Every step keeps the holds equal to the debts.
LEMMA NextHeld == IbcTypeOK /\ HeldInv /\ [IbcNext]_ibcVars => HeldInv'
<1> SUFFICES ASSUME IbcTypeOK, HeldInv, [IbcNext]_ibcVars PROVE HeldInv'
  OBVIOUS
<1> USE DEF ibcVars, outVars, inVars, remoteVars
<1>a. ASSUME UNCHANGED <<ledger, outgoing>> PROVE HeldInv'
  BY <1>a DEF HeldInv, HeldIsOwedFees, OwedFees, OwedBy, Outstanding
<1>1. CASE NextBlock \/ Update \/ Receive \/ Clean \/ Emit \/ Deliver \/ UNCHANGED ibcVars
  BY <1>1, <1>a DEF NextBlock, Update, UpdateOracles, Receive, ReceiveMessage, Clean,
     CleanIncoming, Emit, RemoteEmit, Deliver, RemoteDeliver
<1>2. CASE Send
  <2>1. PICK sender \in Senders, payer \in Accounts, nonce \in Nonces, recipient \in Subjects,
             payload \in Payloads, ttl \in TTLs, fee \in Fees :
          SendMessage(sender, payer, nonce, recipient, payload, ttl, fee)
    BY <1>2 DEF Send
  <2>2. sender \in Accounts /\ nonce \in MessageNonces /\ ttl \in Nat /\ fee \in Nat
    BY IbcAssumption DEF MessageNonces
  <2>3. /\ IsFiniteSet(Outstanding(outgoing'))
        /\ \A a \in Accounts : LedgerAfterSend(ledger, sender, payer, nonce, fee).held[a]
                                 = OwedFees(outgoing', a)
    BY <2>1, <2>2, SendHeld DEF SendMessage, IbcTypeOK
  <2> QED BY <2>1, <2>3 DEF SendMessage, HeldInv, HeldIsOwedFees
<1>3. CASE SendTest
  <2>1. PICK who \in Senders, recipient \in Subjects, ttl \in TTLs, fee \in Fees :
          SendTestMessage(who, recipient, ttl, fee)
    BY <1>3 DEF SendTest
  <2>2. who \in Accounts /\ <<"test", counter>> \in MessageNonces /\ ttl \in Nat /\ fee \in Nat
    BY IbcAssumption DEF MessageNonces, IbcTypeOK
  <2>3. /\ IsFiniteSet(Outstanding(outgoing'))
        /\ \A a \in Accounts : LedgerAfterSend(ledger, who, who, <<"test", counter>>, fee).held[a]
                                 = OwedFees(outgoing', a)
    BY <2>1, <2>2, SendHeld DEF SendTestMessage, IbcTypeOK
  <2> QED BY <2>1, <2>3 DEF SendTestMessage, HeldInv, HeldIsOwedFees
<1>4. CASE Confirm
  BY <1>4, ConfirmHeld DEF Confirm
<1>5. CASE Remove
  BY <1>5, RemoveHeld DEF Remove
<1> QED BY <1>1, <1>2, <1>3, <1>4, <1>5 DEF IbcNext

\* On every payer's account exactly the fees of its outstanding messages are
\* held, whatever is replaced, confirmed or removed in which order.
THEOREM HeldIsOwedFeesCorrect == IbcSpec => []HeldIsOwedFees
<1>1. HeldInv => HeldIsOwedFees
  BY DEF HeldInv
<1> QED BY <1>1, InitType, NextType, InitHeld, NextHeld, PTL DEF IbcSpec

(***************************************************************************)
(*                   The contract of the proxy chain                       *)
(***************************************************************************)

(***************************************************************************)
(* A signature list that the contract accepts has at least min signatures  *)
(* of different keys, so one of them is honest and what it signed is true. *)
(***************************************************************************)
LEMMA RecoveredAttests ==
    ASSUME NEW sigs \in SignatureLists, NEW min \in Nat,
           Cardinality(Faulty) < min, recover_all(sigs, min)
    PROVE  \E i \in DOMAIN sigs : sigs[i].verifies /\ sigs[i].key \notin Faulty
<1> SUFFICES ASSUME \A i \in DOMAIN sigs : sigs[i].verifies => sigs[i].key \in Faulty
             PROVE  FALSE
  OBVIOUS
<1>1. PICK n \in 0 .. MaxSignatures : sigs \in [1 .. n -> Entries]
  BY DEF SignatureLists
<1>2. n \in Nat /\ Len(sigs) = n /\ DOMAIN sigs = 1 .. n
  BY <1>1, IbcAssumption
<1>3. \A i \in 1 .. n : sigs[i].verifies /\ sigs[i].key \in Faulty
  BY <1>2 DEF recover_all
<1>4. \A i, j \in 1 .. n : i # j => sigs[i].key # sigs[j].key
  <2>1. \A i \in 1 .. n : \A j \in 1 .. i - 1 : sigs[j].key # sigs[i].key
    BY <1>2 DEF recover_all
  <2>2. \A i, j \in 1 .. n : i # j => i \in 1 .. j - 1 \/ j \in 1 .. i - 1
    BY <1>2
  <2> QED BY <2>1, <2>2
<1> DEFINE f == [i \in 1 .. n |-> sigs[i].key]
<1>5. f \in [1 .. n -> Faulty]
  BY <1>3
<1>6. IsFiniteSet(Faulty) /\ Cardinality(Faulty) \in Nat
  BY IbcAssumption, FS_Subset, FS_CardinalityType
<1>7. IsFiniteSet(1 .. n) /\ Cardinality(1 .. n) = n
  <2>1. 1 \in Int /\ n \in Int
    BY <1>2
  <2>2. IsFiniteSet(1 .. n) /\ Cardinality(1 .. n) = IF 1 > n THEN 0 ELSE n - 1 + 1
    BY <2>1, FS_Interval, Zenon
  <2> QED BY <1>2, <2>2
<1>8. Cardinality(Faulty) < Cardinality(1 .. n)
  BY <1>2, <1>6, <1>7 DEF recover_all
<1>9. \E i, j \in 1 .. n : i # j /\ f[i] = f[j]
  <2> HIDE DEF f
  <2> QED BY <1>5, <1>6, <1>7, <1>8, FS_PigeonHole, Zenon
<1>10. \A i \in 1 .. n : f[i] = sigs[i].key
  OBVIOUS
<1> HIDE DEF f
<1> QED BY <1>4, <1>9, <1>10

(***************************************************************************)
(* Only configurations of Configs are ever in force, and the counter       *)
(* counts.                                                                 *)
(***************************************************************************)
ContractInv == config \in Configs /\ messageCounter \in Nat

\* configure chooses from Configs, do_send_message increments the counter.
LEMMA NextContract ==
    ContractInv /\ [PalletNext \/ ReceiveFrom \/ ContractNext]_chainsVars => ContractInv'
<1> SUFFICES ASSUME ContractInv, [PalletNext \/ ReceiveFrom \/ ContractNext]_chainsVars
             PROVE  ContractInv'
  OBVIOUS
<1> USE DEF ContractInv, sendingVars
<1>1. CASE PalletNext \/ ReceiveFrom \/ UNCHANGED chainsVars
  BY <1>1 DEF PalletNext, ReceiveFrom, chainsVars, contractVars
<1>2. CASE ContractBlock \/ CleanOutgoingIndex \/ CleanIncomingIndex \/ ContractCalls
  BY <1>2 DEF ContractBlock, CleanOutgoingIndex, CleanIncomingIndex, ContractCalls,
              ContractConfirm, ContractReceive
<1>3. CASE \E new \in Configs : Configure(new)
  BY <1>3 DEF Configure
<1>4. CASE \E m, caller, ttl, fee : Dispatch(m, caller, ttl, fee)
  BY <1>4 DEF Dispatch
<1> QED BY <1>1, <1>2, <1>3, <1>4 DEF ContractNext, ContractSend, ContractSendTest

\* The contract accepts a message only if the pallet has sent it.
LEMMA ReceivedWasSent ==
    ASSUME config \in Configs, NEW m, NEW who, NEW sigs \in SignatureLists,
           Obtainable(sigs, m \in sent), ContractReceive(m, who, sigs)
    PROVE  m \in sent
<1>1. config.min_receipt_signatures \in Nat /\ Cardinality(Faulty) < config.min_receipt_signatures
  BY ContractAssumption, ContractQuorumAssumption
<1>2. recover_all(sigs, config.min_receipt_signatures)
  BY DEF ContractReceive
<1>3. \E i \in DOMAIN sigs : sigs[i].verifies /\ sigs[i].key \notin Faulty
  BY <1>1, <1>2, RecoveredAttests
<1> QED BY <1>3 DEF Obtainable

\* A test message of the contract is one of the messages it may emit.
LEMMA TestMessageRemote ==
    ASSUME ContractInv, NEW recipient \in Senders, NEW caller \in Senders,
           messageCounter < MaxCounter
    PROVE  /\ ContractMessage(<<"test", messageCounter>>, recipient, caller) \in RemoteMessages
           /\ ContractMessage(<<"test", messageCounter>>, recipient, caller).sender = Contract
BY ContractAssumption, IbcAssumption DEF ContractMessage, ContractInv

\* To the pallet every step of the contract is a step of another chain.
LEMMA ContractStep ==
    ASSUME ContractInv, ContractNext
    PROVE  Emit \/ Deliver \/ UNCHANGED ibcVars
<1> USE DEF palletVars, ibcVars, remoteVars
<1>1. CASE ContractBlock
  BY <1>1 DEF ContractBlock
<1>2. CASE \E new \in Configs : Configure(new)
  BY <1>2 DEF Configure
<1>3. CASE CleanOutgoingIndex \/ CleanIncomingIndex
  BY <1>3 DEF CleanOutgoingIndex, CleanIncomingIndex
<1>4. CASE ContractCalls
  <2>1. PICK who \in Relayers, sigs \in SignatureLists :
          \/ \E id \in Ids : ContractConfirm(who, id, sigs)
          \/ \E m \in sent \cup Submissions :
                Obtainable(sigs, m \in sent) /\ ContractReceive(m, who, sigs)
    BY <1>4 DEF ContractCalls
  <2>2. CASE \E id \in Ids : ContractConfirm(who, id, sigs)
    BY <2>2 DEF ContractConfirm
  <2>3. CASE \E m \in sent \cup Submissions :
                Obtainable(sigs, m \in sent) /\ ContractReceive(m, who, sigs)
    <3>1. PICK m : Obtainable(sigs, m \in sent) /\ ContractReceive(m, who, sigs)
      BY <2>3
    <3>2. m \in sent
      BY <3>1, ReceivedWasSent DEF ContractInv
    <3>3. RemoteDeliver(m, who)
      BY <3>1, <3>2 DEF ContractReceive, RemoteDeliver
    <3> QED BY <3>2, <3>3 DEF Deliver
  <2> QED BY <2>1, <2>2, <2>3
<1>5. CASE \E caller \in Senders, ttl \in TTLs, fee \in Fees :
             \/ \E m \in {r \in RemoteMessages : r.nonce \in Nonces} :
                   m.sender = Contract /\ ContractSend(m, caller, ttl, fee)
             \/ \E recipient \in Senders : ContractSendTest(recipient, caller, ttl, fee)
  <2>1. PICK caller \in Senders, ttl \in TTLs, fee \in Fees, m \in RemoteMessages :
          m.sender = Contract /\ Dispatch(m, caller, ttl, fee)
    BY <1>5, TestMessageRemote DEF ContractSend, ContractSendTest
  <2>2. CASE m.recipient \in Accounts
    <3>1. RemoteEmit(m)
      BY <2>1, <2>2, ContractAssumption DEF Dispatch, RemoteEmit
    <3> QED BY <3>1 DEF Emit
  <2>3. CASE m.recipient \notin Accounts
    BY <2>1, <2>3 DEF Dispatch
  <2> QED BY <2>2, <2>3
<1> QED BY <1>1, <1>2, <1>3, <1>4, <1>5 DEF ContractNext

\* What the pallet does is what it does with any other chain.
LEMMA PalletStep == PalletNext \/ ReceiveFrom => IbcNext
BY DEF PalletNext, ReceiveFrom, IbcNext, Receive

\* To the pallet, with its quorum of oracles, the ink contract with its own
\* quorum is another chain that emits and delivers as HyperdriveIbc assumes:
\* every theorem about IbcSpec is one about the two chains.
THEOREM ChainsImplementIbc == ChainsSpec => IbcSpec
<1>1. IbcInit /\ ContractInit => IbcInit /\ ContractInv
  BY ContractAssumption DEF ContractInit, ContractInv
<1>2. ContractInv /\ [PalletNext \/ ReceiveFrom \/ ContractNext]_chainsVars => [IbcNext]_ibcVars
  BY ContractStep, PalletStep DEF IbcNext, chainsVars
<1> QED BY <1>1, <1>2, NextContract, PTL DEF ChainsSpec, ChainsInit, IbcSpec

\* emitted and delivered change only as another chain may change them, in the
\* steps of the contract: its check_signatures and the oracles see to it.
THEOREM ContractIsRemoteCorrect == ChainsSpec => ContractIsRemote
<1>1. IbcInit /\ ContractInit => ContractInv
  BY ContractAssumption DEF ContractInit, ContractInv
<1>2. PalletNext \/ ReceiveFrom => UNCHANGED remoteVars
  BY DEF PalletNext, ReceiveFrom, NextBlock, Update, UpdateOracles, Send, SendMessage, SendTest,
         SendTestMessage, Confirm, ConfirmMessageDelivery, Remove, RemoveMessage, Clean,
         CleanIncoming, ReceiveMessage, remoteVars
<1>3. ContractInv /\ [PalletNext \/ ReceiveFrom \/ ContractNext]_chainsVars
        => [Emit \/ Deliver]_remoteVars
  BY <1>2, ContractStep DEF chainsVars, ibcVars, remoteVars
<1> QED BY <1>1, <1>3, NextContract, PTL DEF ChainsSpec, ChainsInit, ContractIsRemote

\* confirm_message_delivery of the contract pays only for messages the pallet
\* has accepted from that relayer.
THEOREM ClaimedOnlyIfRelayedCorrect == ChainsSpec => []ClaimedOnlyIfRelayed
<1>1. IbcInit /\ ContractInit => ContractInv /\ ClaimedOnlyIfRelayed
  BY ContractAssumption DEF ContractInit, ContractInv, ClaimedOnlyIfRelayed
<1>2. ContractInv /\ ClaimedOnlyIfRelayed
        /\ [PalletNext \/ ReceiveFrom \/ ContractNext]_chainsVars => ClaimedOnlyIfRelayed'
  <2> SUFFICES ASSUME ContractInv, ClaimedOnlyIfRelayed,
                      [PalletNext \/ ReceiveFrom \/ ContractNext]_chainsVars
               PROVE  ClaimedOnlyIfRelayed'
    OBVIOUS
  <2> USE DEF ClaimedOnlyIfRelayed, contractVars, sendingVars
  <2>1. CASE PalletNext \/ ReceiveFrom \/ UNCHANGED chainsVars
    BY <2>1 DEF PalletNext, ReceiveFrom, chainsVars
  <2>2. CASE ContractBlock \/ CleanOutgoingIndex \/ CleanIncomingIndex
    BY <2>2 DEF ContractBlock, CleanOutgoingIndex, CleanIncomingIndex
  <2>3. CASE \E new \in Configs : Configure(new)
    BY <2>3 DEF Configure
  <2>4. CASE \E m, caller, ttl, fee : Dispatch(m, caller, ttl, fee)
    BY <2>4 DEF Dispatch
  <2>5. CASE \E m, who, sigs : ContractReceive(m, who, sigs)
    BY <2>5 DEF ContractReceive
  <2>6. CASE \E who \in Relayers, sigs \in SignatureLists, id \in Ids :
               /\ Obtainable(sigs, <<sending[id].message, who>> \in relayed)
               /\ ContractConfirm(who, id, sigs)
    <3>1. PICK who \in Relayers, sigs \in SignatureLists, id \in Ids :
            /\ Obtainable(sigs, <<sending[id].message, who>> \in relayed)
            /\ ContractConfirm(who, id, sigs)
      BY <2>6
    <3>2. /\ config.min_delivery_signatures \in Nat
          /\ Cardinality(Faulty) < config.min_delivery_signatures
      BY ContractAssumption, ContractQuorumAssumption DEF ContractInv
    <3>3. \E i \in DOMAIN sigs : sigs[i].verifies /\ sigs[i].key \notin Faulty
      BY <3>1, <3>2, RecoveredAttests DEF ContractConfirm
    <3>4. <<sending[id].message, who>> \in relayed
      BY <3>1, <3>3 DEF Obtainable
    <3> QED BY <3>1, <3>4 DEF ContractConfirm
  <2> QED BY <2>1, <2>2, <2>3, <2>4, <2>5, <2>6
          DEF ContractNext, ContractCalls, ContractSend, ContractSendTest
<1> QED BY <1>1, <1>2, NextContract, PTL DEF ChainsSpec, ChainsInit

(***************************************************************************)
(* The fees are covered.  The invariant is about the free balance of the   *)
(* contract, from which its existential deposit may not be taken, and      *)
(* about finitely many messages.                                           *)
(***************************************************************************)
Wallets == [free : [Accounts \cup {Contract} -> Nat], held : [Accounts \cup {Contract} -> Nat]]

CoverInv ==
    /\ height \in Nat
    /\ wallet \in Wallets
    /\ sending \in [Ids -> OutgoingMessages \cup {None}]
    /\ IsFiniteSet(Outstanding(sending))
    /\ wallet.free[Contract] >= ExistentialDeposit + PendingFees(sending)

\* Pending fees add up to a natural number, of which each is a part.
LEMMA PendingFeesType ==
    ASSUME NEW out \in [Ids -> OutgoingMessages \cup {None}], IsFiniteSet(Outstanding(out))
    PROVE  /\ \A id \in Outstanding(out) :
                 [i \in Outstanding(out) |-> out[i].fee][id] \in Nat
           /\ PendingFees(out) \in Nat
           /\ \A id \in Ids : out[id] # None => out[id].fee \in Nat /\ out[id].fee <= PendingFees(out)
<1> DEFINE S == Outstanding(out)
           f == [i \in S |-> out[i].fee]
<1>1. \A id \in S : f[id] \in Nat /\ f[id] = out[id].fee
  BY DEF Outstanding, OutgoingMessages
<1>2. PendingFees(out) = SumOver(f, S)
  BY DEF PendingFees
<1>3. \A id \in Ids : out[id] # None => id \in S
  BY DEF Outstanding
<1> HIDE DEF S, f
<1>4. SumOver(f, S) \in Nat /\ \A id \in S : f[id] <= SumOver(f, S)
  BY <1>1, SumNat, SumBounds DEF S
<1> QED BY <1>1, <1>2, <1>3, <1>4 DEF S, f

\* A message less, a fee less.
LEMMA PendingFeesClear ==
    ASSUME NEW out \in [Ids -> OutgoingMessages \cup {None}], IsFiniteSet(Outstanding(out)),
           NEW new \in [Ids -> OutgoingMessages \cup {None}],
           NEW id \in Ids, out[id] # None, new[id] = None,
           \A i \in Ids : i # id => new[i] = out[i]
    PROVE  /\ IsFiniteSet(Outstanding(new))
           /\ PendingFees(new) = PendingFees(out) - out[id].fee
<1> DEFINE S == Outstanding(out)
           f == [i \in S |-> out[i].fee]
           g == [i \in Outstanding(new) |-> new[i].fee]
<1>1. \A i \in S : f[i] \in Nat
  BY PendingFeesType
<1>2. PendingFees(out) = SumOver(f, S) /\ PendingFees(new) = SumOver(g, Outstanding(new))
  BY DEF PendingFees
<1>3. id \in S /\ Outstanding(new) = S \ {id} /\ f[id] = out[id].fee
  BY DEF Outstanding
<1>4. \A i \in S : i # id => g[i] = f[i]
  BY <1>3 DEF Outstanding
<1>5. IsFiniteSet(S)
  OBVIOUS
<1> HIDE DEF S, f, g
<1>6. SumOver(g, S \ {id}) = SumOver(f, S) - f[id]
  BY <1>1, <1>3, <1>4, <1>5, SumRemove
<1>7. IsFiniteSet(S \ {id})
  BY <1>5, FS_Subset
<1> QED BY <1>2, <1>3, <1>6, <1>7

\* A message more, a fee more.
LEMMA PendingFeesPut ==
    ASSUME NEW out \in [Ids -> OutgoingMessages \cup {None}], IsFiniteSet(Outstanding(out)),
           NEW new \in [Ids -> OutgoingMessages \cup {None}],
           NEW id \in Ids, out[id] = None, new[id] # None,
           \A i \in Ids : i # id => new[i] = out[i]
    PROVE  /\ IsFiniteSet(Outstanding(new))
           /\ PendingFees(new) = PendingFees(out) + new[id].fee
<1> DEFINE S == Outstanding(out)
           f == [i \in S |-> out[i].fee]
           g == [i \in Outstanding(new) |-> new[i].fee]
<1>1. \A i \in S : f[i] \in Nat
  BY PendingFeesType
<1>2. PendingFees(out) = SumOver(f, S) /\ PendingFees(new) = SumOver(g, Outstanding(new))
  BY DEF PendingFees
<1>3. id \notin S /\ Outstanding(new) = S \cup {id}
  BY DEF Outstanding
<1>4. g[id] = new[id].fee /\ g[id] \in Nat /\ \A i \in S : g[i] = f[i]
  BY <1>3 DEF Outstanding, OutgoingMessages
<1>5. IsFiniteSet(S)
  OBVIOUS
<1> HIDE DEF S, f, g
<1>6. SumOver(g, S \cup {id}) = SumOver(f, S) + g[id]
  BY <1>1, <1>3, <1>4, <1>5, SumInsert
<1>7. IsFiniteSet(S \cup {id})
  BY <1>5, FS_AddElement
<1> QED BY <1>2, <1>3, <1>4, <1>6, <1>7

\* A message that replaces another one adds at most its fee.
LEMMA PendingFeesReplace ==
    ASSUME NEW out \in [Ids -> OutgoingMessages \cup {None}], IsFiniteSet(Outstanding(out)),
           NEW new \in [Ids -> OutgoingMessages \cup {None}],
           NEW id \in Ids, new[id] # None,
           \A i \in Ids : i # id => new[i] = out[i]
    PROVE  /\ IsFiniteSet(Outstanding(new))
           /\ PendingFees(new) \in Nat
           /\ PendingFees(new) <= PendingFees(out) + new[id].fee
<1>1. CASE out[id] = None
  <2>1. IsFiniteSet(Outstanding(new)) /\ PendingFees(new) = PendingFees(out) + new[id].fee
    BY <1>1, PendingFeesPut
  <2>2. PendingFees(new) \in Nat
    BY <2>1, PendingFeesType
  <2> QED BY <2>1, <2>2
<1>2. CASE out[id] # None
  <2> DEFINE mid == [out EXCEPT ![id] = None]
  <2>1. /\ mid \in [Ids -> OutgoingMessages \cup {None}] /\ mid[id] = None
        /\ \A i \in Ids : i # id => mid[i] = out[i] /\ new[i] = mid[i]
    OBVIOUS
  <2> HIDE DEF mid
  <2>2. IsFiniteSet(Outstanding(mid)) /\ PendingFees(mid) = PendingFees(out) - out[id].fee
    BY <1>2, <2>1, PendingFeesClear
  <2>3. IsFiniteSet(Outstanding(new)) /\ PendingFees(new) = PendingFees(mid) + new[id].fee
    BY <2>1, <2>2, PendingFeesPut
  <2>4. /\ PendingFees(new) \in Nat /\ PendingFees(out) \in Nat /\ out[id].fee \in Nat
        /\ new[id].fee \in Nat
    BY <1>2, <2>3, PendingFeesType
  <2> QED BY <2>2, <2>3, <2>4
<1> QED BY <1>1, <1>2

\* The fee comes with the message: do_send_message of the contract.
LEMMA DispatchCovers ==
    ASSUME CoverInv, NEW m \in RemoteMessages, NEW caller \in Senders, NEW ttl \in TTLs,
           NEW fee \in Fees, Dispatch(m, caller, ttl, fee)
    PROVE  CoverInv'
<1> DEFINE id == message_id(m.sender, m.nonce)
           om == [message |-> m, ttl_block |-> height + ttl, fee |-> fee, payer |-> caller]
<1>1. /\ id \in Ids /\ om \in OutgoingMessages /\ om # None /\ om.fee = fee
      /\ caller \in Accounts /\ caller # Contract /\ fee \in Nat
  BY IbcAssumption, ContractAssumption, RemoteMessagesAssumption, NoneAssumption
     DEF message_id, Ids, OutgoingMessages, Messages, CoverInv
<1>2. sending' = [sending EXCEPT ![id] = om] /\ height' = height
  BY DEF Dispatch
<1> HIDE DEF id, om
<1>3. /\ sending' \in [Ids -> OutgoingMessages \cup {None}] /\ sending'[id] # None
      /\ sending'[id].fee = fee /\ \A i \in Ids : i # id => sending'[i] = sending[i]
  BY <1>1, <1>2 DEF CoverInv
<1>4. /\ IsFiniteSet(Outstanding(sending')) /\ PendingFees(sending') \in Nat
      /\ PendingFees(sending') <= PendingFees(sending) + fee
  BY <1>1, <1>3, PendingFeesReplace DEF CoverInv
<1>5. /\ CanWithdraw(wallet, caller, fee)
      /\ wallet' = Transfer(wallet, caller, Contract, fee)
  BY DEF Dispatch, CanTransfer
<1>6. wallet.free[caller] - fee \in Nat
  BY <1>1, <1>5, ExistentialDepositAssumption DEF CoverInv, Wallets, CanWithdraw
<1>7. wallet' \in Wallets /\ wallet'.free[Contract] = wallet.free[Contract] + fee
  BY <1>1, <1>5, <1>6, TransferMoves DEF CoverInv, Wallets
<1>8. PendingFees(sending) \in Nat /\ wallet.free[Contract] \in Nat
  BY PendingFeesType DEF CoverInv, Wallets
<1> QED BY <1>1, <1>2, <1>3, <1>4, <1>7, <1>8, ExistentialDepositAssumption DEF CoverInv

\* confirm_message_delivery of the contract pays one fee out and forgets it.
LEMMA ContractConfirmCovers ==
    ASSUME CoverInv, NEW who, NEW id \in Ids, NEW sigs, ContractConfirm(who, id, sigs)
    PROVE  CoverInv'
<1> DEFINE payer == sending[id].payer
           fee   == sending[id].fee
<1>1. /\ sending[id] # None /\ height' = height
      /\ payer \in Accounts /\ payer # Contract /\ fee \in Nat
  BY IbcAssumption, ContractAssumption DEF ContractConfirm, CoverInv, OutgoingMessages
<1>2. /\ sending' \in [Ids -> OutgoingMessages \cup {None}] /\ sending'[id] = None
      /\ \A i \in Ids : i # id => sending'[i] = sending[i]
  BY DEF ContractConfirm, Forget, CoverInv
<1>3. IsFiniteSet(Outstanding(sending')) /\ PendingFees(sending') = PendingFees(sending) - fee
  BY <1>1, <1>2, PendingFeesClear DEF CoverInv
<1>4. PendingFees(sending) \in Nat /\ fee <= PendingFees(sending) /\ PendingFees(sending') \in Nat
  BY <1>1, <1>2, <1>3, PendingFeesType DEF CoverInv
<1>5. wallet' = Transfer(wallet, Contract, payer, fee)
  BY DEF ContractConfirm
<1>6. wallet.free[Contract] - fee \in Nat
  <2>1. wallet.free[Contract] \in Nat
    BY DEF CoverInv, Wallets
  <2> QED BY <1>1, <1>4, <2>1, ExistentialDepositAssumption DEF CoverInv
<1> HIDE DEF payer, fee
<1>7. wallet' \in Wallets /\ wallet'.free[Contract] = wallet.free[Contract] - fee
  BY <1>1, <1>5, <1>6, TransferMoves DEF CoverInv, Wallets
<1>8. wallet.free[Contract] \in Nat
  BY DEF CoverInv, Wallets
<1>9. wallet'.free[Contract] >= ExistentialDeposit + PendingFees(sending')
  BY <1>1, <1>3, <1>4, <1>7, <1>8, ExistentialDepositAssumption DEF CoverInv
<1> QED BY <1>1, <1>2, <1>3, <1>7, <1>9 DEF CoverInv

\* Every step of the two chains keeps the fees covered.
LEMMA NextCovers ==
    ContractInv /\ CoverInv /\ [PalletNext \/ ReceiveFrom \/ ContractNext]_chainsVars => CoverInv'
<1> SUFFICES ASSUME ContractInv, CoverInv, [PalletNext \/ ReceiveFrom \/ ContractNext]_chainsVars
             PROVE  CoverInv'
  OBVIOUS
<1> USE DEF contractVars, sendingVars
<1>a. ASSUME height' \in Nat, UNCHANGED <<wallet, sending>> PROVE CoverInv'
  BY <1>a DEF CoverInv, PendingFees, Outstanding
<1>1. CASE PalletNext \/ ReceiveFrom \/ UNCHANGED chainsVars
  BY <1>1, <1>a DEF PalletNext, ReceiveFrom, chainsVars, CoverInv
<1>2. CASE ContractBlock \/ CleanOutgoingIndex \/ CleanIncomingIndex
  BY <1>2, <1>a DEF ContractBlock, CleanOutgoingIndex, CleanIncomingIndex, CoverInv
<1>3. CASE \E new \in Configs : Configure(new)
  BY <1>3, <1>a DEF Configure, CoverInv
<1>4. CASE ContractCalls
  <2>1. CASE \E m, who, sigs : ContractReceive(m, who, sigs)
    BY <2>1, <1>a DEF ContractReceive, CoverInv
  <2>2. CASE \E who, sigs : \E id \in Ids : ContractConfirm(who, id, sigs)
    BY <2>2, ContractConfirmCovers
  <2> QED BY <1>4, <2>1, <2>2 DEF ContractCalls
<1>5. CASE \E caller \in Senders, ttl \in TTLs, fee \in Fees :
             \/ \E m \in {r \in RemoteMessages : r.nonce \in Nonces} :
                   m.sender = Contract /\ ContractSend(m, caller, ttl, fee)
             \/ \E recipient \in Senders : ContractSendTest(recipient, caller, ttl, fee)
  <2>1. PICK caller \in Senders, ttl \in TTLs, fee \in Fees, m \in RemoteMessages :
          Dispatch(m, caller, ttl, fee)
    BY <1>5, TestMessageRemote DEF ContractSend, ContractSendTest
  <2> QED BY <2>1, DispatchCovers
<1> QED BY <1>1, <1>2, <1>3, <1>4, <1>5 DEF ContractNext

\* At any time the contract can pay every fee that may still be asked for.
THEOREM FeesCoveredCorrect == ChainsSpec => []FeesCovered
<1>1. IbcInit /\ ContractInit => ContractInv /\ CoverInv
  <2> SUFFICES ASSUME ContractInit PROVE ContractInv /\ CoverInv
    OBVIOUS
  <2>1. Outstanding(sending) = {} /\ PendingFees(sending) = 0
    <3>1. Outstanding(sending) = {}
      BY DEF ContractInit, Outstanding
    <3> QED BY <3>1, SumEmpty DEF PendingFees
  <2>2. wallet \in Wallets /\ wallet.free[Contract] >= ExistentialDeposit
    BY ContractAssumption, ContractFundedAssumption DEF ContractInit, Wallets
  <2>3. IsFiniteSet(Outstanding(sending))
    BY <2>1, FS_EmptySet
  <2>4. sending \in [Ids -> OutgoingMessages \cup {None}] /\ height \in Nat
    BY DEF ContractInit
  <2>5. ExistentialDeposit + 0 = ExistentialDeposit
    BY ExistentialDepositAssumption
  <2> QED BY <2>1, <2>2, <2>3, <2>4, <2>5, ContractAssumption DEF ContractInit, ContractInv, CoverInv
<1>2. CoverInv => FeesCovered
  <2> SUFFICES ASSUME CoverInv PROVE FeesCovered
    OBVIOUS
  <2>1. PendingFees(sending) \in Nat /\ wallet.free[Contract] \in Nat
    BY PendingFeesType DEF CoverInv, Wallets
  <2> QED BY <2>1, ExistentialDepositAssumption DEF CoverInv, FeesCovered, Reducible
<1> QED BY <1>1, <1>2, NextContract, NextCovers, PTL DEF ChainsSpec, ChainsInit

-----------------------------------------------------------------------------
(***************************************************************************)
(*                          The token bridge                               *)
(***************************************************************************)

(***************************************************************************)
(* The inductive invariant.                                                *)
(***************************************************************************)
\* The storage of the pallet and the state of the proxy have their types.
TokenTypeOK ==
    /\ enabled \in BOOLEAN
    /\ ethereumContract \in Contracts \cup {None}
    /\ outgoingTransferTTL \in Nat \cup {None}
    /\ outgoingTransfers \in [TransferNonces -> OutgoingTransfers \cup {None}]
    /\ nextTransferNonce \in Nat /\ nextEnableNonce \in Nat
    /\ incomingTransferNonces \subseteq TransferNonces
    /\ supply \in Nat /\ proxyMinted \subseteq TransferNonces
    /\ proxyBurned \in [TransferNonces -> (Amounts \X Users) \cup {None}]

\* Nonces are handed out in order, to transfers of at least the minimum.
NoncesInOrder ==
    \A n \in TransferNonces :
        /\ n >= nextTransferNonce => outgoingTransfers[n] = None
        /\ outgoingTransfers[n] # None => outgoingTransfers[n].amount >= MinTransferAmount

\* The fee vault pays for every message and keeps its existential deposit.
FeeVaultPays ==
    /\ ledger.free[EthereumFeeVault] >= ExistentialDeposit
    /\ \A id \in Ids : outgoing[id] # None => outgoing[id].payer = EthereumFeeVault

\* Every message sent announces a stored transfer, or is an enable message.
SentIsLocked ==
    \A m \in sent :
        \/ \E n \in TransferNonces :
              /\ outgoingTransfers[n] # None
              /\ m.payload = TransferToken(outgoingTransfers[n].amount, 0, n,
                                           outgoingTransfers[n].dest)
        \/ \E b \in BOOLEAN : m.payload = SetEnabledAction(b)

\* The proxy emits a transfer of native tokens only after it burned them.
EmittedIsBurned ==
    \A m \in emitted :
        /\ m \in RemoteMessages /\ m.sender \in Remotes
        /\ m.sender \in Contracts /\ m.payload.asset_id = 0 =>
              proxyBurned[m.payload.transfer_nonce] = <<m.payload.amount, m.payload.dest>>

\* What arrived on one side had left the other.
ArrivedHadLeft ==
    /\ \A n \in proxyMinted : outgoingTransfers[n] # None
    /\ \A n \in incomingTransferNonces : proxyBurned[n] # None

\* What a step of the pallet needs in order to be one of the abstract bridge.
BaseInv ==
    /\ IbcTypeOK /\ HeldInv /\ TokenTypeOK
    /\ NoncesInOrder /\ FeeVaultPays /\ SentIsLocked /\ EmittedIsBurned /\ ArrivedHadLeft

TokenInv == BaseInv /\ VaultBacksSupply

(***************************************************************************)
(* Money.                                                                  *)
(***************************************************************************)
\* The accounts of the pallet are accounts, and none of them is a user's.
LEMMA TokenAccounts ==
    /\ PalletAccount \in Accounts /\ EthereumVault \in Accounts /\ EthereumFeeVault \in Accounts
    /\ EthereumVault # EthereumFeeVault
    /\ \A u \in Users : u \in Accounts /\ u # EthereumVault /\ u # EthereumFeeVault
  BY TokenAssumption

\* A transfer that the currency allows has the money it moves.
LEMMA TransferAllowed ==
    ASSUME NEW l \in Ledgers, NEW a \in Accounts, NEW b \in Accounts, a # b, NEW n \in Nat,
           CanTransfer(l, a, b, n)
    PROVE  /\ Transfer(l, a, b, n) \in Ledgers
           /\ Transfer(l, a, b, n).held = l.held
           /\ Transfer(l, a, b, n).free[a] = l.free[a] - n
           /\ Transfer(l, a, b, n).free[b] = l.free[b] + n
           /\ \A c \in Accounts : c # a /\ c # b => Transfer(l, a, b, n).free[c] = l.free[c]
           /\ l.free[a] >= n
           /\ l.free[a] >= ExistentialDeposit => l.free[a] - n >= ExistentialDeposit
<1>1. /\ l \in [free : [Accounts -> Nat], held : [Accounts -> Nat]]
      /\ l.free[a] \in Nat
  BY DEF Ledgers
<1>2. l.free[a] >= n /\ (l.free[a] >= ExistentialDeposit => l.free[a] - n >= ExistentialDeposit)
  BY <1>1, ExistentialDepositAssumption DEF CanTransfer, CanWithdraw
<1>3. l.free[a] - n \in Nat
  BY <1>1, <1>2
<1> QED BY <1>1, <1>2, <1>3, TransferMoves DEF Ledgers

\* Up to the hold of the fee: the source's fee passes through the fee vault
\* into the hold, and the fee of a replaced message comes out of it.
LEMMA MessageHeldMoves ==
    ASSUME IbcTypeOK, HeldInv, FeeVaultPays,
           NEW l \in Ledgers, l.held = ledger.held, NEW source \in Users,
           NEW nonce \in MessageNonces, NEW fee \in Nat, l.free[source] >= fee
    PROVE  /\ ReplacedFee(nonce) \in Nat
           /\ FeeMoved(l, source, fee) \in Ledgers
           /\ FeeMoved(l, source, fee).held = l.held
           /\ Replaced(PalletAccount, nonce) # None =>
                 CanRelease(FeeMoved(l, source, fee), Replaced(PalletAccount, nonce).payer,
                            Replaced(PalletAccount, nonce).fee)
           /\ ReleaseReplaced(FeeMoved(l, source, fee), PalletAccount, nonce)
                 .free[EthereumFeeVault] = l.free[EthereumFeeVault] + fee + ReplacedFee(nonce)
           /\ MessageHeld(l, source, nonce, fee) \in Ledgers
           /\ MessageHeld(l, source, nonce, fee).free[EthereumFeeVault]
                 = l.free[EthereumFeeVault] + ReplacedFee(nonce)
           /\ MessageHeld(l, source, nonce, fee).free[source] = l.free[source] - fee
           /\ MessageHeld(l, source, nonce, fee).free[EthereumVault] = l.free[EthereumVault]
<1> DEFINE V   == EthereumVault
           FV  == EthereumFeeVault
           id  == message_id(PalletAccount, nonce)
           old == Replaced(PalletAccount, nonce)
           f   == FeeMoved(l, source, fee)
           r   == ReleaseReplaced(f, PalletAccount, nonce)
           h   == Hold(r, FV, fee)
<1>1. /\ V \in Accounts /\ FV \in Accounts /\ V # FV
      /\ source \in Accounts /\ source # V /\ source # FV
  BY TokenAccounts
<1>2. /\ f \in Ledgers /\ f.held = l.held
      /\ f.free[source] = l.free[source] - fee /\ f.free[FV] = l.free[FV] + fee
      /\ f.free[V] = l.free[V]
  <2>1. l.free[source] - fee \in Nat /\ l \in [free : [Accounts -> Nat], held : [Accounts -> Nat]]
    BY <1>1 DEF Ledgers
  <2> HIDE DEF V, FV
  <2> QED BY <1>1, <2>1, TransferMoves DEF FeeMoved, Ledgers, V, FV
<1>3. id \in Ids /\ old = outgoing[id]
  BY TokenAccounts DEF Ids, Subjects, message_id, Replaced
<1>4. old # None => /\ old.payer = FV /\ old.fee \in Nat
                    /\ CanRelease(ledger, old.payer, old.fee)
  <2> HIDE DEF id, old, FV
  <2> QED BY <1>3, FeeIsHeld DEF FeeVaultPays, FV
<1>5. old # None => CanRelease(f, old.payer, old.fee)
  <2> HIDE DEF old, f
  <2> QED BY <1>2, <1>4 DEF CanRelease
<1>6. ReplacedFee(nonce) = IF old = None THEN 0 ELSE old.fee
  BY DEF ReplacedFee
<1>7. ReplacedFee(nonce) \in Nat
  BY <1>4, <1>6
<1>8. /\ r \in Ledgers /\ r.free[FV] = f.free[FV] + ReplacedFee(nonce)
      /\ r.free[source] = f.free[source] /\ r.free[V] = f.free[V]
  <2>0. f.free \in [Accounts -> Nat]
    BY <1>2 DEF Ledgers
  <2>1. CASE old = None
    <3>1. r = f
      BY <2>1 DEF ReleaseReplaced
    <3> HIDE DEF r, f, V, FV, old
    <3> QED BY <1>1, <1>2, <1>6, <2>0, <2>1, <3>1
  <2>2. CASE old # None
    <3>1. r = Release(f, FV, old.fee) /\ f.held[FV] >= old.fee /\ old.fee \in Nat
      BY <1>4, <1>5, <2>2 DEF ReleaseReplaced, CanRelease
    <3> HIDE DEF r, f, V, FV, old
    <3> QED BY <1>1, <1>2, <1>6, <2>0, <2>2, <3>1, ReleaseMoves
  <2> QED BY <2>1, <2>2
<1>9. l.free[FV] \in Nat /\ r.free[FV] = l.free[FV] + fee + ReplacedFee(nonce)
  <2>1. l.free \in [Accounts -> Nat]
    BY DEF Ledgers
  <2> HIDE DEF r, f, V, FV
  <2> QED BY <1>1, <1>2, <1>7, <1>8, <2>1
<1>10. /\ h \in Ledgers /\ h.free[FV] = l.free[FV] + ReplacedFee(nonce)
       /\ h.free[source] = l.free[source] - fee /\ h.free[V] = l.free[V]
  <2>1. r.free \in [Accounts -> Nat] /\ l.free \in [Accounts -> Nat]
    <3> HIDE DEF r
    <3> QED BY <1>8 DEF Ledgers
  <2>2. r.free[FV] >= fee
    <3> HIDE DEF r, FV
    <3> QED BY <1>7, <1>9
  <2>3. /\ h \in Ledgers /\ h.free[FV] = r.free[FV] - fee
        /\ h.free[source] = r.free[source] - 0 /\ h.free[V] = r.free[V] - 0
    <3> HIDE DEF r, V, FV
    <3> QED BY <1>1, <1>8, <2>2, HoldMoves
  <2> HIDE DEF r, f, V, FV, h
  <2> QED BY <1>1, <1>2, <1>7, <1>8, <1>9, <2>1, <2>3
<1>11. h = MessageHeld(l, source, nonce, fee)
  BY DEF MessageHeld, LedgerAfterSend
<1> HIDE DEF h, r, f, old, id
<1> QED BY <1>2, <1>5, <1>7, <1>9, <1>10, <1>11 DEF f, r, old

\* The whole tail of do_transfer_native and do_enable: the refund of a
\* replaced fee leaves the fee vault with what it had, and the vault is not
\* touched.
LEMMA PayAndSendLedger ==
    ASSUME IbcTypeOK, HeldInv, FeeVaultPays,
           NEW l \in Ledgers, l.held = ledger.held, NEW source \in Users,
           l.free[EthereumFeeVault] >= ExistentialDeposit,
           NEW nonce \in MessageNonces, NEW fee \in Nat, CanPayAndSend(l, source, nonce, fee),
           NEW end, end = Transfer(MessageHeld(l, source, nonce, fee),
                                   EthereumFeeVault, source, ReplacedFee(nonce))
    PROVE  /\ end \in Ledgers
           /\ end.held = MessageHeld(l, source, nonce, fee).held
           /\ end.free[EthereumVault] = l.free[EthereumVault]
           /\ end.free[EthereumFeeVault] >= ExistentialDeposit
           /\ FeeMoved(l, source, fee) \in Ledgers
           /\ FeeMoved(l, source, fee).held = ledger.held
<1> DEFINE V  == EthereumVault
           FV == EthereumFeeVault
           h  == MessageHeld(l, source, nonce, fee)
<1>1. /\ V \in Accounts /\ FV \in Accounts /\ V # FV
      /\ source \in Accounts /\ source # V /\ source # FV
  BY TokenAccounts
<1>2. l.free[source] >= fee
  <2>1. CanTransfer(l, source, FV, fee)
    BY DEF CanPayAndSend
  <2> HIDE DEF FV
  <2> QED BY <1>1, <2>1, TransferAllowed
<1>3. /\ ReplacedFee(nonce) \in Nat
      /\ FeeMoved(l, source, fee) \in Ledgers /\ FeeMoved(l, source, fee).held = ledger.held
      /\ h \in Ledgers /\ h.free[V] = l.free[V]
      /\ h.free[FV] = l.free[FV] + ReplacedFee(nonce)
  BY <1>2, MessageHeldMoves
<1>4. CanTransfer(h, FV, source, ReplacedFee(nonce)) /\ end = Transfer(h, FV, source, ReplacedFee(nonce))
  BY DEF CanPayAndSend
<1>5. l.free[FV] >= ExistentialDeposit /\ l.free[FV] \in Nat
  BY <1>1 DEF Ledgers
<1> HIDE DEF V, FV, h
<1>6. /\ end \in Ledgers /\ end.held = h.held /\ end.free[V] = h.free[V]
      /\ end.free[FV] = h.free[FV] - ReplacedFee(nonce)
  BY <1>1, <1>3, <1>4, TransferAllowed
<1>7. end.free[FV] = l.free[FV]
  BY <1>3, <1>5, <1>6
<1> QED BY <1>3, <1>5, <1>6, <1>7 DEF V, FV, h

(***************************************************************************)
(* Sums of what is under way.                                              *)
(***************************************************************************)
\* The nonces whose amounts are summed are finitely many.
LEMMA TransferNoncesFinite == IsFiniteSet(TransferNonces)
<1>1. MaxTransfers - 1 \in Int
  BY TokenAssumption
<1>2. IsFiniteSet(0 .. MaxTransfers - 1)
  BY <1>1, FS_Interval
<1> QED BY <1>2 DEF TransferNonces

\* What is under way is a natural number.
LEMMA InTransitType ==
    ASSUME NEW f \in [TransferNonces -> Amounts \cup {None}], NEW done
    PROVE  InTransit(f, done) \in Nat
<1> DEFINE S == {n \in TransferNonces : f[n] # None} \ done
<1>1. IsFiniteSet(S)
  BY TransferNoncesFinite, FS_Subset
<1>2. \A n \in S : f[n] \in Nat
  BY TokenAssumption
<1>3. InTransit(f, done) = SumOver(f, S)
  BY DEF InTransit
<1> HIDE DEF S
<1> QED BY <1>1, <1>2, <1>3, SumNat

\* A transfer that leaves adds its amount.
LEMMA InTransitLeaves ==
    ASSUME NEW f \in [TransferNonces -> Amounts \cup {None}], NEW done,
           NEW n \in TransferNonces, f[n] = None, n \notin done,
           NEW a \in Amounts, NEW g, g[n] = a, \A i \in TransferNonces : i # n => g[i] = f[i]
    PROVE  InTransit(g, done) = InTransit(f, done) + a
<1> DEFINE S == {i \in TransferNonces : f[i] # None} \ done
           T == {i \in TransferNonces : g[i] # None} \ done
<1>1. a \in Nat /\ a # None
  BY TokenAssumption, NoneAssumption
<1>2. IsFiniteSet(S) /\ n \notin S
  BY TransferNoncesFinite, FS_Subset
<1>3. g[n] = a /\ \A i \in S : f[i] \in Nat /\ g[i] = f[i]
  BY TokenAssumption
<1>4. T = S \cup {n}
  BY <1>1
<1>5. InTransit(f, done) = SumOver(f, S) /\ InTransit(g, done) = SumOver(g, T)
  BY DEF InTransit
<1> HIDE DEF S, T
<1>6. SumOver(g, S \cup {n}) = SumOver(f, S) + g[n]
  <2>1. g[n] \in Int /\ \A i \in S : f[i] \in Int /\ g[i] = f[i]
    BY <1>1, <1>3
  <2> QED BY <1>2, <2>1, SumInsert
<1> QED BY <1>3, <1>4, <1>5, <1>6

\* A transfer that arrives takes its amount out.
LEMMA InTransitArrives ==
    ASSUME NEW f \in [TransferNonces -> Amounts \cup {None}], NEW done,
           NEW n \in TransferNonces, f[n] # None, n \notin done
    PROVE  /\ InTransit(f, done \cup {n}) = InTransit(f, done) - f[n]
           /\ f[n] \in Nat
<1> DEFINE S == {i \in TransferNonces : f[i] # None} \ done
           T == {i \in TransferNonces : f[i] # None} \ (done \cup {n})
<1>1. IsFiniteSet(S) /\ n \in S
  BY TransferNoncesFinite, FS_Subset
<1>2. \A i \in S : f[i] \in Nat
  BY TokenAssumption
<1>3. T = S \ {n}
  OBVIOUS
<1>4. InTransit(f, done) = SumOver(f, S) /\ InTransit(f, done \cup {n}) = SumOver(f, T)
  BY DEF InTransit
<1> HIDE DEF S, T
<1>5. SumOver(f, S \ {n}) = SumOver(f, S) - f[n]
  BY <1>1, <1>2, SumRemove
<1> QED BY <1>1, <1>2, <1>3, <1>4, <1>5

\* The amounts of the transfers, seen from the abstract bridge.
LEMMA AmountsType ==
    ASSUME TokenTypeOK
    PROVE  /\ Locked \in [TransferNonces -> Amounts \cup {None}]
           /\ Burned \in [TransferNonces -> Amounts \cup {None}]
           /\ \A n \in TransferNonces :
                 /\ Locked[n] = None <=> outgoingTransfers[n] = None
                 /\ outgoingTransfers[n] # None => Locked[n] = outgoingTransfers[n].amount
                 /\ Burned[n] = None <=> proxyBurned[n] = None
                 /\ proxyBurned[n] # None => Burned[n] = proxyBurned[n][1]
<1>1. None \notin Amounts
  BY TokenAssumption, NoneAssumption
<1>2. ASSUME NEW n \in TransferNonces
      PROVE  /\ outgoingTransfers[n] # None => outgoingTransfers[n].amount \in Amounts
             /\ proxyBurned[n] # None => proxyBurned[n][1] \in Amounts
  BY DEF TokenTypeOK, OutgoingTransfers
<1> QED BY <1>1, <1>2 DEF Locked, Burned

\* Every step of the abstract bridge keeps the vault backed: what leaves one
\* side is added to what is under way, what arrives is taken out of it.
LEMMA BridgeBacks ==
    ASSUME IbcTypeOK, TokenTypeOK, ArrivedHadLeft, VaultBacksSupply,
           [TheBridge!Next]_(TheBridge!vars)
    PROVE  VaultBacksSupply'
<1> DEFINE V == ledger.free[EthereumVault]
           out == InTransit(Locked, proxyMinted)
           in == InTransit(Burned, incomingTransferNonces)
           B == InitialBalances[EthereumVault]
<1>1. /\ Locked \in [TransferNonces -> Amounts \cup {None}]
      /\ Burned \in [TransferNonces -> Amounts \cup {None}]
      /\ \A n \in proxyMinted : Locked[n] # None
      /\ \A n \in incomingTransferNonces : Burned[n] # None
  BY AmountsType DEF ArrivedHadLeft, TokenTypeOK
<1>2. V \in Nat /\ supply \in Nat /\ out \in Nat /\ in \in Nat /\ B \in Nat /\ InitialSupply \in Nat
  BY <1>1, InTransitType, TokenAccounts, TokenAssumption, IbcAssumption
     DEF IbcTypeOK, Ledgers, TokenTypeOK
<1>3. V + InitialSupply = B + supply + out + in
  BY DEF VaultBacksSupply
<1>4. SUFFICES V' + InitialSupply = B + supply' + out' + in'
  BY DEF VaultBacksSupply
<1>5. CASE UNCHANGED TheBridge!vars
  <2>1. V' = V /\ supply' = supply /\ Locked' = Locked /\ proxyMinted' = proxyMinted
        /\ Burned' = Burned /\ incomingTransferNonces' = incomingTransferNonces
    BY <1>5 DEF TheBridge!vars
  <2>2. out' = out /\ in' = in
    BY <2>1 DEF InTransit
  <2> HIDE DEF V, out, in, B
  <2> QED BY <1>3, <2>1, <2>2
<1>6. CASE TheBridge!Next
  <2>1. PICK t \in TransferNonces :
          \/ \E amount \in Amounts : TheBridge!Lock(t, amount) \/ TheBridge!Burn(t, amount)
          \/ TheBridge!Mint(t)
          \/ TheBridge!Credit(t)
    BY <1>6 DEF TheBridge!Next
  <2>2. ASSUME NEW amount \in Amounts, TheBridge!Lock(t, amount)
        PROVE  V' + InitialSupply = B + supply' + out' + in'
    <3>1. /\ Locked[t] = None /\ Locked' = [Locked EXCEPT ![t] = amount] /\ V' = V + amount
          /\ supply' = supply /\ proxyMinted' = proxyMinted /\ Burned' = Burned
          /\ incomingTransferNonces' = incomingTransferNonces
      BY <2>2 DEF TheBridge!Lock
    <3>2. InTransit(Locked', proxyMinted) = out + amount
      <4>1. /\ Locked'[t] = amount /\ t \notin proxyMinted
            /\ \A i \in TransferNonces : i # t => Locked'[i] = Locked[i]
        BY <1>1, <3>1
      <4>2. Locked[t] = None /\ Locked \in [TransferNonces -> Amounts \cup {None}]
        BY <1>1, <3>1
      <4> QED BY <4>1, <4>2, InTransitLeaves
    <3>3. out' = out + amount /\ in' = in
      BY <3>1, <3>2 DEF InTransit
    <3>4. amount \in Nat
      BY TokenAssumption
    <3> HIDE DEF V, out, in, B
    <3> QED BY <1>2, <1>3, <3>1, <3>3, <3>4
  <2>3. ASSUME NEW amount \in Amounts, TheBridge!Burn(t, amount)
        PROVE  V' + InitialSupply = B + supply' + out' + in'
    <3>1. /\ Burned[t] = None /\ Burned' = [Burned EXCEPT ![t] = amount] /\ V' = V
          /\ supply' = supply - amount /\ proxyMinted' = proxyMinted /\ Locked' = Locked
          /\ incomingTransferNonces' = incomingTransferNonces
      BY <2>3 DEF TheBridge!Burn
    <3>2. InTransit(Burned', incomingTransferNonces) = in + amount
      <4>1. /\ Burned'[t] = amount /\ t \notin incomingTransferNonces
            /\ \A i \in TransferNonces : i # t => Burned'[i] = Burned[i]
        BY <1>1, <3>1
      <4>2. Burned[t] = None /\ Burned \in [TransferNonces -> Amounts \cup {None}]
        BY <1>1, <3>1
      <4> QED BY <4>1, <4>2, InTransitLeaves
    <3>3. in' = in + amount /\ out' = out
      BY <3>1, <3>2 DEF InTransit
    <3>4. amount \in Nat
      BY TokenAssumption
    <3> HIDE DEF V, out, in, B
    <3> QED BY <1>2, <1>3, <3>1, <3>3, <3>4
  <2>4. ASSUME TheBridge!Mint(t)
        PROVE  V' + InitialSupply = B + supply' + out' + in'
    <3>1. /\ Locked[t] # None /\ t \notin proxyMinted /\ proxyMinted' = proxyMinted \cup {t}
          /\ supply' = supply + Locked[t] /\ V' = V /\ Locked' = Locked /\ Burned' = Burned
          /\ incomingTransferNonces' = incomingTransferNonces
      BY <2>4 DEF TheBridge!Mint
    <3>2. InTransit(Locked, proxyMinted \cup {t}) = out - Locked[t] /\ Locked[t] \in Nat
      BY <1>1, <3>1, InTransitArrives
    <3> DEFINE a == Locked[t]
    <3>3. out' = out - a /\ in' = in /\ V' = V /\ supply' = supply + a /\ a \in Nat
      BY <3>1, <3>2 DEF InTransit
    <3> HIDE DEF V, out, in, B, a
    <3> QED BY <1>2, <1>3, <3>3
  <2>5. ASSUME TheBridge!Credit(t)
        PROVE  V' + InitialSupply = B + supply' + out' + in'
    <3>1. /\ Burned[t] # None /\ t \notin incomingTransferNonces
          /\ incomingTransferNonces' = incomingTransferNonces \cup {t}
          /\ V' = V - Burned[t] /\ supply' = supply /\ Locked' = Locked /\ Burned' = Burned
          /\ proxyMinted' = proxyMinted
      BY <2>5 DEF TheBridge!Credit
    <3>2. /\ InTransit(Burned, incomingTransferNonces \cup {t}) = in - Burned[t]
          /\ Burned[t] \in Nat
      BY <1>1, <3>1, InTransitArrives
    <3>3. in' = in - Burned[t] /\ out' = out
      BY <3>1, <3>2 DEF InTransit
    <3> HIDE DEF V, out, in, B
    <3> QED BY <1>2, <1>3, <3>1, <3>2, <3>3
  <2> QED BY <2>1, <2>2, <2>3, <2>4, <2>5
<1> QED BY <1>5, <1>6

(***************************************************************************)
(* Every step keeps the invariant and is a step of the abstract bridge.    *)
(***************************************************************************)
\* A step that leaves the vault and the transfers alone is a stutter there.
LEMMA BridgeStutters ==
    ASSUME ledger'.free[EthereumVault] = ledger.free[EthereumVault],
           UNCHANGED <<outgoingTransfers, incomingTransferNonces, proxyVars>>
    PROVE  UNCHANGED TheBridge!vars
<1>1. Locked' = Locked /\ Burned' = Burned
  BY DEF Locked, Burned, proxyVars
<1> QED BY <1>1 DEF TheBridge!vars, proxyVars

\* do_send_message as this pallet uses it, from a ledger that differs from the
\* state's only by what was moved to the vault.
LEMMA PayAndSendStep ==
    ASSUME IbcTypeOK, HeldInv, FeeVaultPays, TokenTypeOK,
           NEW l \in Ledgers, l.held = ledger.held,
           l.free[EthereumFeeVault] >= ExistentialDeposit,
           NEW source \in Users, NEW nonce \in Nonces, NEW payload \in Payloads, NEW fee \in Fees,
           CanPayAndSend(l, source, nonce, fee), PayAndSend(l, source, nonce, payload, fee)
    PROVE  /\ IbcTypeOK' /\ HeldInv' /\ FeeVaultPays'
           /\ ledger'.free[EthereumVault] = l.free[EthereumVault]
           /\ emitted' = emitted
           /\ \A m \in sent' : m \in sent \/ m.payload = payload
<1> DEFINE f   == FeeMoved(l, source, fee)
           ttl == outgoing_transfer_ttl_or_default
           c   == ethereumContract
           FV  == EthereumFeeVault
           P   == PalletAccount
<1>1. /\ P \in Accounts /\ FV \in Accounts /\ fee \in Nat /\ nonce \in MessageNonces
      /\ payload \in Payloads \cup Accounts
  BY TokenAccounts, IbcAssumption DEF MessageNonces
<1>2. ttl \in Nat
  BY TokenAssumption DEF outgoing_transfer_ttl_or_default, TokenTypeOK
<1>3. c \in Subjects
  BY TokenAssumption DEF CanPayAndSend, TokenTypeOK, Subjects
<1>4. /\ do_send_message(P, FV, nonce, c, payload, ttl, fee)
      /\ CanSendMessage(f, P, FV, nonce, c, ttl, fee)
      /\ ledger' = Transfer(MessageHeld(l, source, nonce, fee), FV, source, ReplacedFee(nonce))
      /\ UNCHANGED <<now, oracles, counter, paid, inVars, remoteVars>>
  BY DEF PayAndSend, CanPayAndSend
<1>5. /\ ledger' \in Ledgers /\ ledger'.held = MessageHeld(l, source, nonce, fee).held
      /\ ledger'.free[EthereumVault] = l.free[EthereumVault]
      /\ ledger'.free[FV] >= ExistentialDeposit
      /\ f \in Ledgers /\ f.held = ledger.held
  BY <1>1, <1>4, PayAndSendLedger
<1> HIDE DEF f, ttl, c, FV, P
<1>6. /\ outgoing' \in [Ids -> OutgoingMessages \cup {None}]
      /\ outgoingLookup' \subseteq Subjects \X MessageNonces
      /\ sent' \subseteq Messages
  BY <1>1, <1>2, <1>3, <1>4, SendMessageType
<1>7. IbcTypeOK'
  BY <1>4, <1>5, <1>6 DEF IbcTypeOK, inVars, remoteVars
<1>8. /\ IsFiniteSet(Outstanding(outgoing'))
      /\ \A a \in Accounts : LedgerAfterSend(f, P, FV, nonce, fee).held[a] = OwedFees(outgoing', a)
  BY <1>1, <1>2, <1>3, <1>4, <1>5, SendHeld
<1>9. HeldInv'
  <2>1. LedgerAfterSend(f, P, FV, nonce, fee).held = ledger'.held
    BY <1>5 DEF MessageHeld, f, P, FV
  <2> QED BY <1>8, <2>1 DEF HeldInv, HeldIsOwedFees
<1>10. FeeVaultPays'
  <2>1. \A id \in Ids : outgoing'[id] = outgoing[id] \/ outgoing'[id].payer = FV
    BY <1>4 DEF do_send_message, IbcTypeOK
  <2> QED BY <1>5, <2>1 DEF FeeVaultPays, FV
<1>11. emitted' = emitted /\ \A m \in sent' : m \in sent \/ m.payload = payload
  BY <1>4 DEF remoteVars, do_send_message
<1> QED BY <1>5, <1>7, <1>9, <1>10, <1>11

\* transfer_native locks the amount in the vault under a new nonce.
LEMMA TransferStep ==
    ASSUME BaseInv, DoTransfer
    PROVE  BaseInv' /\ TheBridge!Next
<1>1. PICK source \in Users, dest \in Dests, amount \in Amounts, fee \in Fees :
        TransferNative(source, dest, amount, fee)
  BY DEF DoTransfer
<1> DEFINE n  == nextTransferNonce
           l  == Transfer(ledger, source, EthereumVault, amount)
           t  == [source |-> source, dest |-> dest, amount |-> amount]
           pl == TransferToken(amount, 0, n, dest)
<1>2. /\ n < MaxTransfers /\ amount >= MinTransferAmount
      /\ CanTransfer(ledger, source, EthereumVault, amount)
      /\ CanPayAndSend(l, source, TransferMessageNonce(n), fee)
      /\ PayAndSend(l, source, TransferMessageNonce(n), pl, fee)
      /\ nextTransferNonce' = n + 1
      /\ outgoingTransfers' = [outgoingTransfers EXCEPT ![n] = t]
      /\ UNCHANGED <<configVars, nextEnableNonce, incomingTransferNonces, proxyVars>>
  BY <1>1 DEF TransferNative
<1>3. /\ n \in TransferNonces /\ TransferMessageNonce(n) \in Nonces /\ pl \in Payloads
      /\ amount \in Nat
  <2>1. n \in TransferNonces
    BY <1>2, TokenAssumption DEF BaseInv, TokenTypeOK, TransferNonces
  <2> HIDE DEF n
  <2> QED BY <2>1, TransferAssumption, TokenAssumption
<1>4. /\ t \in OutgoingTransfers /\ t # None
      /\ t.source = source /\ t.dest = dest /\ t.amount = amount
  <2>1. t \in OutgoingTransfers
    BY DEF OutgoingTransfers
  <2> QED BY <2>1, TransferAssumption
<1>5. /\ l \in Ledgers /\ l.held = ledger.held
      /\ l.free[EthereumVault] = ledger.free[EthereumVault] + amount
      /\ l.free[EthereumFeeVault] >= ExistentialDeposit
  <2>1. /\ source \in Accounts /\ source # EthereumVault /\ source # EthereumFeeVault
        /\ EthereumVault \in Accounts /\ EthereumFeeVault \in Accounts
        /\ EthereumFeeVault # EthereumVault
    BY TokenAccounts
  <2>2. ledger \in Ledgers /\ ledger.free[EthereumFeeVault] >= ExistentialDeposit
    BY DEF BaseInv, IbcTypeOK, FeeVaultPays
  <2> QED BY <1>2, <1>3, <2>1, <2>2, TransferAllowed
<1> HIDE DEF n, l, t, pl
<1>6. /\ IbcTypeOK' /\ HeldInv' /\ FeeVaultPays'
      /\ ledger'.free[EthereumVault] = l.free[EthereumVault]
      /\ emitted' = emitted
      /\ \A m \in sent' : m \in sent \/ m.payload = pl
  BY <1>2, <1>3, <1>5, PayAndSendStep DEF BaseInv
<1>7. /\ outgoingTransfers \in [TransferNonces -> OutgoingTransfers \cup {None}]
      /\ outgoingTransfers[n] = None /\ n \notin proxyMinted
  BY <1>3 DEF BaseInv, TokenTypeOK, NoncesInOrder, ArrivedHadLeft, n
<1>8. /\ outgoingTransfers' \in [TransferNonces -> OutgoingTransfers \cup {None}]
      /\ outgoingTransfers'[n] = t
      /\ \A i \in TransferNonces : i # n => outgoingTransfers'[i] = outgoingTransfers[i]
  BY <1>2, <1>3, <1>4, <1>7
<1>9. TokenTypeOK'
  BY <1>2, <1>8 DEF BaseInv, TokenTypeOK, configVars, proxyVars, n
<1>10. NoncesInOrder'
  <2>1. ASSUME NEW i \in TransferNonces
        PROVE  /\ i >= n + 1 => outgoingTransfers'[i] = None
               /\ outgoingTransfers'[i] # None => outgoingTransfers'[i].amount >= MinTransferAmount
    <3>1. i \in Nat /\ n \in Nat
      BY DEF BaseInv, TokenTypeOK, TransferNonces, n
    <3>2. CASE i = n
      BY <1>2, <1>4, <1>8, <3>1, <3>2
    <3>3. CASE i # n
      BY <1>8, <3>1, <3>3 DEF BaseInv, NoncesInOrder, n
    <3> QED BY <3>2, <3>3
  <2> QED BY <1>2, <2>1 DEF NoncesInOrder
<1>11. SentIsLocked'
  <2> SUFFICES ASSUME NEW m \in sent'
               PROVE  \/ \E i \in TransferNonces :
                            /\ outgoingTransfers'[i] # None
                            /\ m.payload = TransferToken(outgoingTransfers'[i].amount, 0, i,
                                                         outgoingTransfers'[i].dest)
                      \/ \E b \in BOOLEAN : m.payload = SetEnabledAction(b)
    BY DEF SentIsLocked
  <2>1. CASE m \in sent
    BY <1>7, <1>8, <2>1 DEF BaseInv, SentIsLocked
  <2>2. CASE m.payload = pl
    <3>1. pl = TransferToken(outgoingTransfers'[n].amount, 0, n, outgoingTransfers'[n].dest)
      BY <1>4, <1>8 DEF pl
    <3> QED BY <1>3, <1>4, <1>8, <2>2, <3>1
  <2> QED BY <1>6, <2>1, <2>2
<1>12. EmittedIsBurned'
  BY <1>2, <1>6 DEF BaseInv, EmittedIsBurned, proxyVars
<1>13. ArrivedHadLeft'
  BY <1>2, <1>4, <1>8 DEF BaseInv, ArrivedHadLeft, TokenTypeOK, proxyVars
<1>14. TheBridge!Lock(n, amount)
  <2>1. Locked[n] = None
    BY <1>3, <1>7, AmountsType DEF BaseInv
  <2>2. Locked' = [Locked EXCEPT ![n] = amount]
    <3>1. \A i \in TransferNonces : Locked'[i] = IF i = n THEN amount ELSE Locked[i]
      BY <1>3, <1>4, <1>8 DEF Locked
    <3> QED BY <3>1 DEF Locked
  <2>3. Burned' = Burned
    BY <1>2 DEF Burned, proxyVars
  <2> QED BY <1>2, <1>5, <1>6, <2>1, <2>2, <2>3 DEF TheBridge!Lock, proxyVars
<1> QED
  BY <1>3, <1>6, <1>9, <1>10, <1>11, <1>12, <1>13, <1>14 DEF BaseInv, TheBridge!Next

\* A message whose payload belongs to what is stored keeps the rest.
LEMMA SendOnlyStep ==
    ASSUME BaseInv, NEW source \in Users, NEW nonce \in Nonces, NEW payload \in Payloads,
           NEW fee \in Fees,
           CanPayAndSend(ledger, source, nonce, fee),
           PayAndSend(ledger, source, nonce, payload, fee),
           \/ \E n \in TransferNonces :
                 /\ outgoingTransfers[n] # None
                 /\ payload = TransferToken(outgoingTransfers[n].amount, 0, n,
                                            outgoingTransfers[n].dest)
           \/ \E b \in BOOLEAN : payload = SetEnabledAction(b),
           nextEnableNonce' \in Nat,
           UNCHANGED <<configVars, outgoingTransfers, nextTransferNonce, incomingTransferNonces,
                       proxyVars>>
    PROVE  BaseInv' /\ UNCHANGED TheBridge!vars
<1>1. ledger \in Ledgers /\ ledger.free[EthereumFeeVault] >= ExistentialDeposit
  BY DEF BaseInv, IbcTypeOK, FeeVaultPays
<1>2. /\ IbcTypeOK' /\ HeldInv' /\ FeeVaultPays'
      /\ ledger'.free[EthereumVault] = ledger.free[EthereumVault]
      /\ emitted' = emitted
      /\ \A m \in sent' : m \in sent \/ m.payload = payload
  BY <1>1, PayAndSendStep DEF BaseInv
<1>3. TokenTypeOK' /\ NoncesInOrder' /\ EmittedIsBurned' /\ ArrivedHadLeft'
  BY <1>2 DEF BaseInv, TokenTypeOK, NoncesInOrder, EmittedIsBurned, ArrivedHadLeft, configVars,
              proxyVars
<1>4. SentIsLocked'
  <2>1. outgoingTransfers' = outgoingTransfers
    OBVIOUS
  <2> QED BY <1>2, <2>1 DEF BaseInv, SentIsLocked
<1> QED BY <1>2, <1>3, <1>4, BridgeStutters DEF BaseInv

\* retry_transfer_native sends the stored transfer again and locks nothing.
LEMMA RetryStep ==
    ASSUME BaseInv, DoRetry
    PROVE  BaseInv' /\ UNCHANGED TheBridge!vars
<1>1. PICK source \in Users, n \in TransferNonces, fee \in Fees :
        RetryTransferNative(source, n, fee)
  BY DEF DoRetry
<1> DEFINE t  == outgoingTransfers[n]
           pl == TransferToken(t.amount, 0, n, t.dest)
<1>2. /\ t # None /\ t.source = source
      /\ CanPayAndSend(ledger, source, TransferMessageNonce(n), fee)
      /\ PayAndSend(ledger, source, TransferMessageNonce(n), pl, fee)
      /\ UNCHANGED <<configVars, transferVars, incomingTransferNonces, proxyVars>>
  BY <1>1 DEF RetryTransferNative, CanRetry
<1>3. t \in OutgoingTransfers
  BY <1>2 DEF BaseInv, TokenTypeOK
<1>4. TransferMessageNonce(n) \in Nonces /\ pl \in Payloads
  <2>1. t.amount \in Amounts /\ t.dest \in Dests
    BY <1>3 DEF OutgoingTransfers
  <2> HIDE DEF t
  <2> QED BY <2>1, TransferAssumption
<1>5. nextEnableNonce' \in Nat /\ UNCHANGED <<outgoingTransfers, nextTransferNonce>>
  BY <1>2 DEF BaseInv, TokenTypeOK, transferVars
<1>6. \E i \in TransferNonces :
         /\ outgoingTransfers[i] # None
         /\ pl = TransferToken(outgoingTransfers[i].amount, 0, i, outgoingTransfers[i].dest)
  BY <1>2
<1> HIDE DEF t, pl
<1> QED BY <1>2, <1>4, <1>5, <1>6, SendOnlyStep

\* The administrative calls; enable_proxy_chain sends a message.
LEMMA AdministerStep ==
    ASSUME BaseInv, Administer
    PROVE  BaseInv' /\ UNCHANGED TheBridge!vars
<1>1. ASSUME UNCHANGED <<ibcVars, transferVars, incomingTransferNonces, proxyVars>>,
             TokenTypeOK'
      PROVE  BaseInv' /\ UNCHANGED TheBridge!vars
  <2>1. UNCHANGED TheBridge!vars
    BY <1>1, BridgeStutters DEF ibcVars, transferVars
  <2>2. IbcTypeOK' /\ HeldInv'
    BY <1>1, NextType, NextHeld DEF BaseInv
  <2>3. NoncesInOrder' /\ ArrivedHadLeft' /\ FeeVaultPays'
    BY <1>1 DEF BaseInv, NoncesInOrder, ArrivedHadLeft, FeeVaultPays, ibcVars, outVars,
                transferVars, proxyVars
  <2>4. SentIsLocked' /\ EmittedIsBurned'
    BY <1>1 DEF BaseInv, SentIsLocked, EmittedIsBurned, ibcVars, outVars, remoteVars,
                transferVars, proxyVars
  <2> QED BY <1>1, <2>1, <2>2, <2>3, <2>4 DEF BaseInv
<1>2. CASE \E b \in BOOLEAN : SetEnabled(b)
  <2>1. TokenTypeOK' /\ UNCHANGED <<ibcVars, transferVars, incomingTransferNonces, proxyVars>>
    BY <1>2 DEF SetEnabled, BaseInv, TokenTypeOK, transferVars, proxyVars
  <2> QED BY <1>1, <2>1
<1>3. CASE \E contract \in Contracts : UpdateEthereumContract(contract)
  <2>1. TokenTypeOK' /\ UNCHANGED <<ibcVars, transferVars, incomingTransferNonces, proxyVars>>
    BY <1>3 DEF UpdateEthereumContract, BaseInv, TokenTypeOK, transferVars, proxyVars
  <2> QED BY <1>1, <2>1
<1>4. CASE \E ttl \in TTLs \cup {None} : UpdateOutgoingTransferTTL(ttl)
  <2>1. TokenTypeOK' /\ UNCHANGED <<ibcVars, transferVars, incomingTransferNonces, proxyVars>>
    BY <1>4, IbcAssumption
       DEF UpdateOutgoingTransferTTL, BaseInv, TokenTypeOK, transferVars, proxyVars
  <2> QED BY <1>1, <2>1
<1>5. CASE \E b \in BOOLEAN, fee \in Fees : EnableProxyChain(b, fee)
  <2>1. PICK b \in BOOLEAN, fee \in Fees : EnableProxyChain(b, fee)
    BY <1>5
  <2> DEFINE nonce == EnableMessageNonce(nextEnableNonce)
  <2>2. /\ nextEnableNonce < MaxEnables
        /\ CanPayAndSend(ledger, OperationalFeeAccount, nonce, fee)
        /\ PayAndSend(ledger, OperationalFeeAccount, nonce, SetEnabledAction(b), fee)
        /\ nextEnableNonce' = nextEnableNonce + 1
        /\ UNCHANGED <<configVars, outgoingTransfers, nextTransferNonce,
                       incomingTransferNonces, proxyVars>>
    BY <2>1 DEF EnableProxyChain
  <2>3. nonce \in Nonces /\ SetEnabledAction(b) \in Payloads /\ nextEnableNonce' \in Nat
    BY <2>2, TransferAssumption, TokenAssumption DEF BaseInv, TokenTypeOK
  <2>4. OperationalFeeAccount \in Users
    BY TokenAssumption
  <2> HIDE DEF nonce
  <2> QED BY <2>2, <2>3, <2>4, SendOnlyStep
<1> QED BY <1>2, <1>3, <1>4, <1>5 DEF Administer

\* confirm_message_delivery, remove_message and the steps of the message layer
\* without money: the vault is not touched, the fee vault only gains.
LEMMA IbcLayerStep ==
    ASSUME BaseInv, IbcStep
    PROVE  BaseInv' /\ UNCHANGED TheBridge!vars
<1> DEFINE V  == EthereumVault
           FV == EthereumFeeVault
<1>1. IbcTypeOK' /\ HeldInv'
  <2>1. IbcNext
    BY DEF IbcStep, IbcNext
  <2> QED BY <2>1, NextType, NextHeld DEF BaseInv
<1>2. UNCHANGED <<configVars, transferVars, incomingTransferNonces, proxyVars>>
  BY DEF IbcStep
<1>3. V \in Accounts /\ FV \in Accounts /\ V # FV
  BY TokenAccounts
<1>4. /\ sent' = sent /\ emitted' = emitted
      /\ \A id \in Ids : outgoing'[id] = outgoing[id] \/ outgoing'[id] = None
      /\ ledger'.free[V] = ledger.free[V]
      /\ ledger'.free[FV] >= ledger.free[FV]
  <2>0. ledger \in Ledgers /\ ledger.free \in [Accounts -> Nat] /\ ledger.held \in [Accounts -> Nat]
    BY DEF BaseInv, IbcTypeOK, Ledgers
  <2>1. CASE NextBlock \/ Update \/ Clean
    <3>1. UNCHANGED <<ledger, outgoing, sent, emitted>>
      BY <2>1 DEF NextBlock, Update, UpdateOracles, Clean, CleanIncoming, outVars, remoteVars
    <3> QED BY <1>3, <2>0, <3>1
  <2>2. CASE Confirm
    <3>1. PICK who \in Relayers, id \in Ids, sigs \in SignatureLists :
            outgoing[id] # None /\ ConfirmMessageDelivery(who, id, sigs)
      BY <2>2 DEF Confirm
    <3>2. /\ ClearOutgoing(id) /\ UNCHANGED <<sent, remoteVars>>
          /\ ledger' = TransferOnHold(ledger, outgoing[id].payer, who, outgoing[id].fee)
      BY <3>1 DEF ConfirmMessageDelivery
    <3>3. \A i \in Ids : outgoing'[i] = outgoing[i] \/ outgoing'[i] = None
      BY <3>2 DEF ClearOutgoing, BaseInv, IbcTypeOK
    <3>4. who \in Accounts /\ who # V /\ who # FV
      BY TokenAccounts, TokenAssumption
    <3>5. ledger'.free = [ledger.free EXCEPT ![who] = @ + outgoing[id].fee]
      BY <2>0, <3>2 DEF TransferOnHold, Deposit, Ledgers
    <3>6. ledger'.free[V] = ledger.free[V] /\ ledger'.free[FV] = ledger.free[FV]
      <4> HIDE DEF V, FV
      <4> QED BY <1>3, <2>0, <3>4, <3>5
    <3>7. ledger.free[FV] \in Nat
      BY <1>3, <2>0
    <3> HIDE DEF V, FV
    <3> QED BY <3>2, <3>3, <3>6, <3>7 DEF remoteVars
  <2>3. CASE Remove
    <3>1. PICK id \in Ids : RemoveMessage(id)
      BY <2>3 DEF Remove
    <3>2. /\ outgoing[id] # None /\ ClearOutgoing(id) /\ UNCHANGED <<sent, remoteVars>>
          /\ ledger' = ReleaseBestEffort(ledger, outgoing[id].payer, outgoing[id].fee)
      BY <3>1 DEF RemoveMessage
    <3>3. \A i \in Ids : outgoing'[i] = outgoing[i] \/ outgoing'[i] = None
      BY <3>2 DEF ClearOutgoing, BaseInv, IbcTypeOK
    <3>4. outgoing[id].payer = FV /\ outgoing[id].fee \in Nat /\ ledger.held[FV] >= outgoing[id].fee
      BY <3>2, FeeIsHeld DEF BaseInv, FeeVaultPays, CanRelease
    <3>5. ledger' = Release(ledger, FV, outgoing[id].fee)
      <4> HIDE DEF FV
      <4> QED BY <1>3, <2>0, <3>2, <3>4 DEF ReleaseBestEffort
    <3>6. /\ ledger'.free[V] = ledger.free[V] + 0
          /\ ledger'.free[FV] = ledger.free[FV] + outgoing[id].fee
      <4> HIDE DEF V, FV
      <4> QED BY <1>3, <2>0, <3>4, <3>5, ReleaseMoves
    <3>7. ledger.free[FV] \in Nat /\ ledger.free[V] \in Nat
      BY <1>3, <2>0
    <3>8. ledger'.free[V] = ledger.free[V] /\ ledger'.free[FV] >= ledger.free[FV]
      <4> HIDE DEF V, FV
      <4> QED BY <3>4, <3>6, <3>7
    <3> HIDE DEF V, FV
    <3> QED BY <3>2, <3>3, <3>8 DEF remoteVars
  <2> QED BY <2>1, <2>2, <2>3 DEF IbcStep
<1>5. FeeVaultPays'
  <2>1. ledger.free[FV] \in Nat /\ ledger'.free[FV] \in Nat
    BY <1>1, <1>3 DEF BaseInv, IbcTypeOK, Ledgers
  <2>2. ledger'.free[FV] >= ExistentialDeposit
    <3> HIDE DEF V
    <3> QED BY <1>4, <2>1, ExistentialDepositAssumption DEF BaseInv, FeeVaultPays
  <2> QED BY <1>4, <2>2 DEF BaseInv, FeeVaultPays
<1>6. TokenTypeOK' /\ NoncesInOrder' /\ ArrivedHadLeft'
  BY <1>2 DEF BaseInv, TokenTypeOK, NoncesInOrder, ArrivedHadLeft, configVars, transferVars,
              proxyVars
<1>7. SentIsLocked' /\ EmittedIsBurned'
  BY <1>2, <1>4 DEF BaseInv, SentIsLocked, EmittedIsBurned, transferVars, proxyVars
<1> QED BY <1>1, <1>2, <1>4, <1>5, <1>6, <1>7, BridgeStutters DEF BaseInv, transferVars

\* receive_message pays a transfer out of the vault only if the quorum attests
\* that the configured contract emitted it, so it burned the tokens; a nonce
\* is credited once.
LEMMA ReceiveStep ==
    ASSUME BaseInv, DoReceive
    PROVE  BaseInv' /\ (TheBridge!Next \/ UNCHANGED TheBridge!vars)
<1>1. PICK m \in RemoteMessages, sigs \in SignatureLists :
        Obtainable(sigs, m \in emitted) /\ ReceiveTokenMessage(m, sigs)
  BY DEF DoReceive
<1> DEFINE V  == EthereumVault
           FV == EthereumFeeVault
           n  == m.payload.transfer_nonce
           a  == m.payload.amount
           d  == m.payload.dest
<1>2. AcceptMessage(m, sigs) /\ execute(m)
      /\ UNCHANGED <<now, oracles, outVars, remoteVars, configVars, transferVars, proxyVars>>
  BY <1>1 DEF ReceiveTokenMessage
<1>3. m \in emitted
  BY <1>1, <1>2, QuorumAttests, QuorumAssumption DEF AcceptMessage, Obtainable
<1>4. n \in TransferNonces /\ a \in Amounts /\ a \in Nat /\ d \in Users
  BY TokenAssumption DEF TransferNonces
<1>5. /\ V \in Accounts /\ FV \in Accounts /\ V # FV
      /\ d \in Accounts /\ d # V /\ d # FV
  BY <1>4, TokenAccounts
<1>6. \/ /\ Executable(m)
         /\ incomingTransferNonces' = incomingTransferNonces \cup {n}
         /\ ledger' = Transfer(ledger, V, d, a)
      \/ UNCHANGED <<incomingTransferNonces, ledger>>
  BY <1>2 DEF execute
<1>7. /\ ledger \in Ledgers /\ ledger.free \in [Accounts -> Nat]
      /\ ledger.free[FV] >= ExistentialDeposit
  BY DEF BaseInv, IbcTypeOK, Ledgers, FeeVaultPays
<1>8. /\ ledger' \in Ledgers /\ ledger'.held = ledger.held /\ ledger'.free[FV] = ledger.free[FV]
      /\ Executable(m) /\ ledger' = Transfer(ledger, V, d, a) =>
            ledger'.free[V] = ledger.free[V] - a
  <2>1. CASE Executable(m) /\ ledger' = Transfer(ledger, V, d, a)
    <3>1. CanTransfer(ledger, V, d, a)
      BY <2>1 DEF Executable
    <3> HIDE DEF V, FV, a, d
    <3> QED BY <1>4, <1>5, <1>7, <2>1, <3>1, TransferAllowed
  <2>2. CASE UNCHANGED ledger /\ ~(Executable(m) /\ ledger' = Transfer(ledger, V, d, a))
    BY <1>7, <2>2
  <2> QED BY <1>6, <2>1, <2>2
<1>9. IbcTypeOK'
  <2>1. m \in Messages /\ message_id(m.sender, m.nonce) \in Ids /\ m.recipient \in Subjects
    BY RemoteMessagesAssumption DEF Messages, message_id, Ids
  <2>2. [message |-> m, current_block |-> now] \in IncomingMessages
    BY <2>1 DEF BaseInv, IbcTypeOK, IncomingMessages
  <2> QED BY <1>2, <1>8, <2>1, <2>2
          DEF AcceptMessage, BaseInv, IbcTypeOK, outVars, remoteVars
<1>10. HeldInv' /\ FeeVaultPays'
  <2>1. outgoing' = outgoing
    BY <1>2 DEF outVars
  <2>2. HeldInv'
    BY <1>8, <2>1 DEF BaseInv, HeldInv, HeldIsOwedFees, OwedFees, OwedBy, Outstanding
  <2> QED BY <1>7, <1>8, <2>1, <2>2 DEF BaseInv, FeeVaultPays
<1>11. NoncesInOrder' /\ SentIsLocked' /\ EmittedIsBurned'
  BY <1>2 DEF BaseInv, NoncesInOrder, SentIsLocked, EmittedIsBurned, outVars, remoteVars,
              transferVars, proxyVars
<1>12. TokenTypeOK'
  BY <1>2, <1>4, <1>6 DEF BaseInv, TokenTypeOK, configVars, transferVars, proxyVars
<1>13. CASE UNCHANGED <<incomingTransferNonces, ledger>>
  <2>1. ArrivedHadLeft'
    BY <1>2, <1>13 DEF BaseInv, ArrivedHadLeft, transferVars, proxyVars
  <2> QED BY <1>2, <1>9, <1>10, <1>11, <1>12, <1>13, <2>1, BridgeStutters DEF BaseInv, transferVars
<1>14. CASE /\ Executable(m)
            /\ incomingTransferNonces' = incomingTransferNonces \cup {n}
            /\ ledger' = Transfer(ledger, V, d, a)
  <2>1. m.sender = ethereumContract /\ m.payload.asset_id = 0 /\ n \notin incomingTransferNonces
    BY <1>14 DEF Executable
  <2>2. m.sender \in Contracts
    BY <1>3, <2>1, TransferAssumption DEF BaseInv, EmittedIsBurned, TokenTypeOK
  <2>3. proxyBurned[n] = <<a, d>>
    BY <1>3, <2>1, <2>2 DEF BaseInv, EmittedIsBurned
  <2>4. proxyBurned[n] # None /\ proxyBurned[n][1] = a
    BY <1>4, <2>3, TransferAssumption
  <2>5. ArrivedHadLeft'
    BY <1>2, <1>14, <2>4 DEF BaseInv, ArrivedHadLeft, transferVars, proxyVars
  <2>6. Burned[n] # None /\ Burned[n] = a
    <3> HIDE DEF n, a
    <3> QED BY <1>4, <2>4, AmountsType DEF BaseInv
  <2>7. ledger'.free[V] = ledger.free[V] - a
    BY <1>8, <1>14
  <2>8. Locked' = Locked /\ Burned' = Burned
    BY <1>2 DEF Locked, Burned, transferVars, proxyVars
  <2>9. UNCHANGED <<supply, proxyMinted>>
    BY <1>2 DEF proxyVars
  <2> HIDE DEF n, a, d
  <2>10. TheBridge!Credit(n)
    BY <1>14, <2>1, <2>6, <2>7, <2>8, <2>9 DEF TheBridge!Credit
  <2> QED BY <1>4, <1>9, <1>10, <1>11, <1>12, <2>5, <2>10 DEF BaseInv, TheBridge!Next
<1> QED BY <1>6, <1>13, <1>14

\* The proxy burns a transfer before it emits it for the first time.
LEMMA EmitStep ==
    ASSUME BaseInv, NEW m \in RemoteMessages, ProxyEmit(m)
    PROVE  BaseInv' /\ (TheBridge!Next \/ UNCHANGED TheBridge!vars)
<1> DEFINE n == m.payload.transfer_nonce
           a == m.payload.amount
           d == m.payload.dest
<1>1. RemoteEmit(m) /\ UNCHANGED <<proxyMinted, configVars, transferVars, incomingTransferNonces>>
  BY DEF ProxyEmit
<1>2. IbcTypeOK' /\ HeldInv'
  <2>1. IbcNext
    BY <1>1 DEF IbcNext, Emit
  <2> QED BY <2>1, NextType, NextHeld DEF BaseInv
<1>3. /\ UNCHANGED <<ledger, outgoing, sent>> /\ emitted' = emitted \cup {m}
      /\ m.sender \in Remotes
  BY <1>1 DEF RemoteEmit, outVars
<1>4. n \in TransferNonces /\ a \in Amounts /\ a \in Nat /\ d \in Users
  BY TokenAssumption DEF TransferNonces
<1>5. NoncesInOrder' /\ SentIsLocked' /\ FeeVaultPays'
  BY <1>1, <1>3 DEF BaseInv, NoncesInOrder, SentIsLocked, FeeVaultPays, transferVars
<1>6. CASE /\ m.sender \in Contracts /\ m.payload.asset_id = 0
           /\ proxyBurned[n] = None /\ a <= supply
           /\ proxyBurned' = [proxyBurned EXCEPT ![n] = <<a, d>>]
           /\ supply' = supply - a
  <2>1. proxyBurned \in [TransferNonces -> (Amounts \X Users) \cup {None}] /\ supply \in Nat
    BY DEF BaseInv, TokenTypeOK
  <2>2. <<a, d>> \in Amounts \X Users /\ <<a, d>> # None
    BY <1>4, TransferAssumption
  <2> HIDE DEF n, a, d
  <2>3. /\ proxyBurned' \in [TransferNonces -> (Amounts \X Users) \cup {None}]
        /\ proxyBurned'[n] = <<a, d>>
        /\ \A i \in TransferNonces : i # n => proxyBurned'[i] = proxyBurned[i]
        /\ supply' \in Nat
    BY <1>4, <1>6, <2>1, <2>2
  <2>4. TokenTypeOK'
    BY <1>1, <2>3 DEF BaseInv, TokenTypeOK, configVars, transferVars
  <2>5. EmittedIsBurned'
    <3> SUFFICES ASSUME NEW x \in emitted'
                 PROVE  /\ x \in RemoteMessages /\ x.sender \in Remotes
                        /\ x.sender \in Contracts /\ x.payload.asset_id = 0 =>
                              proxyBurned'[x.payload.transfer_nonce]
                                = <<x.payload.amount, x.payload.dest>>
      BY DEF EmittedIsBurned
    <3>1. CASE x = m
      BY <1>3, <2>3, <3>1 DEF n, a, d
    <3>2. CASE x \in emitted
      <4>1. x \in RemoteMessages /\ x.sender \in Remotes
        BY <3>2 DEF BaseInv, EmittedIsBurned
      <4>2. ASSUME x.sender \in Contracts, x.payload.asset_id = 0
            PROVE  proxyBurned'[x.payload.transfer_nonce] = <<x.payload.amount, x.payload.dest>>
        <5>1. proxyBurned[x.payload.transfer_nonce] = <<x.payload.amount, x.payload.dest>>
          BY <3>2, <4>2 DEF BaseInv, EmittedIsBurned
        <5>2. /\ x.payload.transfer_nonce \in TransferNonces
              /\ <<x.payload.amount, x.payload.dest>> # None
          BY <4>1, TokenAssumption, TransferAssumption DEF TransferNonces
        <5>3. x.payload.transfer_nonce # n
          BY <1>6, <5>1, <5>2
        <5> QED BY <2>3, <5>1, <5>2, <5>3
      <4> QED BY <4>1, <4>2
    <3> QED BY <1>3, <3>1, <3>2
  <2>6. ArrivedHadLeft'
    BY <1>1, <2>2, <2>3 DEF BaseInv, TokenTypeOK, ArrivedHadLeft, transferVars
  <2>7. Burned[n] = None
    BY <1>4, <1>6, AmountsType DEF BaseInv
  <2>8. Burned' = [Burned EXCEPT ![n] = a]
    <3>1. <<a, d>>[1] = a
      OBVIOUS
    <3>2. \A i \in TransferNonces : Burned'[i] = IF i = n THEN a ELSE Burned[i]
      BY <1>4, <2>2, <2>3, <3>1 DEF Burned
    <3> QED BY <3>2 DEF Burned
  <2>9. Locked' = Locked /\ UNCHANGED <<ledger, proxyMinted, incomingTransferNonces>>
    BY <1>1, <1>3 DEF Locked, transferVars
  <2>10. TheBridge!Burn(n, a)
    BY <1>6, <2>7, <2>8, <2>9 DEF TheBridge!Burn
  <2> QED BY <1>2, <1>4, <1>5, <2>4, <2>5, <2>6, <2>10 DEF BaseInv, TheBridge!Next
<1>7. CASE /\ UNCHANGED <<proxyBurned, supply>>
           /\ m.sender \in Contracts /\ m.payload.asset_id = 0 => proxyBurned[n] = <<a, d>>
  <2>1. TokenTypeOK' /\ ArrivedHadLeft'
    BY <1>1, <1>7 DEF BaseInv, TokenTypeOK, ArrivedHadLeft, configVars, transferVars
  <2>2. EmittedIsBurned'
    BY <1>3, <1>7 DEF BaseInv, EmittedIsBurned
  <2>3. UNCHANGED TheBridge!vars
    BY <1>1, <1>3, <1>7, BridgeStutters DEF transferVars, proxyVars
  <2> QED BY <1>2, <1>5, <2>1, <2>2, <2>3 DEF BaseInv
<1> QED BY <1>6, <1>7 DEF ProxyEmit

\* The proxy mints what a delivered message announces, once per nonce, and
\* every message sent announces a locked transfer.
LEMMA DeliverStep ==
    ASSUME BaseInv, NEW m \in sent, NEW relayer \in Relayers, ProxyDeliver(m, relayer)
    PROVE  BaseInv' /\ (TheBridge!Next \/ UNCHANGED TheBridge!vars)
<1>1. /\ RemoteDeliver(m, relayer)
      /\ UNCHANGED <<proxyBurned, configVars, transferVars, incomingTransferNonces>>
  BY DEF ProxyDeliver
<1>2. IbcTypeOK' /\ HeldInv'
  <2>1. IbcNext
    BY <1>1 DEF IbcNext, Deliver
  <2> QED BY <2>1, NextType, NextHeld DEF BaseInv
<1>3. UNCHANGED <<ledger, outgoing, sent, emitted>>
  BY <1>1 DEF RemoteDeliver, outVars
<1>4. NoncesInOrder' /\ SentIsLocked' /\ FeeVaultPays' /\ EmittedIsBurned'
  BY <1>1, <1>3 DEF BaseInv, NoncesInOrder, SentIsLocked, FeeVaultPays, EmittedIsBurned,
                    transferVars
<1>5. CASE ~ProxyMints(m)
  <2>1. UNCHANGED <<proxyMinted, supply>>
    BY <1>5 DEF ProxyDeliver
  <2>2. TokenTypeOK' /\ ArrivedHadLeft'
    BY <1>1, <2>1 DEF BaseInv, TokenTypeOK, ArrivedHadLeft, configVars, transferVars
  <2>3. UNCHANGED TheBridge!vars
    BY <1>1, <1>3, <2>1, BridgeStutters DEF transferVars, proxyVars
  <2> QED BY <1>2, <1>4, <2>2, <2>3 DEF BaseInv
<1>6. CASE ProxyMints(m)
  <2>1. ~ \E b \in BOOLEAN : m.payload = SetEnabledAction(b)
    <3>1. \A b \in BOOLEAN : SetEnabledAction(b).action = "SetEnabled"
      BY DEF SetEnabledAction
    <3>2. m.payload.action = "TransferToken"
      BY <1>6 DEF ProxyMints
    <3> QED BY <3>1, <3>2
  <2>2. PICK n \in TransferNonces :
          /\ outgoingTransfers[n] # None
          /\ m.payload = TransferToken(outgoingTransfers[n].amount, 0, n, outgoingTransfers[n].dest)
    BY <2>1 DEF BaseInv, SentIsLocked
  <2>3. m.payload.transfer_nonce = n /\ m.payload.amount = outgoingTransfers[n].amount
    BY <2>2 DEF TransferToken
  <2>4. /\ n \notin proxyMinted /\ proxyMinted' = proxyMinted \cup {n}
        /\ supply' = supply + outgoingTransfers[n].amount
    BY <1>6, <2>3 DEF ProxyMints, ProxyDeliver
  <2>5. outgoingTransfers[n].amount \in Nat
    BY <2>2, TokenAssumption DEF BaseInv, TokenTypeOK, OutgoingTransfers
  <2>6. TokenTypeOK'
    BY <1>1, <2>4, <2>5 DEF BaseInv, TokenTypeOK, configVars, transferVars
  <2>7. ArrivedHadLeft'
    BY <1>1, <2>2, <2>4 DEF BaseInv, ArrivedHadLeft, transferVars
  <2>8. Locked[n] # None /\ Locked[n] = outgoingTransfers[n].amount
    BY <2>2, AmountsType DEF BaseInv
  <2>9. Locked' = Locked /\ Burned' = Burned
    BY <1>1 DEF Locked, Burned, transferVars
  <2>10. TheBridge!Mint(n)
    BY <1>1, <1>3, <2>4, <2>8, <2>9 DEF TheBridge!Mint
  <2> QED BY <1>2, <1>4, <2>6, <2>7, <2>10 DEF BaseInv, TheBridge!Next
<1> QED BY <1>5, <1>6

\* Every step of the pallet, the message layer and the proxy keeps the
\* invariant and is a step of the abstract bridge, or none.
LEMMA TokenStep ==
    ASSUME BaseInv, [TokenNext]_tokenVars
    PROVE  BaseInv' /\ [TheBridge!Next]_(TheBridge!vars)
<1>1. CASE UNCHANGED tokenVars
  <2>1. UNCHANGED <<ibcVars, configVars, transferVars, incomingTransferNonces, proxyVars>>
    BY <1>1 DEF tokenVars
  <2>2. UNCHANGED TheBridge!vars
    BY <2>1, BridgeStutters DEF ibcVars, transferVars
  <2>3. IbcTypeOK' /\ HeldInv'
    BY <2>1, NextType, NextHeld DEF BaseInv
  <2>4. TokenTypeOK' /\ NoncesInOrder' /\ ArrivedHadLeft' /\ FeeVaultPays'
    BY <2>1 DEF BaseInv, TokenTypeOK, NoncesInOrder, ArrivedHadLeft, FeeVaultPays, ibcVars,
                outVars, configVars, transferVars, proxyVars
  <2>5. SentIsLocked' /\ EmittedIsBurned'
    BY <2>1 DEF BaseInv, SentIsLocked, EmittedIsBurned, ibcVars, outVars, remoteVars,
                transferVars, proxyVars
  <2> QED BY <2>2, <2>3, <2>4, <2>5 DEF BaseInv
<1>2. CASE IbcStep
  BY <1>2, IbcLayerStep
<1>3. CASE DoTransfer
  BY <1>3, TransferStep
<1>4. CASE DoRetry
  BY <1>4, RetryStep
<1>5. CASE DoReceive
  BY <1>5, ReceiveStep
<1>6. CASE Administer
  BY <1>6, AdministerStep
<1>7. CASE \E m \in RemoteMessages : ProxyEmit(m)
  BY <1>7, EmitStep
<1>8. CASE \E m \in sent, relayer \in Relayers : ProxyDeliver(m, relayer)
  BY <1>8, DeliverStep
<1> QED BY <1>1, <1>2, <1>3, <1>4, <1>5, <1>6, <1>7, <1>8 DEF TokenNext, Ethereum

\* At genesis nothing is under way.
LEMMA TokenInitInv == TokenInit => TokenInv /\ TheBridge!Init
<1> SUFFICES ASSUME TokenInit PROVE TokenInv /\ TheBridge!Init
  OBVIOUS
<1>1. IbcTypeOK /\ HeldInv
  BY InitType, InitHeld DEF TokenInit
<1>2. TokenTypeOK /\ NoncesInOrder /\ ArrivedHadLeft
  BY TokenAssumption DEF TokenInit, TokenTypeOK, NoncesInOrder, ArrivedHadLeft
<1>3. SentIsLocked /\ EmittedIsBurned
  BY DEF TokenInit, IbcInit, SentIsLocked, EmittedIsBurned
<1>4. ledger.free = InitialBalances /\ outgoing = [id \in Ids |-> None]
  BY DEF TokenInit, IbcInit
<1>5. FeeVaultPays
  BY <1>4, FeeVaultAssumption DEF FeeVaultPays
<1>6. /\ Locked = [n \in TransferNonces |-> None] /\ Burned = [n \in TransferNonces |-> None]
      /\ proxyMinted = {} /\ incomingTransferNonces = {} /\ supply = InitialSupply
  BY DEF TokenInit, Locked, Burned
<1>7. InTransit(Locked, proxyMinted) = 0 /\ InTransit(Burned, incomingTransferNonces) = 0
  <2>1. /\ {n \in TransferNonces : Locked[n] # None} \ proxyMinted = {}
        /\ {n \in TransferNonces : Burned[n] # None} \ incomingTransferNonces = {}
    BY <1>6
  <2> QED BY <2>1, SumEmpty DEF InTransit
<1>8. InitialBalances[EthereumVault] \in Nat /\ InitialSupply \in Nat
  BY TokenAccounts, TokenAssumption, IbcAssumption
<1>9. VaultBacksSupply
  BY <1>4, <1>6, <1>7, <1>8 DEF VaultBacksSupply
<1>10. TheBridge!Init
  <2>1. InitialBalances[EthereumVault] =
          InitialSupply + (InitialBalances[EthereumVault] - InitialSupply)
    BY <1>8
  <2> QED BY <1>4, <1>6, <1>8, <2>1 DEF TheBridge!Init
<1> QED BY <1>1, <1>2, <1>3, <1>5, <1>9, <1>10 DEF TokenInv, BaseInv

\* The invariant is inductive.
LEMMA TokenNextInv ==
    TokenInv /\ [TokenNext]_tokenVars => TokenInv' /\ [TheBridge!Next]_(TheBridge!vars)
<1> SUFFICES ASSUME TokenInv, [TokenNext]_tokenVars
             PROVE  TokenInv' /\ [TheBridge!Next]_(TheBridge!vars)
  OBVIOUS
<1>1. BaseInv' /\ [TheBridge!Next]_(TheBridge!vars)
  BY TokenStep DEF TokenInv
<1>2. VaultBacksSupply'
  BY <1>1, BridgeBacks DEF TokenInv, BaseInv
<1> QED BY <1>1, <1>2 DEF TokenInv

\* The token pallet, the message layer and the proxy keep the invariant, with
\* faulty oracle keys, retries, replaced, repeated and foreign messages.
THEOREM TokenInvCorrect == TokenSpec => []TokenInv
<1> QED BY TokenInitInv, TokenNextInv, PTL DEF TokenSpec

\* The refinement: transfer_native, retry_transfer_native, receive_message and
\* the proxy lock, mint, burn and credit every transfer at most once, and
\* mint and credit only what was locked and burned.
THEOREM ImplementsBridgeCorrect == TokenSpec => ImplementsBridge
<1>1. TokenInv /\ [TokenNext]_tokenVars => [TheBridge!Next]_(TheBridge!vars)
  BY TokenNextInv
<1> QED BY <1>1, TokenInitInv, TokenInvCorrect, PTL DEF TokenSpec, ImplementsBridge, TheBridge!Spec

\* The vault backs the supply on Ethereum and everything under way, at every
\* moment and in both directions at once.
THEOREM VaultBacksSupplyCorrect == TokenSpec => []VaultBacksSupply
<1>1. TokenInv => VaultBacksSupply
  BY DEF TokenInv
<1> QED BY <1>1, TokenInvCorrect, PTL

\* The fee vault can always hold the new fee and refund the old one, so
\* retry_transfer_native fails only for lack of money of the source.
LEMMA RetryPossible == BaseInv => RetryNeverBlocked
<1> SUFFICES ASSUME BaseInv, NEW n \in TransferNonces, NEW fee \in Fees,
                    enabled, ethereumContract # None, outgoingTransfers[n] # None,
                    fee >= MinFee, outgoing_transfer_ttl_or_default >= MinTTL,
                    Replaced(PalletAccount, TransferMessageNonce(n)) # None =>
                       Replaced(PalletAccount, TransferMessageNonce(n)).ttl_block < now,
                    ledger.free[outgoingTransfers[n].source] >= fee + ExistentialDeposit
             PROVE  CanRetry(n, fee)
  BY DEF RetryNeverBlocked
<1> DEFINE source == outgoingTransfers[n].source
           nonce  == TransferMessageNonce(n)
           f      == FeeMoved(ledger, source, fee)
           r      == ReleaseReplaced(f, PalletAccount, nonce)
           h      == MessageHeld(ledger, source, nonce, fee)
           old    == Replaced(PalletAccount, nonce)
           FV     == EthereumFeeVault
           back   == ReplacedFee(nonce)
<1>1. source \in Users /\ outgoingTransfers[n].amount >= MinTransferAmount
  BY DEF BaseInv, TokenTypeOK, OutgoingTransfers, NoncesInOrder
<1>2. fee \in Nat /\ nonce \in MessageNonces /\ ExistentialDeposit \in Nat
  BY TransferAssumption, IbcAssumption, ExistentialDepositAssumption DEF MessageNonces
<1>3. source \in Accounts /\ FV \in Accounts
  BY <1>1, TokenAccounts
<1>4. /\ ledger \in Ledgers /\ ledger.free[FV] \in Nat /\ ledger.free[source] \in Nat
      /\ ledger.free[FV] >= ExistentialDeposit
  BY <1>3 DEF BaseInv, IbcTypeOK, Ledgers, FeeVaultPays
<1>5. ledger.free[source] >= fee + ExistentialDeposit /\ ledger.free[source] >= fee
  <2>1. ledger.free[source] >= fee + ExistentialDeposit
    OBVIOUS
  <2> HIDE DEF source
  <2> QED BY <1>2, <1>4, <2>1
<1>6. /\ back \in Nat
      /\ old # None => CanRelease(f, old.payer, old.fee)
      /\ r.free[FV] = ledger.free[FV] + fee + back
      /\ h.free[FV] = ledger.free[FV] + back
      /\ h.free[source] = ledger.free[source] - fee
  <2> HIDE DEF source, nonce
  <2> QED BY <1>1, <1>2, <1>4, <1>5, MessageHeldMoves DEF BaseInv
<1>7. CanTransfer(ledger, source, FV, fee)
  <2> HIDE DEF source, FV
  <2> QED BY <1>2, <1>4, <1>5 DEF CanTransfer, CanWithdraw, CanDeposit
<1>8. CanHold(r, FV, fee)
  <2> HIDE DEF r, FV, back
  <2> QED BY <1>2, <1>4, <1>6 DEF CanHold, CanWithdraw
<1>9. CanTransfer(h, FV, source, back)
  <2> HIDE DEF h, FV, back, source
  <2> QED BY <1>2, <1>4, <1>5, <1>6 DEF CanTransfer, CanWithdraw, CanDeposit
<1>10. ethereumContract \in Remotes
  BY TokenAssumption DEF BaseInv, TokenTypeOK
<1>11. CanSendMessage(f, PalletAccount, FV, nonce, ethereumContract,
                      outgoing_transfer_ttl_or_default, fee)
  <2>1. old # None => old.ttl_block < now /\ CanRelease(f, old.payer, old.fee)
    BY <1>6
  <2> HIDE DEF f, nonce, FV
  <2> QED BY <1>8, <1>10, <2>1 DEF CanSendMessage
<1> QED BY <1>1, <1>7, <1>9, <1>11 DEF CanRetry, CanPayAndSend

\* A transfer whose message is gone or over its ttl can always be retried with
\* a fee the source can afford: no sequence of sends, confirmations, removals
\* and retries drains the fee vault or leaves a hold behind.
THEOREM RetryNeverBlockedCorrect == TokenSpec => []RetryNeverBlocked
<1>1. TokenInv => RetryNeverBlocked
  BY RetryPossible DEF TokenInv
<1> QED BY <1>1, TokenInvCorrect, PTL
=============================================================================
