---------------------------- MODULE HyperdriveIbc ----------------------------
(***************************************************************************)
(* pallet-acurast-hyperdrive-ibc: cross-chain messages attested by oracle  *)
(* signatures.  A sender's fee is held while its message is outstanding    *)
(* and goes to the relayer that proves delivery before the time to live    *)
(* (ttl) is over, or back to the payer afterwards.  Every extrinsic is     *)
(* transactional: a call that fails changes nothing, so only the           *)
(* successful calls are actions.                                           *)
(*                                                                         *)
(* The other chains and the oracles are external.  They appear only        *)
(* through what has really happened there: the messages other chains       *)
(* emitted and the deliveries relayers made.  An honest oracle signs       *)
(* nothing else; the keys in Faulty sign anything.                         *)
(***************************************************************************)
EXTENDS Currency, Sums, Integers, Sequences, FiniteSets

CONSTANTS
    Remotes,        \* subjects on other chains
    Senders,        \* accounts that send messages
    Relayers,       \* accounts that relay messages and confirm deliveries
    Nonces,         \* message nonces chosen by the calling pallets
    Payloads,       \* message payloads
    Keys,           \* oracle public keys, registered or not
    Faulty,         \* keys whose signatures prove nothing
    Windows,        \* activity windows an update may set
    MinTTL, IncomingTTL, MinFee,                 \* configuration of the pallet
    MinDeliveryConfirmationSignatures, MinReceiptConfirmationSignatures,
    None,           \* Option::None
    RemoteMessages, \* messages other chains may emit and relayers may submit
    InitialBalances,\* free balances at genesis
    Fees, TTLs,     \* the fees and ttls callers ask for
    MaxSignatures,  \* bound on the length of a signature list
    MaxBlock,       \* bound on the block number
    MaxCounter      \* bound on the number of test messages

ASSUME IbcAssumption ==
    /\ MinTTL \in Nat /\ IncomingTTL \in Nat /\ MinFee \in Nat
    /\ Fees \subseteq Nat /\ TTLs \subseteq Nat
    /\ MaxSignatures \in Nat /\ MaxBlock \in Nat /\ MaxCounter \in Nat
    /\ IsFiniteSet(Keys) /\ Faulty \subseteq Keys
    /\ Windows \subseteq [start_block : Nat, end_block : Nat \cup {None}]
    /\ Senders \subseteq Accounts /\ Relayers \subseteq Accounts
    /\ Accounts \cap Remotes = {}
    /\ InitialBalances \in [Accounts -> Nat]

\* The oracles are trusted only as a group: fewer faulty keys than a quorum.
ASSUME QuorumAssumption ==
    /\ MinDeliveryConfirmationSignatures \in Nat
    /\ MinReceiptConfirmationSignatures \in Nat
    /\ Cardinality(Faulty) < MinDeliveryConfirmationSignatures
    /\ Cardinality(Faulty) < MinReceiptConfirmationSignatures

VARIABLES
    now,            \* frame_system block number
    ledger,         \* balances of the native currency
    oracles,        \* OraclePublicKeys: key -> activity window or None
    counter,        \* MessageCounter
    outgoing,       \* OutgoingMessages: id -> message with meta, or None
    outgoingLookup, \* OutgoingMessagesLookup: pairs <<sender, nonce>>
    incoming,       \* IncomingMessages: id -> message with meta, or None
    incomingLookup, \* IncomingMessagesLookup: pairs <<recipient, id>>
    emitted,        \* external: messages other chains sent to this one
    delivered,      \* external: <<message, relayer>> delivered on other chains
    sent,           \* history: messages this chain has sent
    paid,           \* history: <<message, relayer>> whose fee was paid out
    accepted,       \* history: messages accepted by receive_message
    lastReceipt     \* history: id -> block of the last receipt, or None

remoteVars == <<emitted, delivered>>
outVars == <<counter, outgoing, outgoingLookup, sent, paid>>
inVars == <<incoming, incomingLookup, accepted, lastReceipt>>
ibcVars == <<now, ledger, oracles, outVars, inVars, remoteVars>>

Subjects == Accounts \cup Remotes

\* Nonces of other pallets, and the hash of the counter for test messages.
MessageNonces == Nonces \cup {<<"test", n>> : n \in 0 .. MaxCounter}

\* message_id: a hash of sender and nonce, taken to be injective.
Ids == Subjects \X MessageNonces

message_id(sender, nonce) == <<sender, nonce>>

\* The part of a message that oracles sign.
Messages == [sender : Subjects, nonce : MessageNonces, recipient : Subjects,
             payload : Payloads \cup Accounts]

OutgoingMessages == [message : Messages, ttl_block : Nat, fee : Nat, payer : Accounts]

IncomingMessages == [message : Messages, current_block : Nat]

ASSUME NoneAssumption ==
    /\ None \notin Nat /\ None \notin Windows
    /\ None \notin OutgoingMessages /\ None \notin IncomingMessages

ASSUME RemoteMessagesAssumption == RemoteMessages \subseteq Messages
-----------------------------------------------------------------------------
(***************************************************************************)
(* check_signatures.  A signature list is a sequence of entries that name  *)
(* a key and hold a signature that verifies for the signed content or      *)
(* does not.  Unknown and inactive keys are skipped, the first entry of an *)
(* active key must verify, later entries of the same key are ignored, and  *)
(* the distinct active keys are counted.                                   *)
(***************************************************************************)
Entries == [key : Keys, verifies : BOOLEAN]

SignatureLists == UNION {[1 .. n -> Entries] : n \in 0 .. MaxSignatures}

\* Signatures over the signed content can exist only if honest oracles saw
\* the event (attested) or if the key is faulty.
Obtainable(sigs, attested) ==
    \A i \in DOMAIN sigs : sigs[i].verifies => attested \/ sigs[i].key \in Faulty

IsActive(key) ==
    /\ oracles[key] # None
    /\ oracles[key].start_block <= now
    /\ oracles[key].end_block # None => now < oracles[key].end_block

\* Slip: unknown and inactive keys count towards the quorum.
ActiveKeys_unknownCounted(sigs) == {k \in Keys : \E i \in DOMAIN sigs : sigs[i].key = k}

ActiveKeys(sigs) == {k \in Keys : IsActive(k) /\ \E i \in DOMAIN sigs : sigs[i].key = k}

\* Slip: entries are counted instead of distinct keys.
check_signatures_countsEntries(sigs, min_signatures) ==
    /\ \A i \in DOMAIN sigs : IsActive(sigs[i].key) => sigs[i].verifies
    /\ Cardinality({i \in DOMAIN sigs : IsActive(sigs[i].key)}) >= min_signatures

check_signatures(sigs, min_signatures) ==
    /\ Len(sigs) >= min_signatures
    /\ \A i \in DOMAIN sigs :
          \/ ~IsActive(sigs[i].key)
          \/ \E j \in 1 .. i - 1 : sigs[j].key = sigs[i].key
          \/ sigs[i].verifies
    /\ Cardinality(ActiveKeys(sigs)) >= min_signatures
-----------------------------------------------------------------------------
(***************************************************************************)
(* do_send_message on a ledger l, so that a calling pallet can move money  *)
(* before and after it inside the same transaction.                        *)
(***************************************************************************)
Replaced(sender, nonce) == outgoing[message_id(sender, nonce)]

\* Slip: the fee of a replaced message stays on hold.
ReleaseReplaced_forgotten(l, sender, nonce) == l

ReleaseReplaced(l, sender, nonce) ==
    LET old == Replaced(sender, nonce)
    IN  IF old = None THEN l ELSE Release(l, old.payer, old.fee)

\* Slip: a message over its ttl still blocks its nonce.
CanSendMessage_neverReplaces(l, sender, payer, nonce, recipient, ttl, fee) ==
    /\ Replaced(sender, nonce) = None
    /\ fee >= MinFee /\ recipient \in Remotes /\ ttl >= MinTTL
    /\ CanHold(l, payer, fee)

CanSendMessage(l, sender, payer, nonce, recipient, ttl, fee) ==
    LET old == Replaced(sender, nonce)
    IN  /\ fee >= MinFee
        /\ recipient \in Remotes
        /\ old # None => old.ttl_block < now /\ CanRelease(l, old.payer, old.fee)
        /\ ttl >= MinTTL
        /\ CanHold(ReleaseReplaced(l, sender, nonce), payer, fee)

LedgerAfterSend(l, sender, payer, nonce, fee) ==
    Hold(ReleaseReplaced(l, sender, nonce), payer, fee)

do_send_message(sender, payer, nonce, recipient, payload, ttl, fee) ==
    LET id == message_id(sender, nonce)
        m  == [sender |-> sender, nonce |-> nonce, recipient |-> recipient, payload |-> payload]
    IN  /\ outgoing' = [outgoing EXCEPT ![id] =
              [message |-> m, ttl_block |-> now + ttl, fee |-> fee, payer |-> payer]]
        /\ outgoingLookup' = outgoingLookup \cup {<<sender, nonce>>}
        /\ sent' = sent \cup {m}

\* The MessageSender interface, as a pallet without money of its own uses it.
SendMessage(sender, payer, nonce, recipient, payload, ttl, fee) ==
    /\ CanSendMessage(ledger, sender, payer, nonce, recipient, ttl, fee)
    /\ do_send_message(sender, payer, nonce, recipient, payload, ttl, fee)
    /\ ledger' = LedgerAfterSend(ledger, sender, payer, nonce, fee)
    /\ UNCHANGED <<now, oracles, counter, paid, inVars, remoteVars>>

SendTestMessage(who, recipient, ttl, fee) ==
    /\ counter < MaxCounter
    /\ counter' = counter + 1
    /\ CanSendMessage(ledger, who, who, <<"test", counter>>, recipient, ttl, fee)
    /\ do_send_message(who, who, <<"test", counter>>, recipient, who, ttl, fee)
    /\ ledger' = LedgerAfterSend(ledger, who, who, <<"test", counter>>, fee)
    /\ UNCHANGED <<now, oracles, paid, inVars, remoteVars>>

ClearOutgoing(id) ==
    /\ outgoing' = [outgoing EXCEPT ![id] = None]
    /\ outgoingLookup' = outgoingLookup \ {<<outgoing[id].message.sender, outgoing[id].message.nonce>>}

ConfirmMessageDelivery(who, id, sigs) ==
    /\ outgoing[id] # None
    /\ outgoing[id].ttl_block >= now
    /\ check_signatures(sigs, MinDeliveryConfirmationSignatures)
    /\ CanTransferOnHold(ledger, outgoing[id].payer, who, outgoing[id].fee)
    /\ ledger' = TransferOnHold(ledger, outgoing[id].payer, who, outgoing[id].fee)
    /\ ClearOutgoing(id)
    /\ paid' = paid \cup {<<outgoing[id].message, who>>}
    /\ UNCHANGED <<now, oracles, counter, sent, inVars, remoteVars>>

RemoveMessage(id) ==
    /\ outgoing[id] # None
    /\ outgoing[id].ttl_block < now
    /\ ledger' = ReleaseBestEffort(ledger, outgoing[id].payer, outgoing[id].fee)
    /\ ClearOutgoing(id)
    /\ UNCHANGED <<now, oracles, counter, sent, paid, inVars, remoteVars>>
-----------------------------------------------------------------------------
\* receive_message up to the call of the message processor: what is recorded
\* stays recorded whether the processor succeeds or fails.
AcceptMessage(m, sigs) ==
    LET id == message_id(m.sender, m.nonce)
    IN  /\ m.recipient \in Accounts
        /\ incoming[id] = None
        /\ check_signatures(sigs, MinReceiptConfirmationSignatures)
        /\ incoming' = [incoming EXCEPT ![id] = [message |-> m, current_block |-> now]]
        /\ incomingLookup' = incomingLookup \cup {<<m.recipient, id>>}
        /\ accepted' = accepted \cup {m}
        /\ lastReceipt' = [lastReceipt EXCEPT ![id] = now]

\* A processor without state in this module: its errors are swallowed.
ReceiveMessage(m, sigs) ==
    /\ AcceptMessage(m, sigs)
    /\ UNCHANGED <<now, ledger, oracles, outVars, remoteVars>>

\* Slip: a record is dropped one block early.
Expired_early(ids) ==
    {id \in ids : incoming[id] # None /\ incoming[id].current_block + IncomingTTL <= now}

Expired(ids) ==
    {id \in ids : incoming[id] # None /\ incoming[id].current_block + IncomingTTL < now}

\* Slip: the lookup entries are left behind.
CleanIncoming_keepsLookup(ids) ==
    /\ incoming' = [id \in Ids |-> IF id \in Expired(ids) THEN None ELSE incoming[id]]
    /\ UNCHANGED <<now, ledger, oracles, outVars, incomingLookup, accepted, lastReceipt, remoteVars>>

CleanIncoming(ids) ==
    /\ incoming' = [id \in Ids |-> IF id \in Expired(ids) THEN None ELSE incoming[id]]
    /\ incomingLookup' = incomingLookup \
          {<<incoming[id].message.recipient, id>> : id \in Expired(ids)}
    /\ UNCHANGED <<now, ledger, oracles, outVars, accepted, lastReceipt, remoteVars>>

\* OracleUpdate::Add and Update set a window, Remove deletes the key; within
\* one call the last update of a key wins.
UpdateOracles(updates) ==
    /\ oracles' = [k \in Keys |-> IF k \in DOMAIN updates THEN updates[k] ELSE oracles[k]]
    /\ UNCHANGED <<now, ledger, outVars, inVars, remoteVars>>

NextBlock ==
    /\ now < MaxBlock
    /\ now' = now + 1
    /\ UNCHANGED <<ledger, oracles, outVars, inVars, remoteVars>>

\* External: another chain sends a message to this chain.
RemoteEmit(m) ==
    /\ m.sender \in Remotes /\ m.recipient \in Accounts
    /\ emitted' = emitted \cup {m}
    /\ UNCHANGED <<now, ledger, oracles, outVars, inVars, delivered>>

\* External: a relayer delivers a message, at any time after it was sent.
RemoteDeliver(m, relayer) ==
    /\ m \in sent
    /\ delivered' = delivered \cup {<<m, relayer>>}
    /\ UNCHANGED <<now, ledger, oracles, outVars, inVars, emitted>>
-----------------------------------------------------------------------------
IbcInit ==
    /\ now = 0
    /\ ledger = [free |-> InitialBalances, held |-> [a \in Accounts |-> 0]]
    /\ oracles = [k \in Keys |-> None]
    /\ counter = 0
    /\ outgoing = [id \in Ids |-> None] /\ outgoingLookup = {}
    /\ incoming = [id \in Ids |-> None] /\ incomingLookup = {}
    /\ emitted = {} /\ delivered = {} /\ sent = {} /\ paid = {} /\ accepted = {}
    /\ lastReceipt = [id \in Ids |-> None]

\* The calls anyone may submit, with the signatures obtainable off-chain.
Confirm == \E who \in Relayers, id \in Ids, sigs \in SignatureLists :
    /\ outgoing[id] # None
    /\ Obtainable(sigs, <<outgoing[id].message, who>> \in delivered)
    /\ ConfirmMessageDelivery(who, id, sigs)

Receive == \E m \in RemoteMessages, sigs \in SignatureLists :
    /\ Obtainable(sigs, m \in emitted)
    /\ ReceiveMessage(m, sigs)

Remove == \E id \in Ids : RemoveMessage(id)

\* Ids that are not stored are skipped by the loop.
Clean == \E ids \in SUBSET {id \in Ids : incoming[id] # None} : CleanIncoming(ids)

Update == \E keys \in SUBSET Keys : \E updates \in [keys -> Windows \cup {None}] :
    UpdateOracles(updates)

Emit == \E m \in RemoteMessages : RemoteEmit(m)

Deliver == \E m \in sent, relayer \in Relayers : RemoteDeliver(m, relayer)

Send == \E sender \in Senders, payer \in Accounts, nonce \in Nonces, recipient \in Subjects,
           payload \in Payloads, ttl \in TTLs, fee \in Fees :
    SendMessage(sender, payer, nonce, recipient, payload, ttl, fee)

SendTest == \E who \in Senders, recipient \in Subjects, ttl \in TTLs, fee \in Fees :
    SendTestMessage(who, recipient, ttl, fee)

IbcNext == NextBlock \/ Update \/ Send \/ SendTest \/ Confirm \/ Remove
             \/ Receive \/ Clean \/ Emit \/ Deliver

IbcSpec == IbcInit /\ [][IbcNext]_ibcVars
-----------------------------------------------------------------------------
\* Every storage item and history variable has its type.
IbcTypeOK ==
    /\ now \in Nat
    /\ ledger \in Ledgers
    /\ oracles \in [Keys -> Windows \cup {None}]
    /\ counter \in 0 .. MaxCounter
    /\ outgoing \in [Ids -> OutgoingMessages \cup {None}]
    /\ outgoingLookup \subseteq Subjects \X MessageNonces
    /\ incoming \in [Ids -> IncomingMessages \cup {None}]
    /\ incomingLookup \subseteq Subjects \X Ids
    /\ emitted \subseteq Messages /\ sent \subseteq Messages /\ accepted \subseteq Messages
    /\ delivered \subseteq Messages \X Accounts /\ paid \subseteq Messages \X Accounts
    /\ lastReceipt \in [Ids -> Nat \cup {None}]

\* OutgoingMessagesLookup names exactly the outstanding messages.
OutgoingLookupConsistent ==
    outgoingLookup = {id \in Ids : outgoing[id] # None}

\* IncomingMessagesLookup names exactly the recorded messages under their
\* recipients.
IncomingLookupConsistent ==
    incomingLookup = {<<incoming[id].message.recipient, id>> :
                         id \in {i \in Ids : incoming[i] # None}}

\* Both lookups agree with the messages they index, in every order of sends,
\* overwrites, confirmations, removals, receipts and cleanups.
LookupsConsistent == OutgoingLookupConsistent /\ IncomingLookupConsistent

\* The messages that are stored in out.
Outstanding(out) == {id \in Ids : out[id] # None}

\* The messages of out whose fee is held on the account of a, and these fees.
OwedBy(out, a) == {id \in Ids : out[id] # None /\ out[id].payer = a}

OwedFees(out, a) == SumOver([id \in OwedBy(out, a) |-> out[id].fee], OwedBy(out, a))

\* What the pallet holds on a payer's account is exactly the fees of the
\* messages it still owes an outcome: no fee is released twice, paid twice
\* or left behind when a message is overwritten, confirmed or removed.
HeldIsOwedFees == \A a \in Accounts : ledger.held[a] = OwedFees(outgoing, a)

\* A relayer is paid only for a message it delivered, with this very content,
\* although faulty and retired oracle keys, repeated signatures and replaced
\* messages with the same id are all possible.
PaidOnlyForDelivery == paid \subseteq delivered

\* receive_message accepts only messages another chain really emitted.
AcceptedOnlyIfEmitted == accepted \subseteq emitted

\* A message id is accepted again only after IncomingTTL has passed since its
\* last receipt, whatever cleanups ran in between.
NoReplayWithinTTL ==
    [][\A id \in Ids :
          lastReceipt'[id] # lastReceipt[id] /\ lastReceipt[id] # None
             => now > lastReceipt[id] + IncomingTTL]_ibcVars
=============================================================================
