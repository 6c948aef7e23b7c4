------------------------------- MODULE Bridge -------------------------------
(***************************************************************************)
(* What a token bridge promises: tokens locked in a vault here are minted  *)
(* there, tokens burned there are paid out of the vault here, and each     *)
(* transfer takes effect at most once on the receiving side, however often *)
(* its message is sent, delivered or replayed.                             *)
(***************************************************************************)
EXTENDS Naturals

CONSTANTS Transfers,   \* transfer nonces
          Amounts,     \* amounts a transfer may have
          NoAmount,    \* no such transfer yet
          Backing      \* what the vault holds beyond the remote supply

VARIABLES vault,     \* tokens in the vault
          supply,    \* tokens in circulation on the other chain
          locked,    \* outbound transfers: nonce -> amount
          minted,    \* outbound transfers that took effect there
          burned,    \* inbound transfers: nonce -> amount
          credited   \* inbound transfers that took effect here

vars == <<vault, supply, locked, minted, burned, credited>>

Init ==
    /\ supply \in Nat
    /\ vault = supply + Backing
    /\ locked = [t \in Transfers |-> NoAmount] /\ minted = {}
    /\ burned = [t \in Transfers |-> NoAmount] /\ credited = {}

Lock(t, amount) ==
    /\ locked[t] = NoAmount
    /\ locked' = [locked EXCEPT ![t] = amount]
    /\ vault' = vault + amount
    /\ UNCHANGED <<supply, minted, burned, credited>>

Mint(t) ==
    /\ locked[t] # NoAmount /\ t \notin minted
    /\ minted' = minted \cup {t}
    /\ supply' = supply + locked[t]
    /\ UNCHANGED <<vault, locked, burned, credited>>

Burn(t, amount) ==
    /\ burned[t] = NoAmount /\ amount <= supply
    /\ burned' = [burned EXCEPT ![t] = amount]
    /\ supply' = supply - amount
    /\ UNCHANGED <<vault, locked, minted, credited>>

Credit(t) ==
    /\ burned[t] # NoAmount /\ t \notin credited
    /\ credited' = credited \cup {t}
    /\ vault' = vault - burned[t]
    /\ UNCHANGED <<supply, locked, minted, burned>>

Next == \E t \in Transfers :
    \/ \E amount \in Amounts : Lock(t, amount) \/ Burn(t, amount)
    \/ Mint(t)
    \/ Credit(t)

Spec == Init /\ [][Next]_vars
=============================================================================
