------------------------ MODULE TokenConversion_proofs ------------------------
(***************************************************************************)
(* Theorems about TokenConversion: locks and holds stay equal and a lock   *)
(* can be lifted when it is due, and refunds reach who paid.  Ledgers are  *)
(* typed over the integers: that no balance is negative is not needed.     *)
(***************************************************************************)
EXTENDS TokenConversion, TLAPS

IntLedgers == [free : [Accounts -> Int], held : [Accounts -> Int]]

ConversionTypes ==
    /\ source \in IntLedgers /\ dest \in IntLedgers
    /\ initiated \in [Converters -> InitiatedConversions \cup {None}]
    /\ outgoing \in [Converters -> OutgoingMessages \cup {None}]
    /\ locked \in [Converters -> LockedConversions \cup {None}]
    /\ unprocessed \in [Converters -> Nat \cup {None}]
    /\ wire \subseteq Converters
    /\ \A a \in wire : initiated[a] # None

\* Holds are locks, and what is locked was put on hold beside the deposit.
LockInv == \A a \in Converters :
    /\ dest.held[a] = IF locked[a] = None THEN 0 ELSE locked[a].amount
    /\ locked[a] # None /\ locked[a].amount > 0 => dest.free[a] >= ExistentialDeposit

\* The recorded fee payer is the one who paid for the outstanding message.
PayerInv == \A a \in Converters : outgoing[a] # None =>
    initiated[a] # None /\ initiated[a].fee_payer = outgoing[a].payer

ConversionInv == ConversionTypes /\ LockInv /\ PayerInv

-----------------------------------------------------------------------------
\* Min and Max of two numbers, as the model uses them.
LEMMA MinOfTwo ==
    ASSUME NEW x \in Int, NEW y \in Int
    PROVE  Min({x, y}) = IF x <= y THEN x ELSE y
  BY DEF Min

LEMMA MaxOfTwo ==
    ASSUME NEW x \in Int, NEW y \in Int
    PROVE  Max({x, y}) = IF x >= y THEN x ELSE y
  BY DEF Max

\* What an operation on the balance of one account, or of two, makes of a
\* ledger.
Changed(k, l, a, f, h) ==
    /\ k \in IntLedgers
    /\ \A c \in Accounts : k.free[c] = IF c = a THEN l.free[c] + f ELSE l.free[c]
    /\ \A c \in Accounts : k.held[c] = IF c = a THEN l.held[c] + h ELSE l.held[c]

Moved(k, l, a, b, n) ==
    /\ k \in IntLedgers
    /\ \A c \in Accounts : k.free[c] =
          l.free[c] - (IF c = a THEN n ELSE 0) + (IF c = b THEN n ELSE 0)
    /\ \A c \in Accounts : k.held[c] = l.held[c]

LEMMA WithdrawParts ==
    ASSUME NEW l \in IntLedgers, NEW a \in Accounts, NEW n \in Int
    PROVE  Changed(Withdraw(l, a, n), l, a, -n, 0)
  BY DEF Withdraw, IntLedgers, Changed

LEMMA DepositParts ==
    ASSUME NEW l \in IntLedgers, NEW a \in Accounts, NEW n \in Int
    PROVE  Changed(Deposit(l, a, n), l, a, n, 0)
  BY DEF Deposit, IntLedgers, Changed

LEMMA TransferParts ==
    ASSUME NEW l \in IntLedgers, NEW a \in Accounts, NEW b \in Accounts, NEW n \in Int
    PROVE  Moved(Transfer(l, a, b, n), l, a, b, n)
  <1> DEFINE w == Withdraw(l, a, n)
  <1>1. Changed(w, l, a, -n, 0)
    BY WithdrawParts
  <1>2. w \in IntLedgers
    BY <1>1 DEF Changed
  <1>3. Changed(Deposit(w, b, n), w, b, n, 0)
    BY <1>2, DepositParts
  <1>4. Transfer(l, a, b, n) = Deposit(w, b, n)
    BY DEF Transfer
  <1> HIDE DEF w
  <1> QED
    BY <1>1, <1>2, <1>3, <1>4 DEF Changed, Moved, IntLedgers

LEMMA HoldParts ==
    ASSUME NEW l \in IntLedgers, NEW a \in Accounts, NEW n \in Int
    PROVE  Changed(Hold(l, a, n), l, a, -n, n)
  <1> DEFINE w == Withdraw(l, a, n)
  <1>1. Changed(w, l, a, -n, 0)
    BY WithdrawParts
  <1>2. Hold(l, a, n) = [w EXCEPT !.held[a] = @ + n]
    BY DEF Hold
  <1> HIDE DEF w
  <1> QED
    BY <1>1, <1>2 DEF IntLedgers, Changed

LEMMA ReleaseParts ==
    ASSUME NEW l \in IntLedgers, NEW a \in Accounts, NEW n \in Int
    PROVE  Changed(Release(l, a, n), l, a, n, -n)
  <1> DEFINE d == Deposit(l, a, n)
  <1>1. Changed(d, l, a, n, 0)
    BY DepositParts
  <1>2. Release(l, a, n) = [d EXCEPT !.held[a] = @ - n]
    BY DEF Release
  <1> HIDE DEF d
  <1> QED
    BY <1>1, <1>2 DEF IntLedgers, Changed

\* Accounts that the model tells apart.
LEMMA AccountsApart ==
    /\ PalletAccount \in Accounts /\ PalletAccount \notin Payers
    /\ Converters \subseteq Payers /\ Payers \subseteq Accounts /\ Relayer \in Accounts
  BY ConversionAssumption

-----------------------------------------------------------------------------
\* Money moves by send_convert_message as follows: the new payer pays, the
\* previous one is refunded, the rest is between the pallet and its hold.
LEMMA SendMoves ==
    ASSUME NEW l \in IntLedgers, NEW account \in Converters, NEW payer \in Payers,
           NEW prev_payer \in Payers, NEW fee \in Fees, ConversionTypes
    PROVE  LET end == Transfer(HoldFee(l, account, payer, fee), PalletAccount, prev_payer,
                               OldFee(account))
           IN  /\ end \in IntLedgers
               /\ \A c \in Payers : end.free[c] =
                     l.free[c] - (IF c = payer THEN fee ELSE 0)
                        + (IF c = prev_payer THEN OldFee(account) ELSE 0)
  <1> USE AccountsApart
  <1>1. /\ fee \in Int /\ OldFee(account) \in Int
        /\ payer \in Accounts /\ prev_payer \in Accounts /\ PalletAccount \in Accounts
    BY ConversionAssumption DEF ConversionTypes, OldFee, OutgoingMessages
  <1> DEFINE old == OldFee(account)
             t == Transfer(l, payer, PalletAccount, fee)
             r == Release(t, PalletAccount, old)
             h == Hold(r, PalletAccount, fee)
  <1>2. /\ t \in IntLedgers
        /\ \A c \in Payers : t.free[c] = l.free[c] - (IF c = payer THEN fee ELSE 0)
    <2>1. Moved(t, l, payer, PalletAccount, fee)
      BY <1>1, TransferParts
    <2> HIDE DEF t
    <2> QED
      BY <1>1, <2>1 DEF Moved, IntLedgers
  <1>3. r \in IntLedgers /\ \A c \in Payers : r.free[c] = t.free[c]
    <2>1. t \in IntLedgers
      BY <1>2
    <2>2. Changed(r, t, PalletAccount, old, -old)
      BY <1>1, <2>1, ReleaseParts
    <2> HIDE DEF t, r
    <2> QED
      BY <2>2 DEF Changed
  <1>4. h \in IntLedgers /\ \A c \in Payers : h.free[c] = r.free[c]
    <2>1. r \in IntLedgers
      BY <1>3
    <2>2. Changed(h, r, PalletAccount, -fee, fee)
      BY <1>1, <2>1, HoldParts
    <2> HIDE DEF r, h
    <2> QED
      BY <2>2 DEF Changed
  <1>5. HoldFee(l, account, payer, fee) = h
    BY DEF HoldFee
  <1> DEFINE end == Transfer(h, PalletAccount, prev_payer, old)
  <1>6. /\ end \in IntLedgers
        /\ \A c \in Payers : end.free[c] = h.free[c] + (IF c = prev_payer THEN old ELSE 0)
    <2>1. h \in IntLedgers
      BY <1>4
    <2>2. Moved(end, h, PalletAccount, prev_payer, old)
      BY <1>1, <2>1, TransferParts
    <2> HIDE DEF h, end
    <2> QED
      BY <1>1, <2>1, <2>2 DEF Moved, IntLedgers
  <1> QED
    BY <1>2, <1>3, <1>4, <1>5, <1>6

\* What send_convert_message does to the state, for the new payer recorded.
LEMMA SendTyped ==
    ASSUME ConversionTypes,
           NEW l \in IntLedgers, NEW account \in Converters, NEW payer \in Payers,
           NEW prev_payer \in Payers, NEW fee \in Fees,
           send_convert_message(l, account, payer, prev_payer, fee)
    PROVE  /\ source' \in IntLedgers
           /\ outgoing' \in [Converters -> OutgoingMessages \cup {None}]
           /\ outgoing' = [outgoing EXCEPT ![account] =
                              [fee |-> fee, left |-> ConvertTTL + 1, payer |-> payer]]
           /\ wire' = wire \cup {account}
  <1>1. source' \in IntLedgers
    BY SendMoves DEF send_convert_message
  <1>2. outgoing' = [outgoing EXCEPT ![account] =
                        [fee |-> fee, left |-> ConvertTTL + 1, payer |-> payer]]
    BY DEF send_convert_message
  <1>3. [fee |-> fee, left |-> ConvertTTL + 1, payer |-> payer] \in OutgoingMessages
    BY ConversionAssumption DEF OutgoingMessages
  <1>4. outgoing' \in [Converters -> OutgoingMessages \cup {None}]
    BY <1>2, <1>3 DEF ConversionTypes
  <1> QED
    BY <1>1, <1>2, <1>4 DEF send_convert_message

LEMMA ReducibleNat ==
    ASSUME NEW l \in IntLedgers, NEW a \in Accounts
    PROVE  Reducible(l, a) \in Nat
  BY ExistentialDepositAssumption DEF Reducible, IntLedgers

LEMMA ConvertKeeps ==
    ASSUME ConversionInv, NEW who \in Converters, NEW fee \in Fees, convert(who, fee)
    PROVE  ConversionInv'
  <1> USE AccountsApart
  <1> DEFINE burned == Reducible(source, who) - fee - Liquidity
             l == Withdraw(source, who, burned)
             new == [burned |-> burned, fee_payer |-> who]
  <1>1. burned \in Nat
    <2>1. Reducible(source, who) \in Nat
      BY ReducibleNat DEF ConversionInv, ConversionTypes
    <2>2. Reducible(source, who) >= fee /\ Reducible(source, who) - fee >= MinTransferAmount
      BY DEF convert
    <2>3. fee \in Nat /\ Liquidity \in Nat /\ MinTransferAmount \in Nat
             /\ Liquidity <= MinTransferAmount
      BY ConversionAssumption
    <2> QED
      BY <2>1, <2>2, <2>3
  <1>2. l \in IntLedgers
    <2>1. who \in Accounts /\ burned \in Int
      BY <1>1
    <2>2. source \in IntLedgers
      BY DEF ConversionInv, ConversionTypes
    <2> HIDE DEF burned
    <2> QED
      BY <2>1, <2>2, WithdrawParts DEF Changed
  <1>3. new \in InitiatedConversions /\ new # None
    BY <1>1, NoneAssumption DEF InitiatedConversions
  <1>4. /\ send_convert_message(l, who, who, who, fee)
        /\ initiated' = [initiated EXCEPT ![who] = new]
        /\ UNCHANGED <<dest, locked, unprocessed>>
    BY DEF convert, destVars
  <1> HIDE DEF burned, l
  <1>5. /\ source' \in IntLedgers
        /\ outgoing' \in [Converters -> OutgoingMessages \cup {None}]
        /\ outgoing' = [outgoing EXCEPT ![who] =
                           [fee |-> fee, left |-> ConvertTTL + 1, payer |-> who]]
        /\ wire' = wire \cup {who}
    BY <1>2, <1>4, SendTyped DEF ConversionInv
  <1>6. ConversionTypes'
    <2>1. initiated' \in [Converters -> InitiatedConversions \cup {None}]
      BY <1>3, <1>4 DEF ConversionInv, ConversionTypes
    <2>2. \A a \in wire' : initiated'[a] # None
      BY <1>3, <1>4, <1>5 DEF ConversionInv, ConversionTypes
    <2> QED
      BY <1>4, <1>5, <2>1, <2>2 DEF ConversionInv, ConversionTypes
  <1>7. PayerInv'
    <2> SUFFICES ASSUME NEW a \in Converters, outgoing'[a] # None
                 PROVE  initiated'[a] # None /\ initiated'[a].fee_payer = outgoing'[a].payer
      BY DEF PayerInv
    <2>1. CASE a = who
      <3>1. initiated'[a] = new
        BY <1>4, <2>1 DEF ConversionInv, ConversionTypes
      <3>2. outgoing'[a] = [fee |-> fee, left |-> ConvertTTL + 1, payer |-> who]
        BY <1>5, <2>1 DEF ConversionInv, ConversionTypes
      <3> QED
        BY <1>3, <3>1, <3>2
    <2>2. CASE a # who
      BY <1>4, <1>5, <2>2 DEF ConversionInv, ConversionTypes, PayerInv
    <2> QED
      BY <2>1, <2>2
  <1>8. LockInv'
    BY <1>4 DEF ConversionInv, LockInv
  <1> QED
    BY <1>6, <1>7, <1>8 DEF ConversionInv

LEMMA RetryKeeps ==
    ASSUME ConversionInv, NEW account \in Converters, NEW who \in Payers, NEW fee \in Fees,
           retry_convert_for(account, who, fee)
    PROVE  ConversionInv'
  <1> USE AccountsApart
  <1> DEFINE new == [initiated[account] EXCEPT !.fee_payer = who]
  <1>1. initiated[account] \in InitiatedConversions
    BY DEF retry_convert_for, ConversionInv, ConversionTypes
  <1>2. new \in InitiatedConversions /\ new.fee_payer = who /\ new # None
    BY <1>1, NoneAssumption DEF InitiatedConversions
  <1>3. initiated[account].fee_payer \in Payers
    BY <1>1 DEF InitiatedConversions
  <1>4. /\ send_convert_message(source, account, who, initiated[account].fee_payer, fee)
        /\ initiated' = [initiated EXCEPT ![account] = new]
        /\ UNCHANGED <<dest, locked, unprocessed>>
    BY DEF retry_convert_for, update_initiated_conversion, destVars
  <1> HIDE DEF new
  <1>5. /\ source' \in IntLedgers
        /\ outgoing' \in [Converters -> OutgoingMessages \cup {None}]
        /\ outgoing' = [outgoing EXCEPT ![account] =
                           [fee |-> fee, left |-> ConvertTTL + 1, payer |-> who]]
        /\ wire' = wire \cup {account}
    <2>1. source \in IntLedgers /\ ConversionTypes
      BY DEF ConversionInv, ConversionTypes
    <2> QED
      BY <2>1, <1>3, <1>4, SendTyped
  <1>6. ConversionTypes'
    <2>1. initiated' \in [Converters -> InitiatedConversions \cup {None}]
      BY <1>2, <1>4 DEF ConversionInv, ConversionTypes
    <2>2. \A a \in wire' : initiated'[a] # None
      BY <1>2, <1>4, <1>5 DEF ConversionInv, ConversionTypes
    <2> QED
      BY <1>4, <1>5, <2>1, <2>2 DEF ConversionInv, ConversionTypes
  <1>7. PayerInv'
    <2> SUFFICES ASSUME NEW a \in Converters, outgoing'[a] # None
                 PROVE  initiated'[a] # None /\ initiated'[a].fee_payer = outgoing'[a].payer
      BY DEF PayerInv
    <2>1. CASE a = account
      <3>1. initiated'[a] = new
        BY <1>4, <2>1 DEF ConversionInv, ConversionTypes
      <3>2. outgoing'[a] = [fee |-> fee, left |-> ConvertTTL + 1, payer |-> who]
        BY <1>5, <2>1 DEF ConversionInv, ConversionTypes
      <3> QED
        BY <1>2, <3>1, <3>2
    <2>2. CASE a # account
      BY <1>4, <1>5, <2>2 DEF ConversionInv, ConversionTypes, PayerInv
    <2> QED
      BY <2>1, <2>2
  <1>8. LockInv'
    BY <1>4 DEF ConversionInv, LockInv
  <1> QED
    BY <1>6, <1>7, <1>8 DEF ConversionInv

\* A message that is confirmed or removed.
LEMMA MessageEndKeeps ==
    ASSUME ConversionInv, NEW account \in Converters,
           confirm_message_delivery(account) \/ remove_message(account)
    PROVE  ConversionInv'
  <1> USE AccountsApart
  <1>1. outgoing[account] \in OutgoingMessages
    BY DEF confirm_message_delivery, remove_message, ConversionInv, ConversionTypes
  <1>2. outgoing[account].fee \in Int
    BY <1>1 DEF OutgoingMessages
  <1>3. source \in IntLedgers
    BY DEF ConversionInv, ConversionTypes
  <1>4. source' \in IntLedgers
    <2>1. CASE confirm_message_delivery(account)
      <3> DEFINE l == [source EXCEPT !.held[PalletAccount] = @ - outgoing[account].fee]
      <3>1. l \in IntLedgers
        BY <1>2, <1>3 DEF IntLedgers
      <3>2. source' = Deposit(l, Relayer, outgoing[account].fee)
        BY <2>1 DEF confirm_message_delivery, TransferOnHold
      <3> HIDE DEF l
      <3> QED
        BY <1>2, <3>1, <3>2, DepositParts DEF Changed
    <2>2. CASE remove_message(account)
      <3> DEFINE n == IF source.held[PalletAccount] < outgoing[account].fee
                      THEN source.held[PalletAccount] ELSE outgoing[account].fee
      <3>1. n \in Int
        BY <1>2, <1>3 DEF IntLedgers
      <3>2. source' = Release(source, PalletAccount, n)
        BY <2>2 DEF remove_message, ReleaseBestEffort
      <3> HIDE DEF n
      <3> QED
        BY <1>3, <3>1, <3>2, ReleaseParts DEF Changed
    <2> QED
      BY <2>1, <2>2
  <1>5. /\ outgoing' = [outgoing EXCEPT ![account] = None]
        /\ UNCHANGED <<initiated, wire, dest, locked, unprocessed>>
    BY DEF confirm_message_delivery, remove_message, destVars
  <1>6. ConversionTypes'
    BY <1>4, <1>5 DEF ConversionInv, ConversionTypes
  <1>7. PayerInv'
    BY <1>5 DEF ConversionInv, ConversionTypes, PayerInv
  <1>8. LockInv'
    BY <1>5 DEF ConversionInv, LockInv
  <1> QED
    BY <1>6, <1>7, <1>8 DEF ConversionInv

-----------------------------------------------------------------------------
\* What happens on the destination chain changes its ledger, the locks and
\* the waiting messages only.
DestKept ==
    /\ dest' \in IntLedgers
    /\ locked' \in [Converters -> LockedConversions \cup {None}]
    /\ unprocessed' \in [Converters -> Nat \cup {None}]
    /\ LockInv'

LEMMA DestKeeps ==
    ASSUME ConversionInv, DestKept, UNCHANGED <<source, initiated, outgoing, wire>>
    PROVE  ConversionInv'
  <1>1. ConversionTypes'
    BY DEF ConversionInv, ConversionTypes, DestKept
  <1>2. PayerInv'
    BY DEF ConversionInv, PayerInv
  <1> QED
    BY <1>1, <1>2 DEF ConversionInv, DestKept

\* process_conversion holds what it records, on an account that keeps its
\* deposit if it holds anything.
LEMMA ProcessKeeps ==
    ASSUME ConversionInv, NEW account \in Converters, NEW amount \in Nat,
           NEW waiting \in Nat \cup {None}, process_conversion(account, amount, waiting)
    PROVE  DestKept
  <1> USE AccountsApart
  <1> DEFINE first == IF waiting = None THEN amount ELSE waiting
             funded == fund(account, first)
             h == HoldAmount(funded, account, first)
  <1>1. first \in Nat /\ first \in Int /\ account \in Accounts
    OBVIOUS
  <1>2. /\ dest \in IntLedgers
        /\ locked \in [Converters -> LockedConversions \cup {None}]
        /\ unprocessed \in [Converters -> Nat \cup {None}]
    BY DEF ConversionInv, ConversionTypes
  <1>3. CASE UNCHANGED <<dest, locked>> /\ \E v \in Nat \cup {None} :
                unprocessed' = [unprocessed EXCEPT ![account] = v]
    <2>1. LockInv'
      BY <1>3 DEF ConversionInv, LockInv
    <2> QED
      BY <1>2, <1>3, <2>1 DEF DestKept
  <1>4. CASE /\ locked[account] = None /\ CanProcess(account, first)
             /\ LockFunds(account, first)
             /\ unprocessed' = [unprocessed EXCEPT ![account] = None]
    <2>1. Moved(funded, dest, PalletAccount, account, first)
      <3>1. /\ PalletAccount \in Accounts /\ account \in Accounts
            /\ dest \in IntLedgers /\ first \in Int
        BY <1>1, <1>2
      <3>2. funded = Transfer(dest, PalletAccount, account, first)
        BY DEF fund
      <3> HIDE DEF first, funded
      <3> QED
        BY <3>1, <3>2, TransferParts
    <2>2. CanHold(funded, account, h)
      BY <1>4 DEF CanProcess
    <2>3. /\ dest' = Hold(funded, account, h)
          /\ locked' = [locked EXCEPT ![account] = [amount |-> h, age |-> 0]]
      BY <1>4 DEF LockFunds
    <2> HIDE DEF first, funded
    <2>4. h \in Nat /\ h \in Int
      <3>1. Reducible(funded, account) \in Nat
        BY <2>1, ReducibleNat DEF Moved
      <3>2. Min({first, Reducible(funded, account)}) \in Nat
        BY <1>1, <3>1, MinOfTwo
      <3> QED
        BY <1>1, <3>2, ConversionAssumption DEF HoldAmount
    <2> HIDE DEF h
    <2>5. Changed(dest', funded, account, -h, h)
      <3>1. funded \in IntLedgers
        BY <2>1 DEF Moved
      <3> QED
        BY <1>1, <2>3, <2>4, <3>1, HoldParts
    <2>6. [amount |-> h, age |-> 0] \in LockedConversions /\ [amount |-> h, age |-> 0] # None
      BY <2>4, NoneAssumption DEF LockedConversions
    <2>7. locked' \in [Converters -> LockedConversions \cup {None}]
      BY <1>2, <2>3, <2>6
    <2>8. LockInv'
      <3> SUFFICES ASSUME NEW a \in Converters
                   PROVE  /\ dest'.held[a] = IF locked'[a] = None THEN 0 ELSE locked'[a].amount
                          /\ locked'[a] # None /\ locked'[a].amount > 0
                                => dest'.free[a] >= ExistentialDeposit
        BY DEF LockInv
      <3>1. /\ dest.free \in [Accounts -> Int] /\ dest.held \in [Accounts -> Int]
            /\ funded.free \in [Accounts -> Int] /\ funded.held \in [Accounts -> Int]
        BY <1>2, <2>1 DEF IntLedgers, Moved
      <3>2. CASE a = account
        <4>1. locked'[a] = [amount |-> h, age |-> 0]
          BY <1>2, <2>3, <3>2
        <4>2. dest.held[a] = 0
          BY <1>4, <3>2 DEF ConversionInv, LockInv
        <4>3. dest'.held[a] = h /\ dest'.free[a] = funded.free[a] - h
          BY <2>1, <2>4, <2>5, <3>1, <3>2, <4>2 DEF Moved, Changed
        <4>4. h = 0 \/ funded.free[a] >= h + ExistentialDeposit
          BY <2>2, <3>2 DEF CanHold, CanWithdraw
        <4> QED
          BY <2>4, <2>6, <3>1, <4>1, <4>3, <4>4, ExistentialDepositAssumption
      <3>3. CASE a # account
        <4>1. locked'[a] = locked[a]
          BY <1>2, <2>3, <3>3
        <4>2. dest'.held[a] = dest.held[a] /\ dest'.free[a] = dest.free[a]
          BY <1>1, <2>1, <2>5, <3>1, <3>3 DEF Moved, Changed
        <4> QED
          BY <4>1, <4>2 DEF ConversionInv, LockInv
      <3> QED
        BY <3>2, <3>3
    <2> QED
      BY <1>2, <1>4, <2>5, <2>7, <2>8 DEF DestKept, Changed
  <1> QED
    BY <1>1, <1>3, <1>4 DEF process_conversion

LEMMA ReceiptKeeps ==
    ASSUME ConversionInv, NEW account \in Converters,
           process(account) \/ retry_process_conversion_for(account)
    PROVE  ConversionInv'
  <1>1. DestKept
    <2>1. unprocessed[account] \in Nat \cup {None}
      BY DEF ConversionInv, ConversionTypes
    <2>2. CASE process(account)
      <3>1. initiated[account].burned \in Nat
        BY <2>2 DEF process, ConversionInv, ConversionTypes, InitiatedConversions
      <3>2. process_conversion(account, initiated[account].burned, unprocessed[account])
        BY <2>2 DEF process
      <3> QED
        BY <2>1, <3>1, <3>2, ProcessKeeps
    <2>3. CASE retry_process_conversion_for(account)
      <3>1. unprocessed[account] \in Nat
        BY <2>1, <2>3 DEF retry_process_conversion_for
      <3>2. process_conversion(account, unprocessed[account], None)
        BY <2>3 DEF retry_process_conversion_for
      <3> QED
        BY <3>1, <3>2, ProcessKeeps
    <2> QED
      BY <2>2, <2>3
  <1>2. UNCHANGED <<source, initiated, outgoing, wire>>
    BY DEF process, retry_process_conversion_for, sourceVars
  <1> QED
    BY <1>1, <1>2, DestKeeps

LEMMA AmountUnlockedNat ==
    ASSUME NEW lock \in LockedConversions
    PROVE  amount_unlocked(lock) \in Nat
  <1>1. /\ lock.age \in Nat /\ lock.amount \in Nat
        /\ Accuracy \in Nat /\ Accuracy > 0 /\ MaxLockDuration \in Nat /\ MaxLockDuration > 0
    BY ConversionAssumption DEF LockedConversions
  <1>2. \A x \in Nat, y \in Nat : y > 0 => x \div y \in Nat
    OBVIOUS
  <1>3. \A x \in Nat, y \in Nat : x * y \in Nat
    OBVIOUS
  <1>4. (lock.age * Accuracy) \div MaxLockDuration \in Nat
    BY <1>1, <1>2, <1>3
  <1>5. ((lock.age * Accuracy) \div MaxLockDuration) * lock.amount \in Nat
    BY <1>1, <1>3, <1>4
  <1> QED
    BY <1>1, <1>2, <1>5 DEF amount_unlocked

LEMMA UnlockKeeps ==
    ASSUME ConversionInv, NEW who \in Converters, unlock(who)
    PROVE  ConversionInv'
  <1> USE AccountsApart
  <1> DEFINE r == ReleaseAll(who)
             n == UnlockSlash(locked[who])
  <1>1. /\ dest \in IntLedgers /\ dest.held[who] \in Int /\ who \in Accounts
        /\ locked \in [Converters -> LockedConversions \cup {None}]
    BY DEF ConversionInv, ConversionTypes, IntLedgers
  <1>2. locked[who] \in LockedConversions
    BY <1>1 DEF unlock
  <1>3. n \in Int
    BY <1>2, AmountUnlockedNat DEF UnlockSlash, LockedConversions
  <1>4. Changed(r, dest, who, dest.held[who], -dest.held[who])
    BY <1>1, ReleaseParts DEF ReleaseAll
  <1>5. /\ dest' = Withdraw(r, who, n)
        /\ locked' = [locked EXCEPT ![who] = None]
        /\ UNCHANGED <<source, initiated, outgoing, wire, unprocessed>>
    BY DEF unlock, sourceVars
  <1> HIDE DEF r, n
  <1>6. Changed(dest', r, who, -n, 0)
    <2>1. r \in IntLedgers
      BY <1>4 DEF Changed
    <2> QED
      BY <1>1, <1>3, <1>5, <2>1, WithdrawParts
  <1>7. LockInv'
    <2> SUFFICES ASSUME NEW a \in Converters
                 PROVE  /\ dest'.held[a] = IF locked'[a] = None THEN 0 ELSE locked'[a].amount
                        /\ locked'[a] # None /\ locked'[a].amount > 0
                              => dest'.free[a] >= ExistentialDeposit
      BY DEF LockInv
    <2>1. /\ dest.free \in [Accounts -> Int] /\ dest.held \in [Accounts -> Int]
          /\ r.free \in [Accounts -> Int]
      BY <1>1, <1>4 DEF IntLedgers, Changed
    <2>2. CASE a = who
      <3>1. locked'[a] = None
        BY <1>1, <1>5, <2>2
      <3>2. dest'.held[a] = 0
        BY <1>4, <1>6, <2>1, <2>2 DEF Changed
      <3> QED
        BY <3>1, <3>2
    <2>3. CASE a # who
      <3>1. locked'[a] = locked[a]
        BY <1>1, <1>5, <2>3
      <3>2. dest'.held[a] = dest.held[a] /\ dest'.free[a] = dest.free[a]
        BY <1>4, <1>6, <2>1, <2>3 DEF Changed
      <3> QED
        BY <3>1, <3>2 DEF ConversionInv, LockInv
    <2> QED
      BY <2>2, <2>3
  <1>8. DestKept
    BY <1>1, <1>5, <1>6, <1>7 DEF DestKept, ConversionInv, ConversionTypes, Changed
  <1> QED
    BY <1>5, <1>8, DestKeeps

LEMMA SlashKeeps ==
    ASSUME ConversionInv, NEW account \in Converters, NEW amount \in SlashAmounts,
           slash(account, amount)
    PROVE  ConversionInv'
  <1> USE AccountsApart
  <1> DEFINE slashed == Min({amount, dest.held[account]})
             rest == locked[account].amount - slashed
             new == IF rest = 0 THEN None ELSE [locked[account] EXCEPT !.amount = rest]
  <1>1. /\ dest \in IntLedgers
        /\ dest.free \in [Accounts -> Int] /\ dest.held \in [Accounts -> Int]
        /\ locked \in [Converters -> LockedConversions \cup {None}]
    BY DEF ConversionInv, ConversionTypes, IntLedgers
  <1>2. locked[account] \in LockedConversions /\ locked[account] # None
    BY <1>1 DEF slash
  <1>3. locked[account].amount \in Nat /\ dest.held[account] = locked[account].amount
    BY <1>2 DEF LockedConversions, ConversionInv, LockInv
  <1>4. slashed \in Nat /\ rest \in Nat
    <2>1. amount \in Nat
      BY ConversionAssumption
    <2>2. slashed = IF amount <= dest.held[account] THEN amount ELSE dest.held[account]
      BY <1>3, <2>1, MinOfTwo
    <2> HIDE DEF slashed
    <2> QED
      BY <1>3, <2>1, <2>2
  <1>5. /\ dest' = [dest EXCEPT !.held[account] = @ - slashed]
        /\ locked' = [locked EXCEPT ![account] = new]
        /\ UNCHANGED <<source, initiated, outgoing, wire, unprocessed>>
    BY DEF slash, sourceVars
  <1> HIDE DEF slashed
  <1>6. /\ dest' \in IntLedgers
        /\ dest'.free = dest.free
        /\ \A c \in Accounts : dest'.held[c] = dest.held[c] - (IF c = account THEN slashed ELSE 0)
    BY <1>1, <1>4, <1>5 DEF IntLedgers
  <1>7. /\ new \in LockedConversions \cup {None}
        /\ new = None => rest = 0
        /\ new # None => new.amount = rest
    BY <1>2, <1>4, NoneAssumption DEF LockedConversions
  <1>8. LockInv'
    <2> SUFFICES ASSUME NEW a \in Converters
                 PROVE  /\ dest'.held[a] = IF locked'[a] = None THEN 0 ELSE locked'[a].amount
                        /\ locked'[a] # None /\ locked'[a].amount > 0
                              => dest'.free[a] >= ExistentialDeposit
      BY DEF LockInv
    <2>1. CASE a = account
      <3>1. locked'[a] = new
        BY <1>1, <1>5, <2>1
      <3>2. dest'.held[a] = rest
        BY <1>1, <1>3, <1>4, <1>6, <2>1
      <3>3. locked[a].amount > 0 => dest'.free[a] >= ExistentialDeposit
        BY <1>2, <1>6, <2>1 DEF ConversionInv, LockInv
      <3>4. rest > 0 => locked[a].amount > 0
        BY <1>3, <1>4, <2>1
      <3> HIDE DEF rest, new
      <3> QED
        BY <1>7, <3>1, <3>2, <3>3, <3>4
    <2>2. CASE a # account
      <3>1. locked'[a] = locked[a]
        BY <1>1, <1>5, <2>2
      <3>2. dest'.held[a] = dest.held[a] /\ dest'.free[a] = dest.free[a]
        BY <1>1, <1>6, <2>2
      <3> QED
        BY <3>1, <3>2 DEF ConversionInv, LockInv
    <2> QED
      BY <2>1, <2>2
  <1>9. DestKept
    BY <1>1, <1>5, <1>6, <1>7, <1>8 DEF DestKept, ConversionInv, ConversionTypes
  <1> QED
    BY <1>5, <1>9, DestKeeps

\* Free balances that change without the locks: funds for the pallet, and
\* spending that leaves the deposit.
LEMMA MoneyKeeps ==
    ASSUME ConversionInv,
           TopUpPallet \/ \E a \in Converters : SpendAtDestination(a, Reducible(dest, a))
    PROVE  ConversionInv'
  <1> USE AccountsApart
  <1>1. dest \in IntLedgers /\ dest.free \in [Accounts -> Int]
    BY DEF ConversionInv, ConversionTypes, IntLedgers
  <1>2. UNCHANGED <<source, initiated, outgoing, wire, locked, unprocessed>>
    BY DEF TopUpPallet, SpendAtDestination, sourceVars
  <1>3. CASE TopUpPallet
    <2>1. Changed(dest', dest, PalletAccount, TopUp, 0)
      <3>1. TopUp \in Int /\ PalletAccount \in Accounts
        BY ConversionAssumption
      <3>2. dest' = Deposit(dest, PalletAccount, TopUp)
        BY <1>3 DEF TopUpPallet
      <3> QED
        BY <1>1, <3>1, <3>2, DepositParts
    <2>2. LockInv'
      BY <1>1, <1>2, <2>1 DEF ConversionInv, LockInv, Changed
    <2>3. DestKept
      BY <1>2, <2>1, <2>2 DEF DestKept, ConversionInv, ConversionTypes, Changed
    <2> QED
      BY <1>2, <2>3, DestKeeps
  <1>4. CASE \E a \in Converters : SpendAtDestination(a, Reducible(dest, a))
    <2>1. PICK who \in Converters : SpendAtDestination(who, Reducible(dest, who))
      BY <1>4
    <2> DEFINE n == Reducible(dest, who)
    <2>2. n \in Nat /\ n \in Int /\ who \in Accounts
      BY <1>1, ReducibleNat
    <2>3. /\ dest' = Withdraw(dest, who, n)
          /\ dest.free[who] >= n + ExistentialDeposit
      BY <2>1 DEF SpendAtDestination, CanWithdraw
    <2> HIDE DEF n
    <2>4. Changed(dest', dest, who, -n, 0)
      BY <1>1, <2>2, <2>3, WithdrawParts
    <2>5. dest'.free[who] >= ExistentialDeposit
      BY <1>1, <2>2, <2>3, <2>4, ExistentialDepositAssumption DEF Changed
    <2>6. LockInv'
      <3> SUFFICES ASSUME NEW a \in Converters
                   PROVE  /\ dest'.held[a] = IF locked'[a] = None THEN 0 ELSE locked'[a].amount
                          /\ locked'[a] # None /\ locked'[a].amount > 0
                                => dest'.free[a] >= ExistentialDeposit
        BY DEF LockInv
      <3>1. dest.held[a] \in Int /\ dest.free[a] \in Int
        BY DEF ConversionInv, ConversionTypes, IntLedgers
      <3>2. dest'.held[a] = dest.held[a]
        BY <2>4, <3>1 DEF Changed
      <3>3. a # who => dest'.free[a] = dest.free[a]
        BY <2>4, <3>1 DEF Changed
      <3> QED
        BY <1>2, <2>5, <3>2, <3>3 DEF ConversionInv, LockInv
    <2>7. DestKept
      BY <1>2, <2>4, <2>6 DEF DestKept, ConversionInv, ConversionTypes, Changed
    <2> QED
      BY <1>2, <2>7, DestKeeps
  <1> QED
    BY <1>3, <1>4

LEMMA TickKeeps ==
    ASSUME ConversionInv, Tick
    PROVE  ConversionInv'
  <1>1. /\ outgoing \in [Converters -> OutgoingMessages \cup {None}]
        /\ locked \in [Converters -> LockedConversions \cup {None}]
        /\ UNCHANGED <<source, initiated, wire, dest, unprocessed>>
    BY DEF ConversionInv, ConversionTypes, Tick
  <1>2. /\ outgoing' \in [Converters -> OutgoingMessages \cup {None}]
        /\ \A a \in Converters :
              /\ outgoing'[a] = None <=> outgoing[a] = None
              /\ outgoing[a] # None => outgoing'[a].payer = outgoing[a].payer
    <2>1. \A a \in Converters : outgoing[a] # None =>
             /\ [outgoing[a] EXCEPT !.left = Max({0, @ - 1})] \in OutgoingMessages
             /\ [outgoing[a] EXCEPT !.left = Max({0, @ - 1})].payer = outgoing[a].payer
      <3> SUFFICES ASSUME NEW a \in Converters, outgoing[a] # None
                   PROVE  /\ [outgoing[a] EXCEPT !.left = Max({0, @ - 1})] \in OutgoingMessages
                          /\ [outgoing[a] EXCEPT !.left = Max({0, @ - 1})].payer
                                = outgoing[a].payer
        OBVIOUS
      <3>1. outgoing[a] \in OutgoingMessages
        BY <1>1
      <3>2. Max({0, outgoing[a].left - 1}) \in Nat
        BY <3>1, MaxOfTwo DEF OutgoingMessages
      <3> QED
        BY <3>1, <3>2 DEF OutgoingMessages
    <2> QED
      BY <1>1, <2>1, NoneAssumption DEF Tick
  <1>3. /\ locked' \in [Converters -> LockedConversions \cup {None}]
        /\ \A a \in Converters :
              /\ locked'[a] = None <=> locked[a] = None
              /\ locked[a] # None => locked'[a].amount = locked[a].amount
    <2>1. \A a \in Converters : locked[a] # None =>
             /\ [locked[a] EXCEPT !.age = Min({MaxLockDuration, @ + 1})] \in LockedConversions
             /\ [locked[a] EXCEPT !.age = Min({MaxLockDuration, @ + 1})].amount
                   = locked[a].amount
      <3> SUFFICES ASSUME NEW a \in Converters, locked[a] # None
                   PROVE  /\ [locked[a] EXCEPT !.age = Min({MaxLockDuration, @ + 1})]
                                \in LockedConversions
                          /\ [locked[a] EXCEPT !.age = Min({MaxLockDuration, @ + 1})].amount
                                = locked[a].amount
        OBVIOUS
      <3>1. locked[a] \in LockedConversions
        BY <1>1
      <3>2. Min({MaxLockDuration, locked[a].age + 1}) \in Nat
        BY <3>1, MinOfTwo, ConversionAssumption DEF LockedConversions
      <3> QED
        BY <3>1, <3>2 DEF LockedConversions
    <2> QED
      BY <1>1, <2>1, NoneAssumption DEF Tick
  <1>4. ConversionTypes'
    BY <1>1, <1>2, <1>3 DEF ConversionInv, ConversionTypes
  <1>5. LockInv'
    BY <1>1, <1>3 DEF ConversionInv, LockInv
  <1>6. PayerInv'
    BY <1>1, <1>2 DEF ConversionInv, PayerInv
  <1> QED
    BY <1>4, <1>5, <1>6 DEF ConversionInv

\* Steps that touch at most the source's free balances of users and what
\* the relayers have.
LEMMA OtherKeeps ==
    ASSUME ConversionInv,
           \/ \E a \in Converters, deny \in BOOLEAN : deny_source(a, deny)
           \/ \E enable \in BOOLEAN : set_enabled(enable)
           \/ \E a \in Converters : clean_incoming(a) \/ Lose(a)
           \/ \E a \in Payers : SpendAtSource(a, Reducible(source, a))
           \/ UNCHANGED conversionVars
    PROVE  ConversionInv'
  <1>1. /\ UNCHANGED <<initiated, outgoing, dest, locked, unprocessed>>
        /\ wire' \subseteq wire
    BY DEF deny_source, set_enabled, clean_incoming, Lose, SpendAtSource, sourceVars, destVars,
           conversionVars
  <1>2. source' \in IntLedgers
    <2>1. source \in IntLedgers
      BY DEF ConversionInv, ConversionTypes
    <2>2. CASE source' = source
      BY <2>1, <2>2
    <2>3. CASE \E a \in Payers : SpendAtSource(a, Reducible(source, a))
      <3>1. PICK a \in Payers : source' = Withdraw(source, a, Reducible(source, a))
        BY <2>3 DEF SpendAtSource
      <3>2. a \in Accounts /\ Reducible(source, a) \in Int
        BY <2>1, AccountsApart, ReducibleNat
      <3> QED
        BY <2>1, <3>1, <3>2, WithdrawParts DEF Changed
    <2> QED
      BY <2>2, <2>3 DEF deny_source, set_enabled, clean_incoming, Lose, sourceVars, conversionVars
  <1>3. ConversionTypes'
    BY <1>1, <1>2 DEF ConversionInv, ConversionTypes
  <1>4. LockInv' /\ PayerInv'
    BY <1>1 DEF ConversionInv, LockInv, PayerInv
  <1> QED
    BY <1>3, <1>4 DEF ConversionInv

-----------------------------------------------------------------------------
LEMMA ConversionInitially == ConversionInit => ConversionInv
  <1> SUFFICES ASSUME ConversionInit PROVE ConversionInv
    OBVIOUS
  <1>1. source \in IntLedgers /\ dest \in IntLedgers
    BY ConversionAssumption DEF ConversionInit, IntLedgers
  <1>2. ConversionTypes
    BY <1>1 DEF ConversionInit, ConversionTypes
  <1>3. LockInv /\ PayerInv
    BY AccountsApart DEF ConversionInit, LockInv, PayerInv
  <1> QED
    BY <1>2, <1>3 DEF ConversionInv

LEMMA ConversionInductive ==
    ConversionInv /\ [ConversionNext]_conversionVars => ConversionInv'
  <1> SUFFICES ASSUME ConversionInv, [ConversionNext]_conversionVars PROVE ConversionInv'
    OBVIOUS
  <1>1. CASE SourceNext
    BY <1>1, ConvertKeeps, RetryKeeps, MessageEndKeeps, OtherKeeps DEF SourceNext, Retry
  <1>2. CASE DestinationNext
    BY <1>2, ReceiptKeeps, UnlockKeeps, SlashKeeps, OtherKeeps DEF DestinationNext
  <1>3. CASE EnvironmentNext
    BY <1>3, TickKeeps, MoneyKeeps, OtherKeeps DEF EnvironmentNext
  <1>4. CASE UNCHANGED conversionVars
    BY <1>4, OtherKeeps
  <1> QED
    BY <1>1, <1>2, <1>3, <1>4 DEF ConversionNext

\* The invariant gives what the property states: a lock that is due can be
\* lifted, as the slash is at most what was on hold.
LEMMA LiftableFromInv == ConversionInv => LockCanBeLifted
  <1> SUFFICES ASSUME ConversionInv, NEW a \in Converters,
                      locked[a] # None, locked[a].age >= MinLockDuration
               PROVE  CanUnlock(a)
    BY DEF ConversionInv, LockInv, LockCanBeLifted
  <1> USE AccountsApart
  <1>1. /\ dest \in IntLedgers /\ dest.free \in [Accounts -> Int]
        /\ dest.held \in [Accounts -> Int]
        /\ locked[a] \in LockedConversions
        /\ a \in Accounts /\ dest.held[a] \in Int
    BY DEF ConversionInv, ConversionTypes, IntLedgers
  <1> DEFINE u == amount_unlocked(locked[a])
             m == locked[a].amount
  <1>2. u \in Nat /\ m \in Nat
    BY <1>1, AmountUnlockedNat DEF LockedConversions
  <1>3. /\ dest.held[a] = m
        /\ m > 0 => dest.free[a] >= ExistentialDeposit
    BY DEF ConversionInv, LockInv
  <1>4. ReleaseAll(a).free[a] = dest.free[a] + m
    <2>1. Changed(ReleaseAll(a), dest, a, dest.held[a], -dest.held[a])
      BY <1>1, ReleaseParts DEF ReleaseAll
    <2> QED
      BY <1>1, <1>3, <2>1 DEF Changed
  <1>5. m = 0 => u = 0
    <2> SUFFICES ASSUME m = 0 PROVE u = 0
      OBVIOUS
    <2>1. \A x \in Nat : x * 0 = 0
      OBVIOUS
    <2>2. (locked[a].age * Accuracy) \div MaxLockDuration \in Nat
      <3>1. /\ locked[a].age \in Nat /\ Accuracy \in Nat
            /\ MaxLockDuration \in Nat /\ MaxLockDuration > 0
        BY <1>1, ConversionAssumption DEF LockedConversions
      <3>2. \A x \in Nat, y \in Nat : y > 0 => x \div y \in Nat
        OBVIOUS
      <3>3. locked[a].age * Accuracy \in Nat
        BY <3>1
      <3> QED
        BY <3>1, <3>2, <3>3
    <2>3. u = 0 \div Accuracy
      BY <2>1, <2>2 DEF amount_unlocked
    <2>4. 0 \div Accuracy = 0
      BY ConversionAssumption
    <2> QED
      BY <2>3, <2>4
  <1>6. UnlockSlash(locked[a]) = m - u
    BY DEF UnlockSlash
  <1> HIDE DEF u, m
  <1>7. CanWithdraw(ReleaseAll(a), a, m - u)
    BY <1>1, <1>2, <1>3, <1>4, <1>5, ExistentialDepositAssumption DEF CanWithdraw
  <1> QED
    BY <1>6, <1>7 DEF CanUnlock

\* For every configuration and any number of accounts: what is on hold for a
\* conversion is what its lock records, and unlock succeeds once the minimum
\* duration is over (unlock, slash and process_conversion of the pallet).
THEOREM LocksLiftable == ConversionSpec => []LockCanBeLifted
  <1>1. ConversionInit => ConversionInv
    BY ConversionInitially
  <1>2. ConversionInv /\ [ConversionNext]_conversionVars => ConversionInv'
    BY ConversionInductive
  <1>3. ConversionInv => LockCanBeLifted
    BY LiftableFromInv
  <1> QED
    BY <1>1, <1>2, <1>3, PTL DEF ConversionSpec

\* For every configuration: the fee of a message that is replaced goes back
\* to the account that paid it (send_convert_message and the fee_payer that
\* convert, retry_convert and retry_convert_for record).
THEOREM RefundsReachPayers == ConversionSpec => RefundReachesPayer
  <1> DEFINE Refunded(a) ==
        outgoing[a] # None /\ outgoing[a].left = 0 /\ outgoing'[a] # None
             /\ outgoing'[a] # outgoing[a] =>
          source'.free[outgoing[a].payer] = source.free[outgoing[a].payer] + outgoing[a].fee
             - (IF outgoing'[a].payer = outgoing[a].payer THEN outgoing'[a].fee ELSE 0)
  <1>1. ConversionInit => ConversionInv
    BY ConversionInitially
  <1>2. ConversionInv /\ [ConversionNext]_conversionVars => ConversionInv'
    BY ConversionInductive
  <1>3. ConversionInv /\ [ConversionNext]_conversionVars
           => [\A a \in Converters : Refunded(a)]_conversionVars
    <2> SUFFICES ASSUME ConversionInv, ConversionNext, NEW a \in Converters,
                        outgoing[a] # None, outgoing[a].left = 0, outgoing'[a] # None,
                        outgoing'[a] # outgoing[a]
                 PROVE  source'.free[outgoing[a].payer] =
                           source.free[outgoing[a].payer] + outgoing[a].fee
                           - (IF outgoing'[a].payer = outgoing[a].payer
                              THEN outgoing'[a].fee ELSE 0)
      OBVIOUS
    <2>1. outgoing \in [Converters -> OutgoingMessages \cup {None}]
             /\ outgoing[a] \in OutgoingMessages /\ source \in IntLedgers
      BY DEF ConversionInv, ConversionTypes
    <2>2. \E who \in Payers, fee \in Fees : retry_convert_for(a, who, fee)
      <3>1. ~Tick
        <4>1. Max({0, outgoing[a].left - 1}) = 0
          BY MaxOfTwo
        <4>2. [outgoing[a] EXCEPT !.left = Max({0, @ - 1})] = outgoing[a]
          BY <2>1, <4>1 DEF OutgoingMessages
        <4> QED
          BY <4>2 DEF Tick
      <3>2. \A b \in Converters, fee \in Fees : ~convert(b, fee)
        <4> SUFFICES ASSUME NEW b \in Converters, NEW fee \in Fees, convert(b, fee) PROVE FALSE
          OBVIOUS
        <4>1. b # a
          BY DEF convert, ConversionInv, PayerInv
        <4>2. \E m : outgoing' = [outgoing EXCEPT ![b] = m]
          BY DEF convert, send_convert_message
        <4> QED
          BY <2>1, <4>1, <4>2
      <3>3. \A b \in Converters, who \in Payers, fee \in Fees :
               retry_convert_for(b, who, fee) => b = a
        <4> SUFFICES ASSUME NEW b \in Converters, NEW who \in Payers, NEW fee \in Fees,
                            retry_convert_for(b, who, fee), b # a
                     PROVE  FALSE
          OBVIOUS
        <4>1. \E m : outgoing' = [outgoing EXCEPT ![b] = m]
          BY DEF retry_convert_for, send_convert_message
        <4> QED
          BY <2>1, <4>1
      <3>4. \A b \in Converters : ~confirm_message_delivery(b) /\ ~remove_message(b)
        BY <2>1 DEF confirm_message_delivery, remove_message
      <3>5. ~UNCHANGED outgoing
        OBVIOUS
      <3>6. CASE SourceNext
        BY <3>2, <3>3, <3>4, <3>5, <3>6 DEF SourceNext, Retry, deny_source
      <3>7. CASE DestinationNext
        BY <3>5, <3>7 DEF DestinationNext, process, retry_process_conversion_for, unlock, slash,
           clean_incoming, sourceVars
      <3>8. CASE EnvironmentNext
        BY <3>1, <3>5, <3>8 DEF EnvironmentNext, TopUpPallet, Lose, SpendAtSource,
           SpendAtDestination, set_enabled, sourceVars
      <3> QED
        BY <3>6, <3>7, <3>8 DEF ConversionNext
    <2>3. PICK who \in Payers, fee \in Fees : retry_convert_for(a, who, fee)
      BY <2>2
    <2>4. initiated[a].fee_payer = outgoing[a].payer /\ outgoing[a].payer \in Payers
      BY <2>1 DEF ConversionInv, PayerInv, OutgoingMessages
    <2>5. send_convert_message(source, a, who, outgoing[a].payer, fee)
      BY <2>3, <2>4 DEF retry_convert_for
    <2>6. outgoing'[a] = [fee |-> fee, left |-> ConvertTTL + 1, payer |-> who]
      BY <2>1, <2>5 DEF send_convert_message
    <2>7. source'.free[outgoing[a].payer] = source.free[outgoing[a].payer]
             - (IF outgoing[a].payer = who THEN fee ELSE 0) + OldFee(a)
      <3>1. \A c \in Payers : source'.free[c] =
               source.free[c] - (IF c = who THEN fee ELSE 0)
                  + (IF c = outgoing[a].payer THEN OldFee(a) ELSE 0)
        <4>1. ConversionTypes
          BY DEF ConversionInv
        <4>2. source' = Transfer(HoldFee(source, a, who, fee), PalletAccount,
                                 outgoing[a].payer, OldFee(a))
          BY <2>5 DEF send_convert_message
        <4> QED
          BY <2>1, <2>4, <4>1, <4>2, SendMoves
      <3> QED
        BY <2>4, <3>1
    <2>8. OldFee(a) = outgoing[a].fee /\ outgoing[a].fee \in Int /\ fee \in Int
             /\ source.free[outgoing[a].payer] \in Int
      BY <2>1, <2>4, AccountsApart, ConversionAssumption DEF OldFee, OutgoingMessages, IntLedgers
    <2> QED
      BY <2>6, <2>7, <2>8
  <1>4. ConversionSpec => [][\A a \in Converters : Refunded(a)]_conversionVars
    BY <1>1, <1>2, <1>3, PTL DEF ConversionSpec
  <1> QED
    BY <1>4 DEF RefundReachesPayer
=============================================================================
