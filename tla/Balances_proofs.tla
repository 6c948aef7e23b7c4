--------------------------- MODULE Balances_proofs ---------------------------
(***************************************************************************)
(* What proofs about money need: how the operations of Currency change a   *)
(* ledger, and how a sum over a finite set changes with a member or with a *)
(* value.  The facts about sums are proved by induction on finite sets in  *)
(* the form the provers can use: among the subsets of a set for which one  *)
(* fails there would be a minimal one.                                     *)
(***************************************************************************)
EXTENDS Currency, Sums, Integers, FiniteSets, FiniteSetTheorems, WellFoundedInduction, TLAPS

(***************************************************************************)
(* The currency operations keep balances natural numbers.                  *)
(***************************************************************************)
\* Currency: a hold that succeeds leaves balances and holds natural numbers.
LEMMA HoldType ==
    ASSUME NEW l \in Ledgers, NEW a \in Accounts, NEW n \in Nat, CanHold(l, a, n)
    PROVE  Hold(l, a, n) \in Ledgers
<1>1. l.free[a] - n \in Nat
  BY ExistentialDepositAssumption DEF Ledgers, CanHold, CanWithdraw
<1>2. Withdraw(l, a, n) \in Ledgers
  BY <1>1 DEF Ledgers, Withdraw
<1>3. [Withdraw(l, a, n) EXCEPT !.held[a] = @ + n] \in Ledgers
  BY <1>2 DEF Ledgers
<1> QED BY <1>3 DEF Hold

\* Currency: so does the release of what is held.
LEMMA ReleaseType ==
    ASSUME NEW l \in Ledgers, NEW a \in Accounts, NEW n \in Nat, CanRelease(l, a, n)
    PROVE  Release(l, a, n) \in Ledgers
<1>1. l.held[a] - n \in Nat
  BY DEF Ledgers, CanRelease
<1>2. Deposit(l, a, n) \in Ledgers /\ Deposit(l, a, n).held = l.held
  BY DEF Ledgers, Deposit
<1> QED BY <1>1, <1>2 DEF Ledgers, Release

\* Currency: a best-effort release never fails and keeps the types.
LEMMA ReleaseBestEffortType ==
    ASSUME NEW l \in Ledgers, NEW a \in Accounts, NEW n \in Nat
    PROVE  ReleaseBestEffort(l, a, n) \in Ledgers
<1>1. l.held[a] \in Nat
  BY DEF Ledgers
<1>2. CASE l.held[a] < n
  BY <1>1, <1>2, ReleaseType DEF ReleaseBestEffort, CanRelease
<1>3. CASE ~(l.held[a] < n)
  BY <1>1, <1>3, ReleaseType DEF ReleaseBestEffort, CanRelease
<1> QED BY <1>2, <1>3

\* Currency: so does the payment of a held fee to a relayer.
LEMMA TransferOnHoldType ==
    ASSUME NEW l \in Ledgers, NEW a \in Accounts, NEW b \in Accounts, NEW n \in Nat,
           CanTransferOnHold(l, a, b, n)
    PROVE  TransferOnHold(l, a, b, n) \in Ledgers
<1>1. l.held[a] - n \in Nat
  BY DEF Ledgers, CanTransferOnHold, CanRelease
<1>2. [l EXCEPT !.held[a] = @ - n] \in Ledgers
  BY <1>1 DEF Ledgers
<1>3. ASSUME NEW m \in Ledgers PROVE Deposit(m, b, n) \in Ledgers
  BY DEF Ledgers, Deposit
<1> QED BY <1>2, <1>3 DEF TransferOnHold

\* Currency: a transfer between different accounts of any ledger moves the
\* amount and touches nothing else.
LEMMA TransferMoves ==
    ASSUME NEW A, NEW l \in [free : [A -> Nat], held : [A -> Nat]],
           NEW a \in A, NEW b \in A, a # b, NEW n \in Nat, l.free[a] - n \in Nat
    PROVE  /\ Transfer(l, a, b, n) \in [free : [A -> Nat], held : [A -> Nat]]
           /\ Transfer(l, a, b, n).held = l.held
           /\ Transfer(l, a, b, n).free[a] = l.free[a] - n
           /\ Transfer(l, a, b, n).free[b] = l.free[b] + n
           /\ \A c \in A : c # a /\ c # b => Transfer(l, a, b, n).free[c] = l.free[c]
<1> DEFINE w == Withdraw(l, a, n)
           f == [l.free EXCEPT ![a] = @ - n]
           g == [f EXCEPT ![b] = @ + n]
<1>1. l.free \in [A -> Nat] /\ l.held \in [A -> Nat] /\ l = [free |-> l.free, held |-> l.held]
  OBVIOUS
<1>2. w = [free |-> f, held |-> l.held]
  BY <1>1 DEF Withdraw
<1>3. Deposit(w, b, n) = [free |-> g, held |-> l.held]
  BY <1>2 DEF Deposit
<1>4. f \in [A -> Nat] /\ g \in [A -> Nat]
  BY <1>1
<1>5. g[a] = l.free[a] - n /\ g[b] = l.free[b] + n /\ \A c \in A : c # a /\ c # b => g[c] = l.free[c]
  BY <1>1
<1> HIDE DEF g, f, w
<1>6. Transfer(l, a, b, n) = [free |-> g, held |-> l.held]
  BY <1>3 DEF Transfer, w
<1> QED BY <1>1, <1>4, <1>5, <1>6

\* What the currency operations do to the holds.
LEMMA HeldChanges ==
    ASSUME NEW l \in Ledgers, NEW a \in Accounts, NEW n \in Nat, NEW b \in Accounts
    PROVE  /\ Hold(l, a, n).held[b] = l.held[b] + (IF b = a THEN n ELSE 0)
           /\ Release(l, a, n).held[b] = l.held[b] - (IF b = a THEN n ELSE 0)
           /\ \A c : TransferOnHold(l, a, c, n).held[b] = l.held[b] - (IF b = a THEN n ELSE 0)
<1>1. l.held \in [Accounts -> Nat]
  BY DEF Ledgers
<1>2. Hold(l, a, n).held = [l.held EXCEPT ![a] = @ + n]
  BY DEF Ledgers, Hold, Withdraw
<1>3. Release(l, a, n).held = [l.held EXCEPT ![a] = @ - n]
  BY DEF Ledgers, Release, Deposit
<1>4. ASSUME NEW c PROVE TransferOnHold(l, a, c, n).held = [l.held EXCEPT ![a] = @ - n]
  BY DEF Ledgers, Deposit, TransferOnHold
<1> QED BY <1>1, <1>2, <1>3, <1>4

\* What each operation changes, and that it changes nothing else.
LEMMA DepositMoves ==
    ASSUME NEW l \in Ledgers, NEW a \in Accounts, NEW n \in Nat
    PROVE  /\ Deposit(l, a, n) \in Ledgers
           /\ Deposit(l, a, n).held = l.held
           /\ \A c \in Accounts : Deposit(l, a, n).free[c] = l.free[c] + (IF c = a THEN n ELSE 0)
BY DEF Ledgers, Deposit

\* The same for a withdrawal of what is there.
LEMMA WithdrawMoves ==
    ASSUME NEW l \in Ledgers, NEW a \in Accounts, NEW n \in Nat, l.free[a] >= n
    PROVE  /\ Withdraw(l, a, n) \in Ledgers
           /\ Withdraw(l, a, n).held = l.held
           /\ \A c \in Accounts : Withdraw(l, a, n).free[c] = l.free[c] - (IF c = a THEN n ELSE 0)
BY DEF Ledgers, Withdraw

\* A hold moves money from free to held.
LEMMA HoldMoves ==
    ASSUME NEW l \in Ledgers, NEW a \in Accounts, NEW n \in Nat, l.free[a] >= n
    PROVE  /\ Hold(l, a, n) \in Ledgers
           /\ \A c \in Accounts :
                 /\ Hold(l, a, n).free[c] = l.free[c] - (IF c = a THEN n ELSE 0)
                 /\ Hold(l, a, n).held[c] = l.held[c] + (IF c = a THEN n ELSE 0)
<1> DEFINE w == Withdraw(l, a, n)
<1>1. /\ w \in Ledgers /\ w.held = l.held
      /\ \A c \in Accounts : w.free[c] = l.free[c] - (IF c = a THEN n ELSE 0)
  BY WithdrawMoves
<1> HIDE DEF w
<1>2. [w EXCEPT !.held[a] = @ + n] \in Ledgers /\ [w EXCEPT !.held[a] = @ + n].free = w.free
  BY <1>1 DEF Ledgers
<1>3. Hold(l, a, n) \in Ledgers /\ Hold(l, a, n).free = w.free
  BY <1>2, Zenon DEF Hold, w
<1>4. \A c \in Accounts : Hold(l, a, n).held[c] = l.held[c] + (IF c = a THEN n ELSE 0)
  BY HeldChanges
<1> QED BY <1>1, <1>3, <1>4

\* A release moves money from held to free.
LEMMA ReleaseMoves ==
    ASSUME NEW l \in Ledgers, NEW a \in Accounts, NEW n \in Nat, l.held[a] >= n
    PROVE  /\ Release(l, a, n) \in Ledgers
           /\ \A c \in Accounts :
                 /\ Release(l, a, n).free[c] = l.free[c] + (IF c = a THEN n ELSE 0)
                 /\ Release(l, a, n).held[c] = l.held[c] - (IF c = a THEN n ELSE 0)
<1> DEFINE w == Deposit(l, a, n)
<1>1. /\ w \in Ledgers /\ w.held = l.held
      /\ \A c \in Accounts : w.free[c] = l.free[c] + (IF c = a THEN n ELSE 0)
  BY DepositMoves
<1> HIDE DEF w
<1>2. [w EXCEPT !.held[a] = @ - n] \in Ledgers /\ [w EXCEPT !.held[a] = @ - n].free = w.free
  BY <1>1 DEF Ledgers
<1>3. Release(l, a, n) \in Ledgers /\ Release(l, a, n).free = w.free
  BY <1>2, Zenon DEF Release, w
<1>4. \A c \in Accounts : Release(l, a, n).held[c] = l.held[c] - (IF c = a THEN n ELSE 0)
  BY HeldChanges
<1> QED BY <1>1, <1>3, <1>4

(***************************************************************************)
(* Sums.                                                                   *)
(***************************************************************************)
\* A nonempty collection of subsets of a finite set has a minimal member.
LEMMA MinimalSubset ==
    ASSUME NEW S, IsFiniteSet(S), NEW T \in SUBSET SUBSET S, T # {}
    PROVE  \E U \in T : \A V \in T : V \subseteq U => V = U
<1>1. IsWellFoundedOn(StrictSubsetOrdering(S), SUBSET S)
  BY FS_StrictSubsetOrderingWellFounded, FS_FiniteSubsetsOfFinite, Zenon
<1>2. \E U \in T : \A V \in T : ~(<<V, U>> \in StrictSubsetOrdering(S))
  BY <1>1, WFMin, Zenon
<1> QED BY <1>2 DEF StrictSubsetOrdering

\* The function that the fold of SumOver is defined by, and its equation.
Pick(s) == CHOOSE x \in s : TRUE

Partial(f, S) == CHOOSE g : g = [s \in SUBSET S |->
    IF s = {} THEN 0 ELSE f[Pick(s)] + g[s \ {Pick(s)}]]

IsPartial(g, f, S) == g = [s \in SUBSET S |->
    IF s = {} THEN 0 ELSE f[Pick(s)] + g[s \ {Pick(s)}]]

\* The fold is the solution that CHOOSE picks.
LEMMA SumIsPartial == ASSUME NEW f, NEW S PROVE SumOver(f, S) = Partial(f, S)[S]
  BY Zenon DEF SumOver, Partial, MapThenSumSet, MapThenFoldSet, Pick

\* The fold picks a member.
LEMMA PickIn == ASSUME NEW s, s # {} PROVE Pick(s) \in s
  BY DEF Pick

\* The equation has at most one solution, whatever set it is considered on.
LEMMA PartialUnique ==
    ASSUME NEW f, NEW S, IsFiniteSet(S), NEW U \in SUBSET S, NEW g, NEW h,
           IsPartial(g, f, S), IsPartial(h, f, U)
    PROVE  g[U] = h[U]
<1> DEFINE T == {V \in SUBSET U : g[V] # h[V]}
<1> SUFFICES ASSUME T # {} PROVE FALSE
  OBVIOUS
<1>1. IsFiniteSet(U)
  BY FS_Subset
<1>2. PICK V \in T : \A W \in T : W \subseteq V => W = V
  <2>1. T \in SUBSET SUBSET U
    OBVIOUS
  <2> HIDE DEF T
  <2> QED BY <1>1, <2>1, MinimalSubset
<1>3. V # {}
  BY DEF IsPartial
<1>4. Pick(V) \in V
  BY <1>3, PickIn
<1>5. g[V \ {Pick(V)}] = h[V \ {Pick(V)}]
  BY <1>2, <1>4
<1>6. g[V] = f[Pick(V)] + g[V \ {Pick(V)}]
  BY <1>3 DEF IsPartial
<1>7. h[V] = f[Pick(V)] + h[V \ {Pick(V)}]
  BY <1>3 DEF IsPartial
<1> QED BY <1>2, <1>5, <1>6, <1>7

\* The equation has a solution.
LEMMA PartialExists ==
    ASSUME NEW f, NEW S, IsFiniteSet(S)
    PROVE  IsPartial(Partial(f, S), f, S)
<1> DEFINE T == {U \in SUBSET S : ~IsPartial(Partial(f, U), f, U)}
<1> SUFFICES ASSUME T # {} PROVE FALSE
  OBVIOUS
<1>1. PICK U \in T : \A W \in T : W \subseteq U => W = U
  <2>1. T \in SUBSET SUBSET S
    OBVIOUS
  <2> HIDE DEF T
  <2> QED BY <2>1, MinimalSubset
<1>2. \A V \in SUBSET U : V # U => IsPartial(Partial(f, V), f, V)
  BY <1>1
<1>3. \A V \in SUBSET U : IsFiniteSet(V)
  BY <1>1, FS_Subset
<1> DEFINE h == [s \in SUBSET U |->
                   IF s = {} THEN 0
                   ELSE f[Pick(s)] + Partial(f, s \ {Pick(s)})[s \ {Pick(s)}]]
<1>4. ASSUME NEW s \in SUBSET U, s # {}
      PROVE  h[s \ {Pick(s)}] = Partial(f, s \ {Pick(s)})[s \ {Pick(s)}]
  <2> DEFINE t == s \ {Pick(s)}
  <2>1. t \in SUBSET U /\ t # U
    BY <1>4, PickIn
  <2>2. IsPartial(Partial(f, t), f, t) /\ IsFiniteSet(t)
    BY <1>2, <1>3, <2>1
  <2>3. CASE t = {}
    BY <2>1, <2>2, <2>3 DEF IsPartial
  <2>4. CASE t # {}
    <3> DEFINE u == t \ {Pick(t)}
    <3>1. u \in SUBSET t /\ u \in SUBSET U /\ u # U
      BY <2>1, <2>4, PickIn
    <3>2. IsPartial(Partial(f, u), f, u)
      BY <1>2, <3>1
    <3>3. Partial(f, t)[u] = Partial(f, u)[u]
      <4> HIDE DEF t, u
      <4> QED BY <2>2, <3>1, <3>2, PartialUnique
    <3>4. Partial(f, t)[t] = f[Pick(t)] + Partial(f, t)[u]
      BY <2>2, <2>4 DEF IsPartial
    <3>5. h[t] = f[Pick(t)] + Partial(f, u)[u]
      BY <2>1, <2>4
    <3> QED BY <3>3, <3>4, <3>5
  <2> QED BY <2>3, <2>4
<1>5. h = [s \in SUBSET U |-> IF s = {} THEN 0 ELSE f[Pick(s)] + h[s \ {Pick(s)}]]
  <2>1. \A s \in SUBSET U :
          (IF s = {} THEN 0 ELSE f[Pick(s)] + Partial(f, s \ {Pick(s)})[s \ {Pick(s)}])
            = (IF s = {} THEN 0 ELSE f[Pick(s)] + h[s \ {Pick(s)}])
    BY <1>4
  <2> QED BY <2>1
<1>6. IsPartial(Partial(f, U), f, U)
  <2> HIDE DEF h
  <2> QED BY <1>5, Zenon DEF IsPartial, Partial
<1> QED BY <1>1, <1>6

-----------------------------------------------------------------------------
\* The empty sum.
LEMMA SumEmpty == ASSUME NEW f PROVE SumOver(f, {}) = 0
<1>1. IsPartial(Partial(f, {}), f, {})
  BY FS_EmptySet, PartialExists
<1> QED BY <1>1, SumIsPartial DEF IsPartial

\* The sum by its own definition.
LEMMA SumPick ==
    ASSUME NEW f, NEW S, IsFiniteSet(S), S # {}
    PROVE  SumOver(f, S) = f[Pick(S)] + SumOver(f, S \ {Pick(S)})
<1> DEFINE t == S \ {Pick(S)}
<1>1. IsPartial(Partial(f, S), f, S)
  BY PartialExists
<1>2. IsFiniteSet(t) /\ t \in SUBSET S
  BY FS_Subset
<1>3. IsPartial(Partial(f, t), f, t)
  BY <1>2, PartialExists
<1>4. Partial(f, S)[t] = Partial(f, t)[t]
  <2> HIDE DEF t
  <2> QED BY <1>1, <1>2, <1>3, PartialUnique
<1>5. Partial(f, S)[S] = f[Pick(S)] + Partial(f, S)[t]
  BY <1>1 DEF IsPartial
<1> QED BY <1>4, <1>5, SumIsPartial

\* A sum of integers is an integer.
LEMMA SumInt ==
    ASSUME NEW f, NEW S, IsFiniteSet(S), \A x \in S : f[x] \in Int
    PROVE  SumOver(f, S) \in Int
<1> DEFINE T == {U \in SUBSET S : SumOver(f, U) \notin Int}
<1> SUFFICES ASSUME T # {} PROVE FALSE
  OBVIOUS
<1>1. PICK U \in T : \A W \in T : W \subseteq U => W = U
  <2>1. T \in SUBSET SUBSET S
    OBVIOUS
  <2> HIDE DEF T
  <2> QED BY <2>1, MinimalSubset
<1>2. U # {}
  BY SumEmpty
<1>3. Pick(U) \in U /\ IsFiniteSet(U)
  BY <1>2, PickIn, FS_Subset
<1>4. SumOver(f, U \ {Pick(U)}) \in Int
  BY <1>1, <1>3
<1> QED BY <1>1, <1>2, <1>3, <1>4, SumPick

\* Any member can be taken out.
LEMMA SumTake ==
    ASSUME NEW f, NEW S, IsFiniteSet(S), \A y \in S : f[y] \in Int, NEW x \in S
    PROVE  SumOver(f, S) = f[x] + SumOver(f, S \ {x})
<1> DEFINE T == {U \in SUBSET S : \E y \in U : SumOver(f, U) # f[y] + SumOver(f, U \ {y})}
<1> SUFFICES ASSUME T # {} PROVE FALSE
  OBVIOUS
<1>1. PICK U \in T : \A W \in T : W \subseteq U => W = U
  <2>1. T \in SUBSET SUBSET S
    OBVIOUS
  <2> HIDE DEF T
  <2> QED BY <2>1, MinimalSubset
<1>2. PICK y \in U : SumOver(f, U) # f[y] + SumOver(f, U \ {y})
  BY <1>1
<1> DEFINE c == Pick(U)
<1>3. IsFiniteSet(U) /\ c \in U /\ c # y /\ SumOver(f, U) = f[c] + SumOver(f, U \ {c})
  BY <1>1, <1>2, FS_Subset, PickIn, SumPick
<1> HIDE DEF c
<1>4. \A W \in SUBSET U : W # U => \A z \in W : SumOver(f, W) = f[z] + SumOver(f, W \ {z})
  BY <1>1
<1>5. SumOver(f, U \ {c}) = f[y] + SumOver(f, (U \ {c}) \ {y})
  BY <1>2, <1>3, <1>4
<1>6. SumOver(f, U \ {y}) = f[c] + SumOver(f, (U \ {y}) \ {c})
  BY <1>2, <1>3, <1>4
<1>7. (U \ {c}) \ {y} = (U \ {y}) \ {c}
  OBVIOUS
<1>8. SumOver(f, (U \ {c}) \ {y}) \in Int /\ f[c] \in Int /\ f[y] \in Int
  <2>1. IsFiniteSet((U \ {c}) \ {y}) /\ \A z \in (U \ {c}) \ {y} : f[z] \in Int
    BY <1>1, FS_Subset
  <2> QED BY <1>1, <1>3, <2>1, SumInt
<1>9. SumOver(f, U) = f[c] + (f[y] + SumOver(f, (U \ {c}) \ {y}))
  BY <1>3, <1>5
<1>10. SumOver(f, U \ {y}) = f[c] + SumOver(f, (U \ {c}) \ {y})
  BY <1>6, <1>7
<1> QED BY <1>2, <1>8, <1>9, <1>10

\* Only what the function is on the set matters.
LEMMA SumSame ==
    ASSUME NEW f, NEW g, NEW S, IsFiniteSet(S), \A x \in S : f[x] = g[x]
    PROVE  SumOver(f, S) = SumOver(g, S)
<1> DEFINE T == {U \in SUBSET S : SumOver(f, U) # SumOver(g, U)}
<1> SUFFICES ASSUME T # {} PROVE FALSE
  OBVIOUS
<1>1. PICK U \in T : \A W \in T : W \subseteq U => W = U
  <2>1. T \in SUBSET SUBSET S
    OBVIOUS
  <2> HIDE DEF T
  <2> QED BY <2>1, MinimalSubset
<1>2. U # {}
  BY SumEmpty
<1>3. Pick(U) \in U /\ IsFiniteSet(U)
  BY <1>2, PickIn, FS_Subset
<1>4. SumOver(f, U \ {Pick(U)}) = SumOver(g, U \ {Pick(U)})
  BY <1>1, <1>3
<1> QED BY <1>1, <1>2, <1>3, <1>4, SumPick

\* A sum of natural numbers is a natural number.
LEMMA SumNat ==
    ASSUME NEW f, NEW S, IsFiniteSet(S), \A x \in S : f[x] \in Nat
    PROVE  SumOver(f, S) \in Nat
<1> DEFINE T == {U \in SUBSET S : SumOver(f, U) \notin Nat}
<1> SUFFICES ASSUME T # {} PROVE FALSE
  OBVIOUS
<1>1. PICK U \in T : \A W \in T : W \subseteq U => W = U
  <2>1. T \in SUBSET SUBSET S
    OBVIOUS
  <2> HIDE DEF T
  <2> QED BY <2>1, MinimalSubset
<1>2. U # {}
  BY SumEmpty
<1>3. Pick(U) \in U /\ IsFiniteSet(U)
  BY <1>2, PickIn, FS_Subset
<1>4. SumOver(f, U \ {Pick(U)}) \in Nat
  BY <1>1, <1>3
<1> QED BY <1>1, <1>2, <1>3, <1>4, SumPick

\* A member more.
LEMMA SumAdd ==
    ASSUME NEW f, NEW S, IsFiniteSet(S), NEW x, x \notin S,
           f[x] \in Int, \A y \in S : f[y] \in Int
    PROVE  SumOver(f, S \cup {x}) = SumOver(f, S) + f[x]
<1>1. IsFiniteSet(S \cup {x})
  BY FS_AddElement
<1>2. (S \cup {x}) \ {x} = S
  OBVIOUS
<1>3. SumOver(f, S) \in Int
  BY SumInt
<1>4. SumOver(f, S \cup {x}) = f[x] + SumOver(f, (S \cup {x}) \ {x})
  <2>1. \A y \in S \cup {x} : f[y] \in Int
    OBVIOUS
  <2> QED BY <1>1, <2>1, SumTake
<1>5. SumOver(f, S \cup {x}) = f[x] + SumOver(f, S)
  BY <1>2, <1>4, Zenon
<1> QED BY <1>3, <1>5

\* The values differ at one member.
LEMMA SumChange ==
    ASSUME NEW f, NEW g, NEW S, IsFiniteSet(S), NEW x \in S,
           \A y \in S : f[y] \in Int, g[x] \in Int,
           \A y \in S : y # x => g[y] = f[y]
    PROVE  SumOver(g, S) = SumOver(f, S) - f[x] + g[x]
<1>1. IsFiniteSet(S \ {x})
  BY FS_Subset
<1>2. SumOver(f, S) = f[x] + SumOver(f, S \ {x})
  BY SumTake
<1>3. SumOver(g, S) = g[x] + SumOver(g, S \ {x})
  <2>1. \A y \in S : g[y] \in Int
    OBVIOUS
  <2> QED BY <2>1, SumTake
<1>4. SumOver(f, S \ {x}) = SumOver(g, S \ {x})
  <2>1. \A y \in S \ {x} : f[y] = g[y]
    OBVIOUS
  <2> QED BY <1>1, <2>1, SumSame
<1>5. SumOver(f, S \ {x}) \in Int
  BY <1>1, SumInt
<1> QED BY <1>2, <1>3, <1>4, <1>5

\* No member exceeds the sum.
LEMMA SumBounds ==
    ASSUME NEW f, NEW S, IsFiniteSet(S), \A y \in S : f[y] \in Nat, NEW x \in S
    PROVE  f[x] <= SumOver(f, S)
<1>1. SumOver(f, S \ {x}) \in Nat
  <2>1. IsFiniteSet(S \ {x})
    BY FS_Subset
  <2> QED BY <2>1, SumNat
<1>2. SumOver(f, S) = f[x] + SumOver(f, S \ {x})
  BY SumTake
<1> QED BY <1>1, <1>2

\* Larger values, larger sum.
LEMMA SumMonotonic ==
    ASSUME NEW f, NEW g, NEW S, IsFiniteSet(S),
           \A x \in S : f[x] \in Int /\ g[x] \in Int /\ f[x] <= g[x]
    PROVE  SumOver(f, S) <= SumOver(g, S)
<1> DEFINE T == {U \in SUBSET S : ~(SumOver(f, U) <= SumOver(g, U))}
<1> SUFFICES ASSUME T # {} PROVE FALSE
  OBVIOUS
<1>1. PICK U \in T : \A W \in T : W \subseteq U => W = U
  <2>1. T \in SUBSET SUBSET S
    OBVIOUS
  <2> HIDE DEF T
  <2> QED BY <2>1, MinimalSubset
<1>2. U # {}
  BY SumEmpty
<1>3. Pick(U) \in U /\ IsFiniteSet(U) /\ IsFiniteSet(U \ {Pick(U)})
  BY <1>2, PickIn, FS_Subset
<1>4. SumOver(f, U \ {Pick(U)}) <= SumOver(g, U \ {Pick(U)})
  BY <1>1, <1>3
<1>5. SumOver(f, U \ {Pick(U)}) \in Int /\ SumOver(g, U \ {Pick(U)}) \in Int
  BY <1>1, <1>3, SumInt
<1> QED BY <1>1, <1>2, <1>3, <1>4, <1>5, SumPick
\* Values that are bounded by two others.
LEMMA SumTogether ==
    ASSUME NEW f, NEW g, NEW h, NEW S, IsFiniteSet(S),
           \A x \in S : f[x] \in Int /\ g[x] \in Int /\ h[x] \in Int /\ f[x] <= g[x] + h[x]
    PROVE  SumOver(f, S) <= SumOver(g, S) + SumOver(h, S)
<1> DEFINE T == {U \in SUBSET S : ~(SumOver(f, U) <= SumOver(g, U) + SumOver(h, U))}
<1> SUFFICES ASSUME T # {} PROVE FALSE
  OBVIOUS
<1>1. PICK U \in T : \A W \in T : W \subseteq U => W = U
  <2>1. T \in SUBSET SUBSET S
    OBVIOUS
  <2> HIDE DEF T
  <2> QED BY <2>1, MinimalSubset
<1>2. U # {}
  <2>1. 0 <= 0 + 0
    OBVIOUS
  <2>2. SumOver(f, {}) = 0 /\ SumOver(g, {}) = 0 /\ SumOver(h, {}) = 0
    BY SumEmpty
  <2>3. ~(SumOver(f, U) <= SumOver(g, U) + SumOver(h, U))
    BY <1>1
  <2> QED BY <2>1, <2>2, <2>3
<1>3. Pick(U) \in U /\ IsFiniteSet(U) /\ IsFiniteSet(U \ {Pick(U)})
  BY <1>2, PickIn, FS_Subset
<1> DEFINE W == U \ {Pick(U)}
<1>4. SumOver(f, W) <= SumOver(g, W) + SumOver(h, W)
  BY <1>1, <1>3
<1>5. SumOver(f, W) \in Int /\ SumOver(g, W) \in Int /\ SumOver(h, W) \in Int
  BY <1>1, <1>3, SumInt
<1>6. /\ SumOver(f, U) = f[Pick(U)] + SumOver(f, W)
      /\ SumOver(g, U) = g[Pick(U)] + SumOver(g, W)
      /\ SumOver(h, U) = h[Pick(U)] + SumOver(h, W)
  BY <1>1, <1>2, <1>3, SumPick
<1> HIDE DEF W
<1> QED BY <1>1, <1>3, <1>4, <1>5, <1>6

\* A member more, of a function that agrees on the others.
LEMMA SumInsert ==
    ASSUME NEW f, NEW g, NEW S, IsFiniteSet(S), NEW x, x \notin S,
           g[x] \in Int, \A y \in S : f[y] \in Int /\ g[y] = f[y]
    PROVE  SumOver(g, S \cup {x}) = SumOver(f, S) + g[x]
<1>1. SumOver(g, S \cup {x}) = SumOver(g, S) + g[x]
  BY SumAdd
<1>2. SumOver(g, S) = SumOver(f, S)
  BY SumSame
<1> QED BY <1>1, <1>2

\* A member less, of a function that agrees on the others.
LEMMA SumRemove ==
    ASSUME NEW f, NEW g, NEW S, IsFiniteSet(S), NEW x \in S,
           \A y \in S : f[y] \in Int, \A y \in S : y # x => g[y] = f[y]
    PROVE  SumOver(g, S \ {x}) = SumOver(f, S) - f[x]
<1>1. SumOver(f, S) = f[x] + SumOver(f, S \ {x})
  BY SumTake
<1>2. IsFiniteSet(S \ {x})
  BY FS_Subset
<1>3. SumOver(g, S \ {x}) = SumOver(f, S \ {x})
  <2>1. \A y \in S \ {x} : g[y] = f[y]
    OBVIOUS
  <2> QED BY <1>2, <2>1, SumSame
<1>4. SumOver(f, S \ {x}) \in Int
  BY <1>2, SumInt
<1> QED BY <1>1, <1>3, <1>4

\* Nothing adds up to nothing.
LEMMA SumZero ==
    ASSUME NEW f, NEW S, IsFiniteSet(S), \A x \in S : f[x] = 0
    PROVE  SumOver(f, S) = 0
<1> DEFINE T == {U \in SUBSET S : SumOver(f, U) # 0}
<1> SUFFICES ASSUME T # {} PROVE FALSE
  OBVIOUS
<1>1. PICK U \in T : \A W \in T : W \subseteq U => W = U
  <2>1. T \in SUBSET SUBSET S
    OBVIOUS
  <2> HIDE DEF T
  <2> QED BY <2>1, MinimalSubset
<1>2. U # {}
  BY SumEmpty
<1>3. Pick(U) \in U /\ IsFiniteSet(U)
  BY <1>2, PickIn, FS_Subset
<1>4. SumOver(f, U \ {Pick(U)}) = 0
  BY <1>1, <1>3
<1> QED BY <1>1, <1>2, <1>3, <1>4, SumPick

\* Members with at most a share each.
LEMMA SumUpTo ==
    ASSUME NEW f, NEW S, IsFiniteSet(S), NEW c \in Nat, \A x \in S : f[x] \in Int /\ f[x] <= c
    PROVE  SumOver(f, S) <= Cardinality(S) * c
<1> DEFINE T == {U \in SUBSET S : ~(SumOver(f, U) <= Cardinality(U) * c)}
<1> SUFFICES ASSUME T # {} PROVE FALSE
  OBVIOUS
<1>1. PICK U \in T : \A W \in T : W \subseteq U => W = U
  <2>1. T \in SUBSET SUBSET S
    OBVIOUS
  <2> HIDE DEF T
  <2> QED BY <2>1, MinimalSubset
<1>2. U # {}
  BY SumEmpty, FS_EmptySet
<1> DEFINE V == U \ {Pick(U)}
<1>3. Pick(U) \in U /\ IsFiniteSet(U) /\ IsFiniteSet(V)
  BY <1>2, PickIn, FS_Subset
<1>4. Cardinality(V) \in Nat /\ Cardinality(U) = Cardinality(V) + 1
  <2>1. Cardinality(U) \in Nat /\ Cardinality(V) = Cardinality(U) - 1
    BY <1>3, FS_CardinalityType, FS_RemoveElement
  <2> QED BY <1>3, <2>1, FS_CardinalityType
<1>5. SumOver(f, V) <= Cardinality(V) * c
  BY <1>1, <1>3
<1>6. SumOver(f, V) \in Int /\ SumOver(f, U) = f[Pick(U)] + SumOver(f, V)
      /\ f[Pick(U)] \in Int /\ f[Pick(U)] <= c
  BY <1>1, <1>2, <1>3, SumInt, SumPick
<1>7. ~(SumOver(f, U) <= Cardinality(U) * c)
  BY <1>1
<1> HIDE DEF V
<1>8. Cardinality(U) * c = Cardinality(V) * c + c /\ Cardinality(V) * c \in Int
  BY <1>4
<1> QED BY <1>5, <1>6, <1>7, <1>8

\* Fewer members, no larger sum.
LEMMA SumSubset ==
    ASSUME NEW f, NEW S, IsFiniteSet(S), \A x \in S : f[x] \in Nat, NEW R \in SUBSET S
    PROVE  SumOver(f, R) <= SumOver(f, S)
<1> DEFINE T == {U \in SUBSET S : R \subseteq U /\ ~(SumOver(f, R) <= SumOver(f, U))}
<1> SUFFICES ASSUME T # {} PROVE FALSE
  OBVIOUS
<1>1. PICK U \in T : \A W \in T : W \subseteq U => W = U
  <2>1. T \in SUBSET SUBSET S
    OBVIOUS
  <2> HIDE DEF T
  <2> QED BY <2>1, MinimalSubset
<1>2. IsFiniteSet(R) /\ IsFiniteSet(U) /\ SumOver(f, R) \in Nat /\ R # U
  <2>1. IsFiniteSet(R) /\ IsFiniteSet(U)
    BY FS_Subset
  <2>2. SumOver(f, R) \in Nat
    BY <2>1, SumNat
  <2> QED BY <1>1, <2>1, <2>2
<1>3. PICK x \in U : x \notin R
  BY <1>1, <1>2
<1>4. IsFiniteSet(U \ {x})
  BY <1>2, FS_Subset
<1>5. SumOver(f, R) <= SumOver(f, U \ {x})
  BY <1>1, <1>3
<1>6. SumOver(f, U) = f[x] + SumOver(f, U \ {x}) /\ SumOver(f, U \ {x}) \in Nat /\ f[x] \in Nat
  <2>1. \A y \in U : f[y] \in Int /\ f[y] \in Nat
    BY <1>1
  <2>2. \A y \in U \ {x} : f[y] \in Nat
    BY <2>1
  <2> QED BY <1>2, <1>3, <1>4, <2>1, <2>2, SumTake, SumNat
<1> QED BY <1>1, <1>2, <1>5, <1>6

\* Fewer members with no larger values.
LEMMA SumShrink ==
    ASSUME NEW f, NEW g, NEW S, IsFiniteSet(S), \A x \in S : f[x] \in Nat, NEW R \in SUBSET S,
           \A x \in R : g[x] \in Int /\ g[x] <= f[x]
    PROVE  SumOver(g, R) <= SumOver(f, S)
<1>1. IsFiniteSet(R)
  BY FS_Subset
<1>2. SumOver(g, R) <= SumOver(f, R)
  <2>1. \A x \in R : g[x] \in Int /\ f[x] \in Int /\ g[x] <= f[x]
    OBVIOUS
  <2> QED BY <1>1, <2>1, SumMonotonic
<1>3. SumOver(f, R) <= SumOver(f, S)
  BY SumSubset
<1>4. SumOver(g, R) \in Int /\ SumOver(f, R) \in Int /\ SumOver(f, S) \in Int
  <2>1. /\ \A x \in R : g[x] \in Int
        /\ \A x \in R : f[x] \in Int
        /\ \A x \in S : f[x] \in Int
    OBVIOUS
  <2> QED BY <1>1, <2>1, SumInt
<1> QED BY <1>2, <1>3, <1>4

\* The same when one member gives something up.
LEMMA SumDrop ==
    ASSUME NEW f, NEW g, NEW S, IsFiniteSet(S), \A y \in S : f[y] \in Nat, NEW R \in SUBSET S,
           \A y \in R : g[y] \in Int /\ g[y] <= f[y],
           NEW x \in S, NEW n \in Nat, n <= f[x], x \in R => g[x] + n <= f[x]
    PROVE  SumOver(g, R) + n <= SumOver(f, S)
<1> DEFINE h == [y \in S |-> IF y = x THEN f[x] - n ELSE f[y]]
<1>1. /\ \A y \in S : h[y] \in Nat /\ f[y] \in Int
      /\ h[x] = f[x] - n /\ h[x] \in Int /\ f[x] \in Int
      /\ \A y \in S : y # x => h[y] = f[y]
  OBVIOUS
<1>2. \A y \in R : g[y] \in Int /\ g[y] <= h[y]
  OBVIOUS
<1> HIDE DEF h
<1>3. SumOver(h, S) = SumOver(f, S) - f[x] + h[x]
  BY <1>1, SumChange
<1>4. SumOver(g, R) <= SumOver(h, S)
  BY <1>1, <1>2, SumShrink
<1>5. SumOver(g, R) \in Int /\ SumOver(f, S) \in Int
  <2>1. IsFiniteSet(R) /\ \A y \in R : g[y] \in Int
    BY FS_Subset
  <2> QED BY <1>1, <2>1, SumInt
<1> QED BY <1>1, <1>3, <1>4, <1>5

\* What is bounded value by value, up to factors, is bounded as a sum.
LEMMA SumScaled ==
    ASSUME NEW f, NEW g, NEW S, IsFiniteSet(S), NEW c \in Nat, NEW d \in Nat,
           \A x \in S : f[x] \in Nat /\ g[x] \in Nat /\ c * f[x] <= d * g[x]
    PROVE  c * SumOver(f, S) <= d * SumOver(g, S)
<1> DEFINE T == {U \in SUBSET S : ~(c * SumOver(f, U) <= d * SumOver(g, U))}
<1> SUFFICES ASSUME T # {} PROVE FALSE
  OBVIOUS
<1>1. PICK U \in T : \A W \in T : W \subseteq U => W = U
  <2>1. T \in SUBSET SUBSET S
    OBVIOUS
  <2> HIDE DEF T
  <2> QED BY <2>1, MinimalSubset
<1>2. U # {}
  <2>1. SumOver(f, {}) = 0 /\ SumOver(g, {}) = 0 /\ c * 0 = 0 /\ d * 0 = 0
    BY SumEmpty
  <2>2. c * SumOver(f, {}) <= d * SumOver(g, {})
    BY <2>1
  <2> QED BY <1>1, <2>2
<1> DEFINE x == Pick(U)
           V == U \ {x}
<1>3. x \in U /\ x \in S /\ IsFiniteSet(U) /\ IsFiniteSet(V) /\ V \in SUBSET S
  BY <1>1, <1>2, PickIn, FS_Subset
<1>4. c * SumOver(f, V) <= d * SumOver(g, V)
  BY <1>1, <1>3
<1>5. SumOver(f, V) \in Nat /\ SumOver(g, V) \in Nat
  <2>1. \A y \in V : f[y] \in Nat /\ g[y] \in Nat
    BY <1>3
  <2> QED BY <1>3, <2>1, SumNat
<1>6. SumOver(f, U) = f[x] + SumOver(f, V) /\ SumOver(g, U) = g[x] + SumOver(g, V)
  BY <1>2, <1>3, SumPick
<1>7. ~(c * SumOver(f, U) <= d * SumOver(g, U))
  BY <1>1
<1>8. f[x] \in Nat /\ g[x] \in Nat /\ c * f[x] <= d * g[x]
  BY <1>3
<1> HIDE DEF T, x, V
<1>9. \A a, b, n \in Nat : n * (a + b) = n * a + n * b
  OBVIOUS
<1>10. /\ c * SumOver(f, U) = c * f[x] + c * SumOver(f, V)
       /\ d * SumOver(g, U) = d * g[x] + d * SumOver(g, V)
  BY <1>5, <1>6, <1>8, <1>9
<1>11. /\ c * f[x] \in Nat /\ c * SumOver(f, V) \in Nat
       /\ d * g[x] \in Nat /\ d * SumOver(g, V) \in Nat
  BY <1>5, <1>8
<1> QED BY <1>4, <1>7, <1>8, <1>10, <1>11

\* Values that grow by what the members of a subset add.
LEMMA SumGains ==
    ASSUME NEW f, NEW g, NEW h, NEW S, IsFiniteSet(S), NEW R \in SUBSET S,
           \A x \in S : f[x] \in Nat /\ g[x] \in Nat /\ f[x] <= g[x],
           \A x \in R : h[x] \in Nat /\ f[x] + h[x] <= g[x]
    PROVE  SumOver(f, S) + SumOver(h, R) <= SumOver(g, S)
<1> DEFINE T == {U \in SUBSET S : ~(SumOver(f, U) + SumOver(h, R \cap U) <= SumOver(g, U))}
<1> SUFFICES ASSUME T # {} PROVE FALSE
  <2>1. S \in SUBSET S /\ R \cap S = R
    OBVIOUS
  <2> QED BY <2>1
<1>1. PICK U \in T : \A W \in T : W \subseteq U => W = U
  <2>1. T \in SUBSET SUBSET S
    OBVIOUS
  <2> HIDE DEF T
  <2> QED BY <2>1, MinimalSubset
<1>2. U # {}
  <2>1. SumOver(f, {}) = 0 /\ SumOver(g, {}) = 0 /\ SumOver(h, {}) = 0 /\ R \cap {} = {}
    BY SumEmpty
  <2>2. SumOver(f, {}) + SumOver(h, R \cap {}) <= SumOver(g, {})
    BY <2>1
  <2> QED BY <1>1, <2>2
<1> DEFINE x == Pick(U)
           V == U \ {x}
<1>3. /\ x \in U /\ x \in S /\ V \in SUBSET S /\ U \in SUBSET S /\ V # U /\ V \subseteq U
  BY <1>1, <1>2, PickIn
<1>4. /\ IsFiniteSet(U) /\ IsFiniteSet(V) /\ IsFiniteSet(R \cap U) /\ IsFiniteSet(R \cap V)
  <2>1. R \cap U \subseteq S /\ R \cap V \subseteq S
    BY <1>3
  <2> QED BY <1>3, <2>1, FS_Subset
<1>5. SumOver(f, V) + SumOver(h, R \cap V) <= SumOver(g, V)
  BY <1>1, <1>3
<1>6. SumOver(f, V) \in Nat /\ SumOver(g, V) \in Nat /\ SumOver(h, R \cap V) \in Nat
  <2>1. /\ \A y \in V : f[y] \in Nat
        /\ \A y \in V : g[y] \in Nat
        /\ \A y \in R \cap V : h[y] \in Nat
    BY <1>3
  <2> QED BY <1>4, <2>1, SumNat
<1>7. SumOver(f, U) = f[x] + SumOver(f, V) /\ SumOver(g, U) = g[x] + SumOver(g, V)
  BY <1>2, <1>4, SumPick
<1>8. ~(SumOver(f, U) + SumOver(h, R \cap U) <= SumOver(g, U))
  BY <1>1
<1>9. f[x] \in Nat /\ g[x] \in Nat /\ f[x] <= g[x]
  BY <1>3
<1>a. CASE x \in R
  <2>1. x \in R \cap U /\ (R \cap U) \ {x} = R \cap V
    BY <1>3, <1>a
  <2>2. \A y \in R \cap U : h[y] \in Int
    OBVIOUS
  <2>3. SumOver(h, R \cap U) = h[x] + SumOver(h, R \cap V)
    BY <1>4, <2>1, <2>2, SumTake
  <2>4. h[x] \in Nat /\ f[x] + h[x] <= g[x]
    BY <1>a
  <2> QED BY <1>5, <1>6, <1>7, <1>8, <1>9, <2>3, <2>4
<1>b. CASE x \notin R
  <2>1. SumOver(h, R \cap U) = SumOver(h, R \cap V)
    <3>1. R \cap U = R \cap V
      BY <1>b
    <3> QED BY <3>1, Zenon
  <2> HIDE DEF V, x, T
  <2> QED BY <1>5, <1>6, <1>7, <1>8, <1>9, <2>1
<1> QED BY <1>a, <1>b

\* Members without a value do not count.
LEMMA SumOutside ==
    ASSUME NEW f, NEW S, IsFiniteSet(S), \A x \in S : f[x] \in Int, NEW R \in SUBSET S,
           \A x \in S \ R : f[x] = 0
    PROVE  SumOver(f, S) = SumOver(f, R)
<1> DEFINE T == {U \in SUBSET S : R \subseteq U /\ SumOver(f, U) # SumOver(f, R)}
<1> SUFFICES ASSUME T # {} PROVE FALSE
  OBVIOUS
<1>1. PICK U \in T : \A W \in T : W \subseteq U => W = U
  <2>1. T \in SUBSET SUBSET S
    OBVIOUS
  <2> HIDE DEF T
  <2> QED BY <2>1, MinimalSubset
<1>2. IsFiniteSet(U) /\ R # U
  BY <1>1, FS_Subset
<1>3. PICK x \in U : x \notin R
  BY <1>1, <1>2
<1>4. IsFiniteSet(U \ {x}) /\ SumOver(f, U \ {x}) = SumOver(f, R)
  BY <1>1, <1>2, <1>3, FS_Subset
<1>5. \A y \in U : f[y] \in Int
  BY <1>1
<1>6. f[x] = 0
  BY <1>1, <1>3
<1>7. SumOver(f, U) = f[x] + SumOver(f, U \ {x})
  BY <1>2, <1>3, <1>5, SumTake
<1>8. SumOver(f, U \ {x}) \in Int
  BY <1>4, <1>5, SumInt
<1> QED BY <1>1, <1>4, <1>6, <1>7, <1>8
=============================================================================
