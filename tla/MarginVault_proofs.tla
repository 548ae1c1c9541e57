-------------------------- MODULE MarginVault_proofs --------------------------
(***************************************************************************)
(* Theorems about MarginVault, for every set of traders, every set of      *)
(* amounts and limits and every allocation.                                *)
(***************************************************************************)
EXTENDS MarginVault, FiniteSetTheorems, TLAPS

VaultWallet == [cash : Int, coll : Int, limit : Limits]

(* A caller's spelling names the wallet of the caller's reality.           *)
LEMMA Spelled == ASSUME NEW w \in Wallets, NEW x \in Spellings[w] PROVE WalletOf(x) = w
  BY SpellingsAssumption DEF WalletOf, Wallets

(* A granted reservation of 2*h is paid exactly, at least half in cash,    *)
(* and out of money both components have.                                  *)
LEMMA GrantLemma ==
  ASSUME NEW v \in VaultWallet, NEW h \in Nat \ {0},
         ReserveCode(v, h) = Granted
  PROVE  /\ AfterReserve(v, h) \in VaultWallet
         /\ Free(AfterReserve(v, h)) = Free(v) - 2 * h
         /\ v.cash - AfterReserve(v, h).cash >= h
         /\ AfterReserve(v, h).cash >= 0
         /\ AfterReserve(v, h).coll >= 0
         /\ AfterReserve(v, h).limit = v.limit
<1> USE LimitsAssumption
<1>1. v.cash + v.coll >= 2 * h /\ v.cash >= h
  BY DEF ReserveCode, Granted, TotalBreach, CashBreach, Free, VaultWallet
<1> DEFINE use == CollUse(v, h)
<1>2. use \in Int /\ use <= h /\ use <= v.coll /\ (use = h \/ use = v.coll)
  BY DEF CollUse, Lesser, VaultWallet
<1>3. AfterReserve(v, h) = [cash |-> v.cash - (2 * h - use),
                            coll |-> v.coll - use, limit |-> v.limit]
  BY DEF AfterReserve, VaultWallet
<1> HIDE DEF use
<1>4. QED
  BY <1>1, <1>2, <1>3 DEF Free, VaultWallet

(* Crediting p to the collateral and p + 2*g to the cash.                  *)
LEMMA SplitLemma ==
  ASSUME NEW v \in VaultWallet, NEW p \in Nat, NEW g \in Nat
  PROVE  LET c == [cash |-> v.cash + p + 2 * g, coll |-> v.coll + p,
                  limit |-> v.limit] IN
         /\ c \in VaultWallet
         /\ c.cash + c.coll = (v.cash + v.coll) + 2 * (p + g)
         /\ c.cash >= v.cash
         /\ c.coll >= v.coll
         /\ c.limit = v.limit
  BY DEF VaultWallet

(* A release credits exactly what came back, and never lowers a component  *)
(* before the ceiling guard looks at it.                                   *)
LEMMA CreditLemma ==
  ASSUME NEW v \in VaultWallet, NEW back \in Nat \ {0}, NEW orig \in Nat
  PROVE  /\ Credited(v, back, orig) \in VaultWallet
         /\ Free(Credited(v, back, orig)) = Free(v) + 2 * back
         /\ Credited(v, back, orig).cash >= v.cash
         /\ Credited(v, back, orig).coll >= v.coll
         /\ Credited(v, back, orig).limit = v.limit
<1> USE LimitsAssumption
<1>1. Original(back, orig) \in Nat \ {0}
  BY DEF Original
<1>2. Profit(back, orig) \in Nat /\ Profit(back, orig) <= back
  BY <1>1 DEF Profit, Greater
<1>3. Principal(back, orig) \in Nat
      /\ Principal(back, orig) + Profit(back, orig) = back
  BY <1>2 DEF Principal
<1>4. QED
  BY <1>2, <1>3, SplitLemma DEF Credited, Free

(* The ceiling guard leaves a wallet, touches only its cash, and takes     *)
(* nothing below zero that was not below zero before.                      *)
LEMMA ClipLemma ==
  ASSUME NEW v \in VaultWallet
  PROVE  /\ Clipped(v) \in VaultWallet
         /\ Clipped(v).coll = v.coll
         /\ Clipped(v).limit = v.limit
         /\ Clipped(v).cash >= 0 \/ Clipped(v).cash >= v.cash
         /\ v.cash >= 0 => Clipped(v).cash <= v.cash
         /\ v.limit > 0 => \/ 100 * Free(Clipped(v)) <= 102 * v.limit
                           \/ Clipped(v).cash = 0
<1> USE LimitsAssumption
<1>1. CASE AboveCeiling(v)
  <2>1. v.limit \in Nat /\ v.limit > 0 /\ 100 * Free(v) > 102 * v.limit
    BY <1>1 DEF AboveCeiling, VaultWallet
  <2>2. Clipped(v) = [v EXCEPT !.cash = Greater(0, @ - (Free(v) - v.limit))]
    BY <1>1 DEF Clipped
  <2>3. CASE v.cash - (Free(v) - v.limit) >= 0
    BY <2>1, <2>2, <2>3 DEF Greater, Free, VaultWallet
  <2>4. CASE v.cash - (Free(v) - v.limit) < 0
    BY <2>1, <2>2, <2>4 DEF Greater, Free, VaultWallet
  <2>5. QED
    BY <2>1, <2>3, <2>4 DEF Free, VaultWallet
<1>2. CASE ~ AboveCeiling(v)
  BY <1>2 DEF Clipped, AboveCeiling, VaultWallet, Free
<1>3. QED
  BY <1>1, <1>2

-----------------------------------------------------------------------------
(* What each action does, with the wallet it touches named.                *)
GrantStep(t, k, w, h) ==
  /\ k = w /\ k \in Wallets /\ w \in Wallets /\ h \in Halves /\ t \in Traders
  /\ held[t].half = 0
  /\ ReserveCode(vault[k], h) = Granted
  /\ vault'  = [vault  EXCEPT ![k] = AfterReserve(vault[k], h)]
  /\ held'   = [held   EXCEPT ![t] = [wallet |-> w, half |-> h]]
  /\ locked' = [locked EXCEPT ![k] = @ + 2 * h]
  /\ UNCHANGED <<equity, burned>>

ReturnStep(t, k, back, orig) ==
  /\ k \in Wallets /\ t \in Traders /\ back \in Halves
  /\ orig \in {0, held[t].half} /\ held[t].half > 0 /\ held[t].wallet = k
  /\ vault'  = [vault  EXCEPT ![k] = AfterRelease(vault[k], back, orig)]
  /\ held'   = [held   EXCEPT ![t] = Idle]
  /\ locked' = [locked EXCEPT ![k] = @ - 2 * held[t].half]
  /\ equity' = [equity EXCEPT ![k] = @ + 2 * (back - held[t].half)]
  /\ burned' = [burned EXCEPT ![k] = @ + Forfeit(vault[k], back, orig)]

LEMMA NextCases ==
  ASSUME TypeOK, Next
  PROVE  \/ \E t, k, w, h : GrantStep(t, k, w, h)
         \/ \E t, k, back, orig : ReturnStep(t, k, back, orig)
         \/ \E w \in Wallets, l \in Limits : SyncCapital(w, l)
<1>1. CASE \E t \in Traders, w \in Wallets, h \in Halves :
             \E x \in Spellings[w] : Reserve(t, w, x, h)
  <2>1. PICK t \in Traders, w \in Wallets, h \in Halves :
               \E x \in Spellings[w] : Reserve(t, w, x, h)
    BY <1>1
  <2>2. PICK x \in Spellings[w] : Reserve(t, w, x, h)
    BY <2>1
  <2>3. GrantStep(t, WalletOf(x), w, h)
    BY <2>2, Spelled DEF GrantStep, Reserve
  <2>4. QED
    BY <2>3
<1>2. CASE \E t \in Traders, back \in Halves :
             \E x \in Spellings[held[t].wallet], orig \in {0, held[t].half} :
               Release(t, x, back, orig)
  <2>1. PICK t \in Traders, back \in Halves :
               \E x \in Spellings[held[t].wallet], orig \in {0, held[t].half} :
                 Release(t, x, back, orig)
    BY <1>2
  <2>2. PICK x \in Spellings[held[t].wallet], orig \in {0, held[t].half} :
               Release(t, x, back, orig)
    BY <2>1
  <2>3. ReturnStep(t, WalletOf(x), back, orig)
    BY <2>2, Spelled DEF ReturnStep, Release, TypeOK
  <2>4. QED
    BY <2>3
<1>3. CASE \E w \in Synced, l \in Limits : SyncCapital(w, l)
  BY <1>3, SyncedAssumption
<1>4. QED
  BY <1>1, <1>2, <1>3 DEF Next

(* The inductive invariant: the types and the balance of the books.        *)
IInv == TypeOK /\ BooksBalance

LEMMA GrantKeepsIInv ==
  ASSUME IInv, NEW t, NEW k, NEW w, NEW h, GrantStep(t, k, w, h)
  PROVE  IInv'
<1> USE HalvesAssumption
<1>1. h \in Nat \ {0} /\ k \in Wallets /\ t \in Traders /\ w \in Wallets
  BY DEF GrantStep
<1>2. vault \in [Wallets -> VaultWallet] /\ vault[k] \in VaultWallet
  BY <1>1 DEF IInv, TypeOK, VaultWallet
<1>3. /\ AfterReserve(vault[k], h) \in VaultWallet
      /\ Free(AfterReserve(vault[k], h)) = Free(vault[k]) - 2 * h
  BY <1>1, <1>2, GrantLemma DEF GrantStep
<1>4. TypeOK'
  <2>1. vault' \in [Wallets -> VaultWallet]
    BY <1>1, <1>2, <1>3 DEF GrantStep
  <2>2. held' \in [Traders -> [wallet : Wallets, half : Nat]]
    BY <1>1 DEF GrantStep, IInv, TypeOK
  <2>3. locked' \in [Wallets -> Int]
    BY <1>1 DEF GrantStep, IInv, TypeOK
  <2>4. QED
    BY <2>1, <2>2, <2>3 DEF GrantStep, IInv, TypeOK, VaultWallet
<1>5. BooksBalance'
  <2> SUFFICES ASSUME NEW u \in Wallets
               PROVE  Free(vault'[u]) + locked'[u] + burned'[u] = equity'[u]
    BY DEF BooksBalance
  <2>1. /\ Free(vault[u]) + locked[u] + burned[u] = equity[u]
        /\ Free(vault[u]) \in Int /\ locked[u] \in Int
        /\ burned[u] \in Int /\ equity[u] \in Int
    BY DEF IInv, BooksBalance, TypeOK, Free
  <2>2. burned'[u] = burned[u] /\ equity'[u] = equity[u]
    BY DEF GrantStep
  <2>3. CASE u = k
    <3>1. vault'[u] = AfterReserve(vault[k], h) /\ locked'[u] = locked[u] + 2 * h
      BY <2>3, <1>1, <1>2 DEF GrantStep, IInv, TypeOK
    <3>2. QED
      BY <3>1, <2>1, <2>2, <2>3, <1>1, <1>3
  <2>4. CASE u # k
    BY <2>1, <2>2, <2>4, <1>2 DEF GrantStep, IInv, TypeOK
  <2>5. QED
    BY <2>3, <2>4
<1>6. QED
  BY <1>4, <1>5 DEF IInv

(* What a release leaves in a wallet.                                      *)
LEMMA ReleaseLemma ==
  ASSUME NEW v \in VaultWallet, NEW back \in Nat \ {0}, NEW orig \in Nat
  PROVE  /\ AfterRelease(v, back, orig) \in VaultWallet
         /\ Forfeit(v, back, orig) \in Int
         /\ Free(AfterRelease(v, back, orig))
              = Free(v) + 2 * back - Forfeit(v, back, orig)
         /\ AfterRelease(v, back, orig).coll >= v.coll
         /\ AfterRelease(v, back, orig).limit = v.limit
         /\ \/ AfterRelease(v, back, orig).cash >= 0
            \/ AfterRelease(v, back, orig).cash >= v.cash
         /\ Forfeit(v, back, orig) >= 0 \/ v.cash < 0
         /\ v.limit > 0 =>
              \/ 100 * Free(AfterRelease(v, back, orig)) <= 102 * v.limit
              \/ AfterRelease(v, back, orig).cash = 0
<1> DEFINE c == Credited(v, back, orig)
           r == AfterRelease(v, back, orig)
<1>1. /\ c \in VaultWallet
      /\ Free(c) = Free(v) + 2 * back
      /\ c.cash >= v.cash /\ c.coll >= v.coll /\ c.limit = v.limit
  BY CreditLemma
<1>2. r = Clipped(c)
  BY DEF AfterRelease
<1>3. /\ r \in VaultWallet
      /\ r.coll = c.coll
      /\ r.limit = c.limit
      /\ r.cash >= 0 \/ r.cash >= c.cash
      /\ c.cash >= 0 => r.cash <= c.cash
      /\ c.limit > 0 => \/ 100 * Free(r) <= 102 * c.limit
                        \/ r.cash = 0
  BY <1>1, <1>2, ClipLemma
<1>4. Forfeit(v, back, orig) = Free(c) - Free(r)
  BY DEF Forfeit
<1> HIDE DEF c, r
<1>5. /\ v.cash \in Int /\ c.cash \in Int /\ r.cash \in Int
      /\ v.coll \in Int /\ c.coll \in Int /\ r.coll \in Int
  BY <1>1, <1>3 DEF VaultWallet
<1>6. Free(v) \in Int /\ Free(c) \in Int /\ Free(r) \in Int
  BY <1>5 DEF Free
<1>7. Forfeit(v, back, orig) = c.cash - r.cash
  BY <1>3, <1>4, <1>5 DEF Free
<1>8. Forfeit(v, back, orig) >= 0 \/ v.cash < 0
  BY <1>1, <1>3, <1>5, <1>7
<1>9. QED
  BY <1>1, <1>3, <1>4, <1>5, <1>6, <1>7, <1>8 DEF c, r

LEMMA ReturnFacts ==
  ASSUME TypeOK, NEW t, NEW k, NEW back, NEW orig,
         ReturnStep(t, k, back, orig)
  PROVE  /\ k \in Wallets /\ t \in Traders
         /\ back \in Nat \ {0} /\ orig \in Nat
         /\ held[t].half \in Nat \ {0}
         /\ vault \in [Wallets -> VaultWallet] /\ vault[k] \in VaultWallet
<1> USE HalvesAssumption
<1>1. k \in Wallets /\ t \in Traders /\ back \in Nat \ {0}
  BY DEF ReturnStep
<1>2. held[t].half \in Nat
  BY <1>1 DEF TypeOK
<1>3. held[t].half > 0 /\ orig \in {0, held[t].half}
  BY DEF ReturnStep
<1>4. vault \in [Wallets -> VaultWallet] /\ vault[k] \in VaultWallet
  BY <1>1 DEF TypeOK, VaultWallet
<1>5. QED
  BY <1>1, <1>2, <1>3, <1>4

LEMMA ReturnKeepsIInv ==
  ASSUME IInv, NEW t, NEW k, NEW back, NEW orig, ReturnStep(t, k, back, orig)
  PROVE  IInv'
<1>1. /\ k \in Wallets /\ t \in Traders
      /\ back \in Nat \ {0} /\ orig \in Nat
      /\ held[t].half \in Nat \ {0}
      /\ vault \in [Wallets -> VaultWallet] /\ vault[k] \in VaultWallet
  BY ReturnFacts DEF IInv
<1>2. /\ AfterRelease(vault[k], back, orig) \in VaultWallet
      /\ Forfeit(vault[k], back, orig) \in Int
      /\ Free(AfterRelease(vault[k], back, orig))
           = Free(vault[k]) + 2 * back - Forfeit(vault[k], back, orig)
  BY <1>1, ReleaseLemma
<1>3. TypeOK'
  <2>1. vault' \in [Wallets -> VaultWallet]
    BY <1>1, <1>2 DEF ReturnStep
  <2>2. held' \in [Traders -> [wallet : Wallets, half : Nat]]
    BY <1>1 DEF ReturnStep, IInv, TypeOK, Idle, Wallets
  <2>3. locked' \in [Wallets -> Int]
    BY <1>1 DEF ReturnStep, IInv, TypeOK
  <2>4. equity' \in [Wallets -> Int]
    BY <1>1 DEF ReturnStep, IInv, TypeOK
  <2>5. burned' \in [Wallets -> Int]
    BY <1>1, <1>2 DEF ReturnStep, IInv, TypeOK
  <2>6. QED
    BY <2>1, <2>2, <2>3, <2>4, <2>5 DEF TypeOK, VaultWallet
<1>4. BooksBalance'
  <2> SUFFICES ASSUME NEW u \in Wallets
               PROVE  Free(vault'[u]) + locked'[u] + burned'[u] = equity'[u]
    BY DEF BooksBalance
  <2>1. /\ Free(vault[u]) + locked[u] + burned[u] = equity[u]
        /\ Free(vault[u]) \in Int /\ locked[u] \in Int
        /\ burned[u] \in Int /\ equity[u] \in Int
    BY DEF IInv, BooksBalance, TypeOK, Free
  <2>2. CASE u = k
    <3>1. /\ vault'[u] = AfterRelease(vault[k], back, orig)
          /\ locked'[u] = locked[u] - 2 * held[t].half
          /\ equity'[u] = equity[u] + 2 * (back - held[t].half)
          /\ burned'[u] = burned[u] + Forfeit(vault[k], back, orig)
      BY <2>2, <1>1 DEF ReturnStep, IInv, TypeOK
    <3>2. QED
      BY <3>1, <2>1, <2>2, <1>1, <1>2
  <2>3. CASE u # k
    BY <2>1, <2>3, <1>1 DEF ReturnStep, IInv, TypeOK
  <2>4. QED
    BY <2>2, <2>3
<1>5. QED
  BY <1>3, <1>4 DEF IInv

LEMMA SyncFacts ==
  ASSUME TypeOK, NEW w \in Wallets, NEW l \in Limits, SyncCapital(w, l)
  PROVE  \E dc, dk \in Int :
           /\ vault'  = [vault  EXCEPT ![w] = AfterSync(vault[w], dc, dk, l)]
           /\ equity' = [equity EXCEPT ![w] = @ + dc + dk]
           /\ vault[w] \in VaultWallet
           /\ AfterSync(vault[w], dc, dk, l) \in VaultWallet
           /\ Free(AfterSync(vault[w], dc, dk, l)) = Free(vault[w]) + dc + dk
<1> USE AllocAssumption
<1>1. vault[w] \in VaultWallet
  BY DEF TypeOK, VaultWallet
<1> DEFINE dc == Alloc[l].cash - Alloc[vault[w].limit].cash
           dk == Alloc[l].coll - Alloc[vault[w].limit].coll
<1>2. dc \in Int /\ dk \in Int
  BY <1>1 DEF VaultWallet
<1>3. /\ vault'  = [vault  EXCEPT ![w] = AfterSync(vault[w], dc, dk, l)]
      /\ equity' = [equity EXCEPT ![w] = @ + dc + dk]
  BY DEF SyncCapital
<1> HIDE DEF dc, dk
<1>4. /\ AfterSync(vault[w], dc, dk, l) \in VaultWallet
      /\ Free(AfterSync(vault[w], dc, dk, l)) = Free(vault[w]) + dc + dk
  BY <1>1, <1>2 DEF AfterSync, VaultWallet, Free
<1>5. QED
  BY <1>1, <1>2, <1>3, <1>4

LEMMA SyncKeepsIInv ==
  ASSUME IInv, NEW w \in Wallets, NEW l \in Limits, SyncCapital(w, l)
  PROVE  IInv'
<1>1. PICK dc \in Int, dk \in Int :
        /\ vault'  = [vault  EXCEPT ![w] = AfterSync(vault[w], dc, dk, l)]
        /\ equity' = [equity EXCEPT ![w] = @ + dc + dk]
        /\ vault[w] \in VaultWallet
        /\ AfterSync(vault[w], dc, dk, l) \in VaultWallet
        /\ Free(AfterSync(vault[w], dc, dk, l)) = Free(vault[w]) + dc + dk
  BY SyncFacts DEF IInv
<1>2. UNCHANGED <<held, locked, burned>>
  BY DEF SyncCapital
<1>3. vault \in [Wallets -> VaultWallet]
  BY DEF IInv, TypeOK, VaultWallet
<1>4. TypeOK'
  <2>1. vault' \in [Wallets -> VaultWallet] /\ equity' \in [Wallets -> Int]
    BY <1>1, <1>3 DEF IInv, TypeOK
  <2>2. QED
    BY <2>1, <1>2 DEF IInv, TypeOK, VaultWallet
<1>5. BooksBalance'
  <2> SUFFICES ASSUME NEW u \in Wallets
               PROVE  Free(vault'[u]) + locked'[u] + burned'[u] = equity'[u]
    BY DEF BooksBalance
  <2>1. /\ Free(vault[u]) + locked[u] + burned[u] = equity[u]
        /\ Free(vault[u]) \in Int /\ locked[u] \in Int
        /\ burned[u] \in Int /\ equity[u] \in Int
    BY DEF IInv, BooksBalance, TypeOK, Free
  <2>2. CASE u = w
    <3>1. /\ vault'[u] = AfterSync(vault[w], dc, dk, l)
          /\ equity'[u] = equity[u] + dc + dk
      BY <2>2, <1>1, <1>3 DEF IInv, TypeOK
    <3>2. QED
      BY <3>1, <2>1, <2>2, <1>1, <1>2
  <2>3. CASE u # w
    BY <2>1, <2>3, <1>1, <1>2, <1>3 DEF IInv, TypeOK
  <2>4. QED
    BY <2>2, <2>3
<1>6. QED
  BY <1>4, <1>5 DEF IInv

-----------------------------------------------------------------------------
(* The books of both wallets always balance, and every variable keeps its  *)
(* type: margin is neither lost nor created by any order of reservations,  *)
(* releases and capital syncs.                                             *)
THEOREM BooksTheorem == Spec => [](TypeOK /\ BooksBalance)
<1>1. Init => IInv
  BY LimitsAssumption, AllocAssumption
     DEF Init, IInv, TypeOK, BooksBalance, Allocated, Free, Idle, Wallets
<1>2. IInv /\ [Next]_vars => IInv'
  <2> SUFFICES ASSUME IInv, [Next]_vars PROVE IInv'
    OBVIOUS
  <2>1. CASE Next
    BY <2>1, NextCases, GrantKeepsIInv, ReturnKeepsIInv, SyncKeepsIInv DEF IInv
  <2>2. CASE UNCHANGED vars
    BY <2>2 DEF vars, IInv, TypeOK, BooksBalance
  <2>3. QED
    BY <2>1, <2>2
<1>3. IInv => TypeOK /\ BooksBalance
  BY DEF IInv
<1>4. QED
  BY <1>1, <1>2, <1>3, PTL DEF Spec

-----------------------------------------------------------------------------
(* The effect of a step on one wallet u, whichever action it is.           *)
LEMMA GrantEffect ==
  ASSUME TypeOK, NEW t, NEW k, NEW w, NEW h, GrantStep(t, k, w, h),
         NEW u \in Wallets
  PROVE  /\ burned'[u] = burned[u]
         /\ \/ UNCHANGED <<vault[u], locked[u]>>
            \/ /\ vault[u] \in VaultWallet /\ h \in Nat \ {0}
               /\ ReserveCode(vault[u], h) = Granted
               /\ vault'[u] = AfterReserve(vault[u], h)
               /\ locked'[u] = locked[u] + 2 * h
<1> USE HalvesAssumption
<1>1. vault \in [Wallets -> VaultWallet] /\ locked \in [Wallets -> Int]
  BY DEF TypeOK, VaultWallet
<1>2. CASE u = k
  BY <1>1, <1>2 DEF GrantStep
<1>3. CASE u # k
  BY <1>1, <1>3 DEF GrantStep
<1>4. QED
  BY <1>2, <1>3

LEMMA ReturnEffect ==
  ASSUME TypeOK, NEW t, NEW k, NEW back, NEW orig,
         ReturnStep(t, k, back, orig), NEW u \in Wallets
  PROVE  \/ UNCHANGED <<vault[u], locked[u], burned[u]>>
         \/ /\ vault[u] \in VaultWallet /\ back \in Nat \ {0} /\ orig \in Nat
            /\ vault'[u] = AfterRelease(vault[u], back, orig)
            /\ locked'[u] = locked[u] - 2 * held[t].half
            /\ burned'[u] = burned[u] + Forfeit(vault[u], back, orig)
<1>1. /\ k \in Wallets /\ back \in Nat \ {0} /\ orig \in Nat
      /\ vault \in [Wallets -> VaultWallet]
  BY ReturnFacts
<1>2. locked \in [Wallets -> Int] /\ burned \in [Wallets -> Int]
  BY DEF TypeOK
<1>3. CASE u = k
  BY <1>1, <1>2, <1>3 DEF ReturnStep
<1>4. CASE u # k
  BY <1>1, <1>2, <1>4 DEF ReturnStep
<1>5. QED
  BY <1>3, <1>4

(* Every grant is backed: at least half of it in cash, all of it by money  *)
(* that was free, and no component is below zero afterwards.               *)
THEOREM GrantsTheorem == Spec => GrantsAreBacked
<1>1. TypeOK /\ [Next]_vars => [\A w \in Wallets : GrantIsBacked(w)]_vars
  <2> SUFFICES ASSUME TypeOK, Next, NEW u \in Wallets PROVE GrantIsBacked(u)
    OBVIOUS
  <2>1. locked \in [Wallets -> Int] /\ vault[u] \in VaultWallet
    BY DEF TypeOK, VaultWallet
  <2>2. ASSUME NEW t, NEW k, NEW w, NEW h, GrantStep(t, k, w, h)
        PROVE  GrantIsBacked(u)
    <3>1. CASE locked'[u] = locked[u]
      BY <2>1, <3>1 DEF GrantIsBacked
    <3>2. CASE /\ h \in Nat \ {0}
               /\ ReserveCode(vault[u], h) = Granted
               /\ vault'[u] = AfterReserve(vault[u], h)
               /\ locked'[u] = locked[u] + 2 * h
      <4>1. /\ vault'[u] \in VaultWallet
            /\ Free(vault'[u]) = Free(vault[u]) - 2 * h
            /\ vault[u].cash - vault'[u].cash >= h
            /\ vault'[u].cash >= 0 /\ vault'[u].coll >= 0
        BY <2>1, <3>2, GrantLemma
      <4>2. Free(vault[u]) \in Int /\ Free(vault'[u]) \in Int
        BY <2>1, <4>1 DEF Free, VaultWallet
      <4>3. vault[u].cash \in Int /\ vault'[u].cash \in Int /\ locked[u] \in Int
        BY <2>1, <4>1 DEF VaultWallet
      <4>4. QED
        BY <3>2, <4>1, <4>2, <4>3 DEF GrantIsBacked
    <3>3. QED
      BY <2>2, <3>1, <3>2, GrantEffect
  <2>3. ASSUME NEW t, NEW k, NEW back, NEW orig, ReturnStep(t, k, back, orig)
        PROVE  GrantIsBacked(u)
    <3>1. held[t].half \in Nat \ {0} /\ locked[u] \in Int
      BY <2>1, <2>3, ReturnFacts
    <3>2. ~ (locked'[u] > locked[u])
      BY <2>3, <3>1, ReturnEffect
    <3>3. QED
      BY <3>2 DEF GrantIsBacked
  <2>4. ASSUME NEW w \in Wallets, NEW l \in Limits, SyncCapital(w, l)
        PROVE  GrantIsBacked(u)
    BY <2>1, <2>4 DEF SyncCapital, GrantIsBacked
  <2>5. QED
    BY <2>2, <2>3, <2>4, NextCases
<1>2. Spec => []TypeOK
  BY BooksTheorem, PTL
<1>3. QED
  BY <1>1, <1>2, PTL DEF Spec, GrantsAreBacked

(* The ceiling guard never adds money to a wallet whose cash no sync had   *)
(* overdrawn.                                                              *)
THEOREM NoMoneyFoundTheorem == Spec => NoMoneyFound
<1>1. TypeOK /\ [Next]_vars =>
        [\A w \in Wallets : burned'[w] >= burned[w] \/ vault[w].cash < 0]_vars
  <2> SUFFICES ASSUME TypeOK, Next, NEW u \in Wallets
               PROVE  burned'[u] >= burned[u] \/ vault[u].cash < 0
    OBVIOUS
  <2>1. burned[u] \in Int /\ vault[u] \in VaultWallet
    BY DEF TypeOK, VaultWallet
  <2>2. ASSUME NEW t, NEW k, NEW w, NEW h, GrantStep(t, k, w, h)
        PROVE  burned'[u] >= burned[u] \/ vault[u].cash < 0
    BY <2>1, <2>2, GrantEffect
  <2>3. ASSUME NEW t, NEW k, NEW back, NEW orig, ReturnStep(t, k, back, orig)
        PROVE  burned'[u] >= burned[u] \/ vault[u].cash < 0
    <3>1. CASE burned'[u] = burned[u]
      BY <2>1, <3>1
    <3>2. CASE /\ back \in Nat \ {0} /\ orig \in Nat
               /\ burned'[u] = burned[u] + Forfeit(vault[u], back, orig)
      <4>1. /\ Forfeit(vault[u], back, orig) \in Int
            /\ Forfeit(vault[u], back, orig) >= 0 \/ vault[u].cash < 0
        BY <2>1, <3>2, ReleaseLemma
      <4>2. QED
        BY <2>1, <3>2, <4>1
    <3>3. QED
      BY <2>3, <3>1, <3>2, ReturnEffect
  <2>4. ASSUME NEW w \in Wallets, NEW l \in Limits, SyncCapital(w, l)
        PROVE  burned'[u] >= burned[u] \/ vault[u].cash < 0
    BY <2>1, <2>4 DEF SyncCapital
  <2>5. QED
    BY <2>2, <2>3, <2>4, NextCases
<1>2. Spec => []TypeOK
  BY BooksTheorem, PTL
<1>3. QED
  BY <1>1, <1>2, PTL DEF Spec, NoMoneyFound
-----------------------------------------------------------------------------
(* Sums over finite sets.  The sum of the community modules is a function  *)
(* on the subsets of a set, defined by recursion.  That it exists, and     *)
(* what it is, follows by induction, in the form that every set of         *)
(* subsets of a finite set has a smallest one.                             *)
First(s) == CHOOSE x \in s : TRUE
Solves(g, D, v) ==
  g = [s \in SUBSET D |-> IF s = {} THEN 0 ELSE v[First(s)].half + g[s \ {First(s)}]]

Total(v, D) == MapThenSumSet(LAMBDA t : v[t].half, D)

LEMMA TotalUnfolds == ASSUME NEW v, NEW D PROVE Total(v, D) = (CHOOSE g : Solves(g, D, v))[D]
BY DEF Total, MapThenSumSet, MapThenFoldSet, Solves, First

(* A set of subsets of a finite set has one that contains no other.        *)
LEMMA Smallest ==
  ASSUME NEW S, IsFiniteSet(S), NEW T \in SUBSET (SUBSET S), T # {}
  PROVE  \E x \in T : \A y \in T : y \subseteq x => y = x
<1>1. IsWellFoundedOn(StrictSubsetOrdering(S), SUBSET S)
  BY FS_StrictSubsetOrderingWellFounded, FS_FiniteSubsetsOfFinite
<1>2. PICK x \in T : \A y \in T : ~ (<<y, x>> \in StrictSubsetOrdering(S))
  BY <1>1, WFMin
<1>3. ASSUME NEW y \in T, y \subseteq x PROVE y = x
  BY <1>2, <1>3 DEF StrictSubsetOrdering
<1> QED BY <1>3

LEMMA FirstIn == ASSUME NEW s, s # {} PROVE First(s) \in s
BY DEF First

(* The recursion, unfolded once.                                           *)
LEMMA SolvedAt ==
  ASSUME NEW g, NEW D, NEW v, Solves(g, D, v), NEW s \in SUBSET D
  PROVE  g[s] = IF s = {} THEN 0 ELSE v[First(s)].half + g[s \ {First(s)}]
<1> DEFINE F(x) == IF x = {} THEN 0 ELSE v[First(x)].half + g[x \ {First(x)}]
<1>1. g = [x \in SUBSET D |-> F(x)]
  BY Zenon DEF Solves
<1> HIDE DEF F
<1>2. g[s] = F(s)
  BY <1>1
<1> QED BY <1>2 DEF F

(* Two functions that solve it agree where both are defined.               *)
LEMMA Agree ==
  ASSUME NEW S, IsFiniteSet(S), NEW D \in SUBSET S, NEW E \in SUBSET S, NEW v, NEW g, NEW h,
         Solves(g, D, v), Solves(h, E, v), NEW s \in SUBSET (D \cap E)
  PROVE  g[s] = h[s]
<1> DEFINE T == {x \in SUBSET (D \cap E) : g[x] # h[x]}
<1> SUFFICES ASSUME T # {} PROVE FALSE
  OBVIOUS
<1>1. T \in SUBSET (SUBSET S)
  OBVIOUS
<1>2. PICK x \in T : \A y \in T : y \subseteq x => y = x
  <2> HIDE DEF T
  <2> QED BY <1>1, Smallest
<1>3. x \in SUBSET D /\ x \in SUBSET E /\ g[x] # h[x]
  OBVIOUS
<1>4. x # {}
  BY <1>3, SolvedAt
<1>5. First(x) \in x
  BY <1>4, FirstIn
<1>6. g[x \ {First(x)}] = h[x \ {First(x)}]
  BY <1>2, <1>3, <1>5
<1>7. g[x] = v[First(x)].half + g[x \ {First(x)}] /\ h[x] = v[First(x)].half + h[x \ {First(x)}]
  BY <1>3, <1>4, SolvedAt
<1> QED BY <1>3, <1>6, <1>7

(* There is one.                                                           *)
LEMMA Exists ==
  ASSUME NEW S, IsFiniteSet(S), NEW v
  PROVE  \A D \in SUBSET S : \E g : Solves(g, D, v)
<1> DEFINE T == {D \in SUBSET S : ~ \E g : Solves(g, D, v)}
<1> SUFFICES ASSUME T # {} PROVE FALSE
  OBVIOUS
<1>1. PICK D \in T : \A y \in T : y \subseteq D => y = D
  <2>1. T \in SUBSET (SUBSET S)
    OBVIOUS
  <2> HIDE DEF T
  <2> QED BY <2>1, Smallest
<1> DEFINE G(E) == CHOOSE g : Solves(g, E, v)
           N(E) == G(E)[E]
           new == [s \in SUBSET D |-> IF s = {} THEN 0 ELSE
                    IF s = D THEN v[First(D)].half + N(D \ {First(D)}) ELSE N(s)]
<1>2. ASSUME NEW E \in SUBSET D, E # D PROVE Solves(G(E), E, v)
  <2>1. \E g : Solves(g, E, v)
    BY <1>1, <1>2
  <2> QED BY <2>1
<1> HIDE DEF G
<1>3. ASSUME NEW s \in SUBSET D, s # {}
      PROVE  new[s] = v[First(s)].half + new[s \ {First(s)}]
  <2>1. First(s) \in s
    BY <1>3, FirstIn
  <2> DEFINE r == s \ {First(s)}
  <2>2. r \in SUBSET D /\ r # D /\ r # s
    BY <1>3, <2>1
  <2>3. new[r] = N(r)
    <3>1. CASE r = {}
      <4>1. N({}) = 0
        BY <1>2, <2>2, <3>1, SolvedAt
      <4> QED BY <3>1, <4>1
    <3>2. CASE r # {}
      BY <2>2, <3>2
    <3> QED BY <3>1, <3>2
  <2>4. CASE s = D
    BY <1>3, <2>3, <2>4
  <2>5. CASE s # D
    <3>1. new[s] = N(s)
      BY <1>3, <2>5
    <3>2. Solves(G(s), s, v) /\ Solves(G(r), r, v)
      BY <1>2, <2>2, <2>5
    <3>3. N(s) = v[First(s)].half + G(s)[r]
      BY <1>3, <3>2, SolvedAt
    <3>4. G(s)[r] = G(r)[r]
      <4>1. s \in SUBSET S /\ r \in SUBSET S /\ r \in SUBSET (s \cap r)
        BY <2>2
      <4>2. \A g, h : Solves(g, s, v) /\ Solves(h, r, v) => g[r] = h[r]
        BY <4>1, Agree
      <4> HIDE DEF r
      <4> QED BY <3>2, <4>2
    <3> QED BY <2>3, <3>1, <3>3, <3>4
  <2> QED BY <2>4, <2>5
<1>4. new[{}] = 0
  OBVIOUS
<1>5. Solves(new, D, v)
  <2> DEFINE F(s) == IF s = {} THEN 0 ELSE v[First(s)].half + new[s \ {First(s)}]
  <2>1. \A s \in SUBSET D : new[s] = F(s)
    BY <1>3, <1>4
  <2>2. new = [s \in SUBSET D |-> new[s]]
    OBVIOUS
  <2> HIDE DEF F, new
  <2>3. new = [s \in SUBSET D |-> F(s)]
    BY <2>1, <2>2
  <2> QED BY <2>3, Zenon DEF Solves, F
<1> QED BY <1>5

(* So the sum is what its recursion says.                                  *)
LEMMA TotalAt ==
  ASSUME NEW S, IsFiniteSet(S), NEW v, NEW D \in SUBSET S
  PROVE  Total(v, D) = IF D = {} THEN 0 ELSE v[First(D)].half + Total(v, D \ {First(D)})
<1> DEFINE G(E) == CHOOSE g : Solves(g, E, v)
<1>1. ASSUME NEW E \in SUBSET S PROVE Solves(G(E), E, v) /\ Total(v, E) = G(E)[E]
  <2>1. \E g : Solves(g, E, v)
    BY Exists
  <2> QED BY <2>1, TotalUnfolds
<1> HIDE DEF G
<1>2. CASE D = {}
  BY <1>1, <1>2, SolvedAt
<1>3. CASE D # {}
  <2> DEFINE r == D \ {First(D)}
  <2>1. r \in SUBSET S /\ r \in SUBSET (D \cap r)
    OBVIOUS
  <2>2. Solves(G(D), D, v) /\ Solves(G(r), r, v) /\ Total(v, D) = G(D)[D] /\ Total(v, r) = G(r)[r]
    BY <1>1, <2>1
  <2>3. G(D)[D] = v[First(D)].half + G(D)[r]
    BY <1>3, <2>2, SolvedAt
  <2>4. \A g, h : Solves(g, D, v) /\ Solves(h, r, v) => g[r] = h[r]
    BY <2>1, Agree
  <2> QED BY <1>3, <2>2, <2>3, <2>4
<1> QED BY <1>2, <1>3

(* The sum of natural numbers is one, ...                                  *)
LEMMA TotalType ==
  ASSUME NEW S, IsFiniteSet(S), NEW v, \A x \in S : v[x].half \in Nat
  PROVE  \A D \in SUBSET S : Total(v, D) \in Nat
<1> DEFINE T == {D \in SUBSET S : Total(v, D) \notin Nat}
<1> SUFFICES ASSUME T # {} PROVE FALSE
  OBVIOUS
<1>1. PICK D \in T : \A y \in T : y \subseteq D => y = D
  <2>1. T \in SUBSET (SUBSET S)
    OBVIOUS
  <2> HIDE DEF T
  <2> QED BY <2>1, Smallest
<1>2. D \in SUBSET S /\ Total(v, D) \notin Nat
  OBVIOUS
<1>3. D # {} /\ First(D) \in D
  <2>1. D = {} => Total(v, D) = 0
    BY <1>2, TotalAt
  <2> QED BY <1>2, <2>1, FirstIn
<1>4. Total(v, D) = v[First(D)].half + Total(v, D \ {First(D)})
  BY <1>2, <1>3, TotalAt
<1>5. Total(v, D \ {First(D)}) \in Nat
  BY <1>1, <1>2, <1>3
<1> QED BY <1>2, <1>3, <1>4, <1>5

(* ... any member may be added first, ...                                  *)
LEMMA TotalSplits ==
  ASSUME NEW S, IsFiniteSet(S), NEW v, \A x \in S : v[x].half \in Nat
  PROVE  \A D \in SUBSET S : \A t \in D : Total(v, D) = v[t].half + Total(v, D \ {t})
<1> DEFINE T == {D \in SUBSET S : \E t \in D : Total(v, D) # v[t].half + Total(v, D \ {t})}
<1> SUFFICES ASSUME T # {} PROVE FALSE
  OBVIOUS
<1>1. PICK D \in T : \A y \in T : y \subseteq D => y = D
  <2>1. T \in SUBSET (SUBSET S)
    OBVIOUS
  <2> HIDE DEF T
  <2> QED BY <2>1, Smallest
<1>2. PICK t \in D : Total(v, D) # v[t].half + Total(v, D \ {t})
  OBVIOUS
<1> DEFINE f == First(D)
<1>3. D \in SUBSET S /\ f \in D /\ Total(v, D) = v[f].half + Total(v, D \ {f})
  BY FirstIn, TotalAt
<1> HIDE DEF f
<1>4. f # t
  BY <1>2, <1>3
<1>5. Total(v, D \ {f}) = v[t].half + Total(v, (D \ {f}) \ {t})
  BY <1>1, <1>3, <1>4
<1>6. Total(v, D \ {t}) = v[f].half + Total(v, (D \ {f}) \ {t})
  <2>1. Total(v, D \ {t}) = v[f].half + Total(v, (D \ {t}) \ {f})
    BY <1>1, <1>3, <1>4
  <2>2. (D \ {f}) \ {t} = (D \ {t}) \ {f}
    OBVIOUS
  <2> QED BY <2>1, <2>2
<1> DEFINE z == Total(v, (D \ {f}) \ {t})
           x == v[t].half
           y == v[f].half
<1>7. z \in Nat /\ x \in Nat /\ y \in Nat
  BY <1>3, TotalType
<1>8. Total(v, D) = y + (x + z) /\ Total(v, D) # x + (y + z)
  BY <1>2, <1>3, <1>5, <1>6
<1> HIDE DEF x, y, z
<1> QED BY <1>7, <1>8

(* ... and the sum depends on nothing but the members.                     *)
LEMMA TotalSame ==
  ASSUME NEW S, IsFiniteSet(S), NEW v, NEW w, \A x \in S : v[x].half = w[x].half
  PROVE  \A D \in SUBSET S : Total(v, D) = Total(w, D)
<1> DEFINE T == {D \in SUBSET S : Total(v, D) # Total(w, D)}
<1> SUFFICES ASSUME T # {} PROVE FALSE
  OBVIOUS
<1>1. PICK D \in T : \A y \in T : y \subseteq D => y = D
  <2>1. T \in SUBSET (SUBSET S)
    OBVIOUS
  <2> HIDE DEF T
  <2> QED BY <2>1, Smallest
<1>2. D \in SUBSET S /\ Total(v, D) # Total(w, D)
  OBVIOUS
<1>3. D # {} /\ First(D) \in D
  <2>1. D = {} => Total(v, D) = 0 /\ Total(w, D) = 0
    BY <1>2, TotalAt
  <2> QED BY <1>2, <2>1, FirstIn
<1>4. /\ Total(v, D) = v[First(D)].half + Total(v, D \ {First(D)})
      /\ Total(w, D) = w[First(D)].half + Total(w, D \ {First(D)})
  BY <1>2, <1>3, TotalAt
<1>5. Total(v, D \ {First(D)}) = Total(w, D \ {First(D)})
  BY <1>1, <1>2, <1>3
<1> QED BY <1>2, <1>3, <1>4, <1>5

-----------------------------------------------------------------------------
(* The reservations.                                                       *)
Holders(h, w) == {t \in Traders : h[t].wallet = w}
Sums(h, l) == \A w \in Wallets : l[w] = 2 * Total(h, Holders(h, w))

LEMMA LockedIsTotal == (LockedIsHeld <=> Sums(held, locked)) /\ (LockedIsHeld' <=> Sums(held', locked'))
BY DEF LockedIsHeld, Sums, Total, Holders, MapThenSumSet, MapThenFoldSet

Reservations == [Traders -> [wallet : Wallets, half : Nat]]

LEMMA TradersTotal ==
  ASSUME NEW h \in Reservations, NEW D \in SUBSET Traders
  PROVE  Total(h, D) \in Nat /\ \A t \in D : Total(h, D) = h[t].half + Total(h, D \ {t})
<1>1. \A x \in Traders : h[x].half \in Nat
  BY DEF Reservations
<1> QED BY <1>1, TotalType, TotalSplits, TradersAssumption

(* One trader's reservation is replaced by another one.                    *)
LEMMA Replaced ==
  ASSUME NEW h \in Reservations, NEW t \in Traders,
         NEW r \in [wallet : Wallets, half : Nat], NEW u \in Wallets,
         NEW g \in Reservations,
         g[t] = r, \A x \in Traders \ {t} : g[x] = h[x]
  PROVE  /\ Total(h, Holders(h, u)) \in Nat /\ Total(g, Holders(g, u)) \in Nat
         /\ Total(g, Holders(g, u)) + (IF h[t].wallet = u THEN h[t].half ELSE 0)
              = Total(h, Holders(h, u)) + (IF r.wallet = u THEN r.half ELSE 0)
         /\ h[t].wallet = u => h[t].half <= Total(h, Holders(h, u))
<1> DEFINE E == Holders(h, u) \ {t}
<1>1. g[t] = r /\ \A x \in Traders \ {t} : g[x] = h[x]
  OBVIOUS
<1>2. /\ IsFiniteSet(Traders) /\ E \in SUBSET Traders
      /\ Holders(h, u) \in SUBSET Traders /\ Holders(g, u) \in SUBSET Traders
  BY TradersAssumption DEF Holders
<1>3. Holders(g, u) \ {t} = E
  BY <1>1 DEF Holders
<1>4. /\ Total(h, E) \in Nat /\ Total(h, Holders(h, u)) \in Nat /\ Total(g, Holders(g, u)) \in Nat
  BY <1>2, TradersTotal
<1>5. Total(g, E) = Total(h, E)
  <2>1. IsFiniteSet(E) /\ \A x \in E : g[x].half = h[x].half
    BY <1>1, <1>2, FS_Subset DEF Holders
  <2> HIDE DEF E
  <2>2. \A D \in SUBSET E : Total(g, D) = Total(h, D)
    BY <2>1, TotalSame
  <2> QED BY <2>2
<1>6. h[t].half \in Nat /\ r.half \in Nat
  BY DEF Reservations
<1>7. Total(h, Holders(h, u)) = Total(h, E) + (IF h[t].wallet = u THEN h[t].half ELSE 0)
  <2>1. CASE h[t].wallet = u
    <3>1. t \in Holders(h, u)
      BY <2>1 DEF Holders
    <3>2. Total(h, Holders(h, u)) = h[t].half + Total(h, E)
      BY <1>2, <3>1, TradersTotal
    <3> QED BY <1>4, <1>6, <2>1, <3>2
  <2>2. CASE h[t].wallet # u
    <3>1. E = Holders(h, u)
      BY <2>2 DEF Holders
    <3> QED BY <1>4, <2>2, <3>1
  <2> QED BY <2>1, <2>2
<1>8. Total(g, Holders(g, u)) = Total(h, E) + (IF r.wallet = u THEN r.half ELSE 0)
  <2>1. CASE r.wallet = u
    <3>1. t \in Holders(g, u)
      BY <1>1, <2>1 DEF Holders
    <3>2. Total(g, Holders(g, u)) = g[t].half + Total(g, Holders(g, u) \ {t})
      BY <1>2, <3>1, TradersTotal
    <3>3. Total(g, Holders(g, u)) = r.half + Total(h, E)
      BY <1>1, <1>3, <1>5, <3>2
    <3> QED BY <1>4, <1>6, <2>1, <3>3
  <2>2. CASE r.wallet # u
    <3>1. E = Holders(g, u)
      BY <1>1, <1>3, <2>2 DEF Holders
    <3>2. Total(g, Holders(g, u)) = Total(h, E)
      BY <1>5, <3>1
    <3> HIDE DEF E
    <3> QED BY <1>4, <2>2, <3>2
  <2> QED BY <2>1, <2>2
<1> DEFINE x == Total(h, E)
<1> HIDE DEF x, E
<1>9. x \in Nat
  BY <1>4 DEF x
<1>10. /\ Total(h, Holders(h, u)) = x + (IF h[t].wallet = u THEN h[t].half ELSE 0)
       /\ Total(g, Holders(g, u)) = x + (IF r.wallet = u THEN r.half ELSE 0)
  BY <1>7, <1>8 DEF x
<1> QED BY <1>4, <1>6, <1>9, <1>10

LEMMA LockedStep == ASSUME TypeOK, TypeOK', Sums(held, locked), [Next]_vars PROVE Sums(held', locked')
<1>1. held \in Reservations /\ locked \in [Wallets -> Int]
  BY DEF TypeOK, Reservations
<1>2. ASSUME NEW t, NEW k, NEW w, NEW h, GrantStep(t, k, w, h) PROVE Sums(held', locked')
  <2> DEFINE r == [wallet |-> k, half |-> h]
  <2>1. /\ t \in Traders /\ k \in Wallets /\ h \in Nat /\ held[t].half = 0
        /\ held' = [held EXCEPT ![t] = r] /\ locked' = [locked EXCEPT ![k] = @ + 2 * h]
        /\ r \in [wallet : Wallets, half : Nat] /\ r.wallet = k /\ r.half = h
    BY <1>2, HalvesAssumption DEF GrantStep
  <2> HIDE DEF r
  <2>5. /\ held' \in Reservations /\ held'[t] = r
        /\ \A x \in Traders \ {t} : held'[x] = held[x]
    BY <1>1, <2>1 DEF Reservations
  <2> SUFFICES ASSUME NEW u \in Wallets PROVE locked'[u] = 2 * Total(held', Holders(held', u))
    BY DEF Sums
  <2>2. locked[u] = 2 * Total(held, Holders(held, u))
    BY DEF Sums
  <2>3. /\ Total(held, Holders(held, u)) \in Nat /\ Total(held', Holders(held', u)) \in Nat
        /\ Total(held', Holders(held', u)) + (IF held[t].wallet = u THEN held[t].half ELSE 0)
             = Total(held, Holders(held, u)) + (IF r.wallet = u THEN r.half ELSE 0)
    <3>1. ASSUME NEW g \in Reservations, g[t] = r, \A x \in Traders \ {t} : g[x] = held[x]
          PROVE  /\ Total(held, Holders(held, u)) \in Nat /\ Total(g, Holders(g, u)) \in Nat
                 /\ Total(g, Holders(g, u)) + (IF held[t].wallet = u THEN held[t].half ELSE 0)
                      = Total(held, Holders(held, u)) + (IF r.wallet = u THEN r.half ELSE 0)
      BY <1>1, <2>1, <3>1, Replaced
    <3> QED BY <2>5, <3>1
  <2>4. locked'[u] = IF u = k THEN locked[u] + 2 * h ELSE locked[u]
    BY <1>1, <2>1
  <2> QED BY <2>1, <2>2, <2>3, <2>4
<1>3. ASSUME NEW t, NEW k, NEW back, NEW orig, ReturnStep(t, k, back, orig)
      PROVE  Sums(held', locked')
  <2>1. /\ t \in Traders /\ k \in Wallets /\ held[t].half \in Nat /\ held[t].wallet = k
        /\ held' = [held EXCEPT ![t] = Idle] /\ locked' = [locked EXCEPT ![k] = @ - 2 * held[t].half]
        /\ Idle \in [wallet : Wallets, half : Nat] /\ Idle.half = 0
    BY <1>1, <1>3, ReturnFacts DEF ReturnStep, Idle, Wallets, Reservations
  <2>5. /\ held' \in Reservations /\ held'[t] = Idle
        /\ \A x \in Traders \ {t} : held'[x] = held[x]
    BY <1>1, <2>1 DEF Reservations
  <2> SUFFICES ASSUME NEW u \in Wallets PROVE locked'[u] = 2 * Total(held', Holders(held', u))
    BY DEF Sums
  <2>2. locked[u] = 2 * Total(held, Holders(held, u))
    BY DEF Sums
  <2>3. /\ Total(held, Holders(held, u)) \in Nat /\ Total(held', Holders(held', u)) \in Nat
        /\ Total(held', Holders(held', u)) + (IF held[t].wallet = u THEN held[t].half ELSE 0)
             = Total(held, Holders(held, u)) + (IF Idle.wallet = u THEN Idle.half ELSE 0)
    <3>1. ASSUME NEW g \in Reservations, g[t] = Idle, \A x \in Traders \ {t} : g[x] = held[x]
          PROVE  /\ Total(held, Holders(held, u)) \in Nat /\ Total(g, Holders(g, u)) \in Nat
                 /\ Total(g, Holders(g, u)) + (IF held[t].wallet = u THEN held[t].half ELSE 0)
                      = Total(held, Holders(held, u)) + (IF Idle.wallet = u THEN Idle.half ELSE 0)
      BY <1>1, <2>1, <3>1, Replaced
    <3> QED BY <2>5, <3>1
  <2>4. locked'[u] = IF u = k THEN locked[u] - 2 * held[t].half ELSE locked[u]
    BY <1>1, <2>1
  <2> QED BY <2>1, <2>2, <2>3, <2>4
<1>4. CASE \E w \in Wallets, l \in Limits : SyncCapital(w, l)
  <2>1. UNCHANGED <<held, locked>>
    BY <1>4 DEF SyncCapital
  <2> QED BY <2>1
<1>5. CASE UNCHANGED vars
  <2>1. UNCHANGED <<held, locked>>
    BY <1>5 DEF vars
  <2> QED BY <2>1
<1> QED BY <1>2, <1>3, <1>4, <1>5, NextCases

(* Whatever the traders reserve and return, in whatever spelling of the    *)
(* execution type, each wallet has locked what its traders hold.           *)
THEOREM LockedTheorem == Spec => []LockedIsHeld
<1>1. Init => Sums(held, locked)
  <2> SUFFICES ASSUME Init, NEW u \in Wallets PROVE locked[u] = 2 * Total(held, Holders(held, u))
    BY DEF Sums
  <2>1. /\ held = [t \in Traders |-> Idle] /\ locked[u] = 0 /\ Idle.half = 0
        /\ Idle \in [wallet : Wallets, half : Nat]
    BY DEF Init, Idle, Wallets
  <2> DEFINE T == {D \in SUBSET Traders : Total(held, D) # 0}
  <2>2. T = {}
    <3> SUFFICES ASSUME T # {} PROVE FALSE
      OBVIOUS
    <3>1. PICK D \in T : \A y \in T : y \subseteq D => y = D
      <4>1. T \in SUBSET (SUBSET Traders)
        OBVIOUS
      <4> HIDE DEF T
      <4> QED BY <4>1, Smallest, TradersAssumption
    <3>2. D \in SUBSET Traders /\ Total(held, D) # 0
      OBVIOUS
    <3>3. D # {} /\ First(D) \in D
      <4>1. D = {} => Total(held, D) = 0
        BY <3>2, TotalAt, TradersAssumption
      <4> QED BY <3>2, <4>1, FirstIn
    <3>4. Total(held, D) = held[First(D)].half + Total(held, D \ {First(D)})
      BY <3>2, <3>3, TotalAt, TradersAssumption
    <3>5. Total(held, D \ {First(D)}) = 0
      BY <3>1, <3>2, <3>3
    <3>6. held[First(D)].half = 0
      BY <2>1, <3>2, <3>3
    <3> QED BY <3>2, <3>4, <3>5, <3>6
  <2>3. Holders(held, u) \in SUBSET Traders
    BY DEF Holders
  <2>4. Total(held, Holders(held, u)) = 0
    BY <2>2, <2>3
  <2> QED BY <2>1, <2>4
<1>2. TypeOK /\ TypeOK' /\ Sums(held, locked) /\ [Next]_vars => Sums(held, locked)'
  BY LockedStep
<1>3. Sums(held, locked) => LockedIsHeld
  BY LockedIsTotal
<1>4. Spec => []TypeOK
  BY BooksTheorem, PTL
<1> QED BY <1>1, <1>2, <1>3, <1>4, PTL DEF Spec

-----------------------------------------------------------------------------
(* Only a sync overdraws a component: reservations and releases leave both *)
(* at or above zero, or no lower than they were.                           *)
THEOREM OverdraftTheorem == Spec => OverdraftOnlyBySync
<1> DEFINE Sound(w) == /\ NotDeeper(vault[w].cash, vault'[w].cash)
                       /\ NotDeeper(vault[w].coll, vault'[w].coll)
<1>1. TypeOK /\ [Next]_vars => [held' # held => \A w \in Wallets : Sound(w)]_vars
  <2> SUFFICES ASSUME TypeOK, Next, held' # held, NEW u \in Wallets PROVE Sound(u)
    OBVIOUS
  <2>1. vault[u] \in VaultWallet /\ vault[u].cash \in Int /\ vault[u].coll \in Int
    BY DEF TypeOK, VaultWallet
  <2>2. ASSUME NEW t, NEW k, NEW w, NEW h, GrantStep(t, k, w, h) PROVE Sound(u)
    <3>1. CASE vault'[u] = vault[u]
      BY <2>1, <3>1 DEF NotDeeper
    <3>2. CASE /\ h \in Nat \ {0} /\ ReserveCode(vault[u], h) = Granted
               /\ vault'[u] = AfterReserve(vault[u], h)
      BY <2>1, <3>2, GrantLemma DEF NotDeeper
    <3> QED BY <2>2, <3>1, <3>2, GrantEffect
  <2>3. ASSUME NEW t, NEW k, NEW back, NEW orig, ReturnStep(t, k, back, orig) PROVE Sound(u)
    <3>1. CASE vault'[u] = vault[u]
      BY <2>1, <3>1 DEF NotDeeper
    <3>2. CASE /\ back \in Nat \ {0} /\ orig \in Nat
               /\ vault'[u] = AfterRelease(vault[u], back, orig)
      BY <2>1, <3>2, ReleaseLemma DEF NotDeeper
    <3> QED BY <2>3, <3>1, <3>2, ReturnEffect
  <2>4. ASSUME NEW w \in Wallets, NEW l \in Limits, SyncCapital(w, l) PROVE Sound(u)
    BY <2>4 DEF SyncCapital
  <2> QED BY <2>2, <2>3, <2>4, NextCases
<1>2. Spec => []TypeOK
  BY BooksTheorem, PTL
<1> QED BY <1>1, <1>2, PTL DEF Spec, OverdraftOnlyBySync

(* After a release the wallet is within the ceiling, or has no cash left   *)
(* that the guard could take.                                              *)
THEOREM CeilingTheorem == Spec => ReleaseUnderCeiling
<1> DEFINE Under(w) == locked'[w] < locked[w] /\ vault[w].limit > 0 =>
                         \/ 100 * Free(vault'[w]) <= 102 * vault'[w].limit
                         \/ vault'[w].cash = 0
<1>1. TypeOK /\ [Next]_vars => [\A w \in Wallets : Under(w)]_vars
  <2> SUFFICES ASSUME TypeOK, Next, NEW u \in Wallets PROVE Under(u)
    OBVIOUS
  <2>1. locked[u] \in Int /\ vault[u] \in VaultWallet
    BY DEF TypeOK, VaultWallet
  <2>2. ASSUME NEW t, NEW k, NEW w, NEW h, GrantStep(t, k, w, h) PROVE Under(u)
    BY <2>1, <2>2, GrantEffect
  <2>3. ASSUME NEW t, NEW k, NEW back, NEW orig, ReturnStep(t, k, back, orig) PROVE Under(u)
    <3>1. CASE locked'[u] = locked[u]
      BY <2>1, <3>1
    <3>2. CASE /\ back \in Nat \ {0} /\ orig \in Nat
               /\ vault'[u] = AfterRelease(vault[u], back, orig)
      <4>1. ASSUME NEW v \in VaultWallet, NEW r, r = AfterRelease(v, back, orig)
            PROVE  /\ r.limit = v.limit
                   /\ v.limit > 0 => \/ 100 * Free(r) <= 102 * v.limit
                                     \/ r.cash = 0
        <5>1. back \in Nat \ {0} /\ orig \in Nat
          BY <3>2
        <5> QED BY <4>1, <5>1, ReleaseLemma
      <4>2. vault'[u] = AfterRelease(vault[u], back, orig)
        BY <3>2
      <4> HIDE <3>2
      <4> QED BY <2>1, <4>1, <4>2
    <3> QED BY <2>3, <3>1, <3>2, ReturnEffect
  <2>4. ASSUME NEW w \in Wallets, NEW l \in Limits, SyncCapital(w, l) PROVE Under(u)
    BY <2>1, <2>4 DEF SyncCapital
  <2> QED BY <2>2, <2>3, <2>4, NextCases
<1>2. Spec => []TypeOK
  BY BooksTheorem, PTL
<1> QED BY <1>1, <1>2, PTL DEF Spec, ReleaseUnderCeiling

-----------------------------------------------------------------------------
(* The vault as a capital ledger: what is free is the sum of the two       *)
(* components.                                                             *)
free == [w \in Wallets |-> Free(vault[w])]

LEMMA FreeType == ASSUME TypeOK PROVE free \in [Wallets -> Int] /\ \A w \in Wallets : free[w] = Free(vault[w])
BY DEF TypeOK, Free, free

(* A step that touches one wallet, seen from the ledger.                   *)
LEMMA FreeStep ==
  ASSUME TypeOK, NEW k \in Wallets, NEW v, vault' = [vault EXCEPT ![k] = v]
  PROVE  free' = [free EXCEPT ![k] = Free(v)]
<1>1. vault \in [Wallets -> VaultWallet]
  BY DEF TypeOK, VaultWallet
<1>2. \A w \in Wallets : vault'[w] = IF w = k THEN v ELSE vault[w]
  BY <1>1
<1>3. free' = [w \in Wallets |-> Free(vault'[w])]
  BY DEF free
<1>4. [free EXCEPT ![k] = Free(v)] = [w \in Wallets |-> IF w = k THEN Free(v) ELSE Free(vault[w])]
  BY DEF free
<1>5. \A w \in Wallets : Free(vault'[w]) = IF w = k THEN Free(v) ELSE Free(vault[w])
  BY <1>2
<1> QED BY <1>3, <1>4, <1>5

(* A granted reservation is a lock of money that is there.                 *)
LEMMA GrantLocks ==
  ASSUME TypeOK, NEW t, NEW k, NEW w, NEW h, GrantStep(t, k, w, h)
  PROVE  Ledger!LedgerNext
<1>1. /\ k \in Wallets /\ h \in Nat \ {0} /\ vault[k] \in VaultWallet
      /\ ReserveCode(vault[k], h) = Granted /\ UNCHANGED <<equity, burned>>
      /\ vault' = [vault EXCEPT ![k] = AfterReserve(vault[k], h)]
      /\ locked' = [locked EXCEPT ![k] = @ + 2 * h]
  BY HalvesAssumption DEF GrantStep, TypeOK, VaultWallet
<1>2. Free(AfterReserve(vault[k], h)) = free[k] - 2 * h /\ free[k] \in Int
  BY <1>1, GrantLemma, FreeType
<1>3. free' = [free EXCEPT ![k] = free[k] - 2 * h]
  BY <1>1, <1>2, FreeStep
<1>4. free[k] - free'[k] = 2 * h
  BY <1>1, <1>2, <1>3, FreeType
<1>5. free[k] >= 2 * h
  BY <1>1, FreeType DEF ReserveCode, Granted, TotalBreach, CashBreach
<1> DEFINE n == free[k] - free'[k]
<1>6. n = 2 * h /\ n > 0 /\ free[k] >= n
  BY <1>1, <1>4, <1>5
<1>7. free' = [free EXCEPT ![k] = @ - n] /\ locked' = [locked EXCEPT ![k] = @ + n]
  BY <1>1, <1>3, <1>6
<1>8. Ledger!Lock(k, n)
  BY <1>1, <1>6, <1>7 DEF Ledger!Lock, free
<1> QED BY <1>1, <1>8 DEF Ledger!LedgerNext, Ledger!LedgerStep, free

(* A release is an unlock of no more than is locked.                       *)
LEMMA ReturnUnlocks ==
  ASSUME TypeOK, LockedIsHeld, NEW t, NEW k, NEW back, NEW orig, ReturnStep(t, k, back, orig)
  PROVE  Ledger!LedgerNext
<1> DEFINE h == held[t].half
<1>1. /\ k \in Wallets /\ t \in Traders /\ back \in Nat \ {0} /\ orig \in Nat
      /\ h \in Nat \ {0} /\ vault[k] \in VaultWallet
  BY ReturnFacts
<1>2. /\ vault' = [vault EXCEPT ![k] = AfterRelease(vault[k], back, orig)]
      /\ locked' = [locked EXCEPT ![k] = @ - 2 * h]
      /\ equity' = [equity EXCEPT ![k] = @ + 2 * (back - h)]
      /\ burned' = [burned EXCEPT ![k] = @ + Forfeit(vault[k], back, orig)]
      /\ held[t].wallet = k
  BY DEF ReturnStep
<1>3. /\ locked \in [Wallets -> Int] /\ equity \in [Wallets -> Int] /\ burned \in [Wallets -> Int]
      /\ held \in Reservations
  BY DEF TypeOK, Reservations
<1>4. 2 * h <= locked[k]
  <2>1. locked[k] = 2 * Total(held, Holders(held, k))
    BY <1>1, LockedIsTotal DEF Sums
  <2>2. t \in Holders(held, k) /\ Holders(held, k) \in SUBSET Traders
        /\ Holders(held, k) \ {t} \in SUBSET Traders
    BY <1>1, <1>2 DEF Holders
  <2>3. /\ Total(held, Holders(held, k)) = h + Total(held, Holders(held, k) \ {t})
        /\ Total(held, Holders(held, k) \ {t}) \in Nat
    BY <1>3, <2>2, TradersTotal
  <2> QED BY <1>1, <2>1, <2>3
<1> DEFINE f == Forfeit(vault[k], back, orig)
<1>5. f \in Int /\ Free(AfterRelease(vault[k], back, orig)) = free[k] + 2 * back - f /\ free[k] \in Int
  BY <1>1, ReleaseLemma, FreeType
<1> HIDE DEF h, f
<1>6. free' = [free EXCEPT ![k] = free[k] + 2 * back - f]
  BY <1>1, <1>2, <1>5, FreeStep
<1> DEFINE n == locked[k] - locked'[k]
           gain == equity'[k] - equity[k]
           fix == burned'[k] - burned[k]
<1>7. n = 2 * h /\ gain = 2 * (back - h) /\ fix = f
  BY <1>1, <1>2, <1>3, <1>5 DEF f
<1>8. /\ 0 < n /\ n <= locked[k] /\ free[k] + 2 * back - f = free[k] + n + gain - fix
  BY <1>1, <1>4, <1>5, <1>7
<1>9. /\ free' = [free EXCEPT ![k] = @ + n + gain - fix]
      /\ locked' = [locked EXCEPT ![k] = @ - n]
      /\ equity' = [equity EXCEPT ![k] = @ + gain]
      /\ burned' = [burned EXCEPT ![k] = @ + fix]
  BY <1>2, <1>6, <1>7, <1>8 DEF f
<1>10. Ledger!Unlock(k, n, gain, fix)
  BY <1>8, <1>9 DEF Ledger!Unlock, free
<1> QED BY <1>1, <1>10 DEF Ledger!LedgerNext, Ledger!LedgerStep

(* A sync of the capital funds one wallet.                                 *)
LEMMA SyncFunds ==
  ASSUME TypeOK, NEW w \in Wallets, NEW l \in Limits, SyncCapital(w, l)
  PROVE  Ledger!LedgerNext
<1>1. PICK dc \in Int, dk \in Int :
        /\ vault'  = [vault  EXCEPT ![w] = AfterSync(vault[w], dc, dk, l)]
        /\ equity' = [equity EXCEPT ![w] = @ + dc + dk]
        /\ Free(AfterSync(vault[w], dc, dk, l)) = Free(vault[w]) + dc + dk
  BY SyncFacts
<1>2. UNCHANGED <<locked, burned>> /\ equity \in [Wallets -> Int]
  BY DEF SyncCapital, TypeOK
<1>3. free' = [free EXCEPT ![w] = free[w] + dc + dk] /\ free[w] \in Int
  BY <1>1, FreeStep, FreeType
<1> DEFINE d == equity'[w] - equity[w]
<1>4. d = dc + dk
  BY <1>1, <1>2
<1>5. free' = [free EXCEPT ![w] = @ + d] /\ equity' = [equity EXCEPT ![w] = @ + d]
  <2>1. free[w] + dc + dk = free[w] + d /\ equity[w] + dc + dk = equity[w] + d
    BY <1>2, <1>3, <1>4
  <2> QED BY <1>1, <1>3, <2>1
<1>6. Ledger!Fund(w, d)
  BY <1>2, <1>5 DEF Ledger!Fund, free
<1> QED BY <1>6 DEF Ledger!LedgerNext, Ledger!LedgerStep

(* The vault implements the ledger: it starts as one, and every step of    *)
(* the scripts locks, unlocks or funds one wallet, or leaves it alone; so  *)
(* two traders are never granted the same money.                           *)
THEOREM RefinementTheorem == Spec => LedgerRefined
<1>1. Init => Ledger!LedgerInit
  <2> SUFFICES ASSUME Init PROVE Ledger!LedgerInit
    OBVIOUS
  <2>1. Allocated(StartLimit) \in VaultWallet
    BY LimitsAssumption, AllocAssumption DEF Allocated, VaultWallet
  <2>2. \A w \in Wallets : vault[w] = Allocated(StartLimit)
    BY DEF Init
  <2>3. Free(Allocated(StartLimit)) \in Int
    BY <2>1 DEF Free, VaultWallet
  <2> QED BY <2>2, <2>3 DEF Init, Ledger!LedgerInit
<1>2. TypeOK /\ LockedIsHeld /\ [Next]_vars => [Ledger!LedgerNext]_(Ledger!ledgerVars)
  <2>1. ASSUME TypeOK, LockedIsHeld, Next PROVE Ledger!LedgerNext
    BY <2>1, NextCases, GrantLocks, ReturnUnlocks, SyncFunds
  <2>2. UNCHANGED vars => UNCHANGED Ledger!ledgerVars
    BY DEF vars, Ledger!ledgerVars
  <2> QED BY <2>1, <2>2
<1>3. Spec => [](TypeOK /\ LockedIsHeld)
  BY BooksTheorem, LockedTheorem, PTL
<1> QED BY <1>1, <1>2, <1>3, PTL DEF Spec, LedgerRefined, Ledger!LedgerSpec
=============================================================================
