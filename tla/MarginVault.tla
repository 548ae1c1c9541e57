----------------------------- MODULE MarginVault -----------------------------
(***************************************************************************)
(* core/margin.py as its callers see it: several traders reserve margin in *)
(* two wallets, give it back with a profit or a loss, and the controller   *)
(* moves the capital of a wallet while reservations are open.              *)
(*                                                                         *)
(* Ghost variables: held (each trader's open reservation), locked (their   *)
(* sum per wallet), equity (what was paid in, plus realised gains) and     *)
(* burned (what the ceiling guard of LUA_RELEASE took away).               *)
(***************************************************************************)
EXTENDS MarginScripts, FiniteSetsExt

CONSTANTS
  Traders,      \* those who hold reservations
  Spellings,    \* [{"LIVE", "PAPER"} -> sets of execution types a caller writes]
  Halves,       \* half amounts a trader may ask for, or bring back
  Limits,       \* the capital limits the controller may set
  Alloc,        \* [Limits -> [cash, coll]]  its allocation of a limit
  StartLimit,   \* the limit both wallets are allocated for at the start
  Synced,       \* the wallets whose capital the controller syncs
  MaxEquity     \* bound of the model, per wallet: no gain or sync beyond it

Wallets == {"LIVE", "PAPER"}

ASSUME TradersAssumption == IsFiniteSet(Traders)
(* Callers of the live reality write Actual or Live, those of the paper    *)
(* reality neither (the script wrapper compares in upper case).            *)
ASSUME SpellingsAssumption ==
  /\ Spellings["LIVE"] \subseteq {"ACTUAL", "LIVE"}
  /\ Spellings["PAPER"] \cap {"ACTUAL", "LIVE"} = {}
ASSUME HalvesAssumption  == Halves \subseteq Nat \ {0}
ASSUME LimitsAssumption  == Limits \subseteq Nat /\ StartLimit \in Limits
ASSUME AllocAssumption   == Alloc \in [Limits -> [cash : Nat, coll : Nat]]
ASSUME SyncedAssumption  == Synced \subseteq Wallets
ASSUME MaxEquityAssumption == MaxEquity \in [Wallets -> Int]

VARIABLES vault, held, locked, equity, burned

vars == <<vault, held, locked, equity, burned>>

Idle == [wallet |-> "PAPER", half |-> 0]

Allocated(l) == [cash |-> Alloc[l].cash, coll |-> Alloc[l].coll, limit |-> l]

TypeOK ==
  /\ vault  \in [Wallets -> [cash : Int, coll : Int, limit : Limits]]
  /\ held   \in [Traders -> [wallet : Wallets, half : Nat]]
  /\ locked \in [Wallets -> Int]
  /\ equity \in [Wallets -> Int]
  /\ burned \in [Wallets -> Int]

Init ==
  /\ vault  = [w \in Wallets |-> Allocated(StartLimit)]
  /\ held   = [t \in Traders |-> Idle]
  /\ locked = [w \in Wallets |-> 0]
  /\ equity = [w \in Wallets |-> Free(Allocated(StartLimit))]
  /\ burned = [w \in Wallets |-> 0]

-----------------------------------------------------------------------------
(* MarginManager.reserve: a rejected request changes nothing.              *)
Reserve(t, w, exType, h) ==
  LET k == WalletOf(exType) IN
  /\ held[t].half = 0
  /\ ReserveCode(vault[k], h) = Granted
  /\ vault'  = [vault  EXCEPT ![k] = AfterReserve(@, h)]
  /\ held'   = [held   EXCEPT ![t] = [wallet |-> w, half |-> h]]
  /\ locked' = [locked EXCEPT ![k] = @ + 2 * h]
  /\ UNCHANGED <<equity, burned>>

(* MarginManager.release of the whole reservation, with what came back.    *)
(* original_margin may be left out (0): the script then sees no profit.    *)
Release(t, exType, back, orig) ==
  LET k == WalletOf(exType)
      h == held[t].half
  IN
  /\ h > 0
  /\ orig \in {0, h}
  /\ equity[k] + 2 * (back - h) <= MaxEquity[k]
  /\ vault'  = [vault  EXCEPT ![k] = AfterRelease(@, back, orig)]
  /\ held'   = [held   EXCEPT ![t] = Idle]
  /\ locked' = [locked EXCEPT ![k] = @ - 2 * h]
  /\ equity' = [equity EXCEPT ![k] = @ + 2 * (back - h)]
  /\ burned' = [burned EXCEPT ![k] = @ + Forfeit(vault[k], back, orig)]

(* MarginManager.sync_capital, open reservations or not: the caller sends  *)
(* the difference between the allocations of the new and the old limit.    *)
SyncCapital(w, l) ==
  LET deltaCash == Alloc[l].cash - Alloc[vault[w].limit].cash
      deltaColl == Alloc[l].coll - Alloc[vault[w].limit].coll
  IN
  /\ l # vault[w].limit
  /\ equity[w] + deltaCash + deltaColl <= MaxEquity[w]
  /\ vault'  = [vault  EXCEPT ![w] = AfterSync(@, deltaCash, deltaColl, l)]
  /\ equity' = [equity EXCEPT ![w] = @ + deltaCash + deltaColl]
  /\ UNCHANGED <<held, locked, burned>>

Next ==
  \/ \E t \in Traders, w \in Wallets, h \in Halves :
       \E x \in Spellings[w] : Reserve(t, w, x, h)
  \/ \E t \in Traders, back \in Halves :
       \E x \in Spellings[held[t].wallet], orig \in {0, held[t].half} :
         Release(t, x, back, orig)
  \/ \E w \in Synced, l \in Limits : SyncCapital(w, l)

Spec == Init /\ [][Next]_vars

-----------------------------------------------------------------------------
(* The books balance: what is free, what is locked and what the ceiling    *)
(* guard burned add up to what was paid in and earned.  A split of a       *)
(* reservation or of a release (core/margin.py:52-56, 73-80) that does not *)
(* add up to its amount would show here.                                   *)
BooksBalance ==
  \A w \in Wallets : Free(vault[w]) + locked[w] + burned[w] = equity[w]

(* Each wallet's locked sum is what the traders of that reality hold: a    *)
(* reservation never lands in, or returns to, the other reality's wallet,  *)
(* whatever spelling of the execution type a caller uses (_get_suffix).    *)
LockedIsHeld ==
  \A w \in Wallets :
    LET holders == {t \in Traders : held[t].wallet = w} IN
    locked[w] = 2 * MapThenSumSet(LAMBDA t : held[t].half, holders)

(* A granted reservation is paid at least half in cash (the 50:50 rule) and *)
(* leaves neither component below zero, even if a sync had overdrawn one.   *)
GrantIsBacked(w) ==
  locked'[w] > locked[w] =>
    /\ 2 * (vault[w].cash - vault'[w].cash) >= Free(vault[w]) - Free(vault'[w])
    /\ Free(vault[w]) - Free(vault'[w]) = locked'[w] - locked[w]
    /\ vault'[w].cash >= 0
    /\ vault'[w].coll >= 0
GrantsAreBacked == [][\A w \in Wallets : GrantIsBacked(w)]_vars

(* Only a sync that lowers the capital can overdraw a component: no order  *)
(* of reservations and releases does, and none makes an overdraft deeper.  *)
NotDeeper(old, new) == new >= 0 \/ new >= old
OverdraftOnlyBySync ==
  [][held' # held => \A w \in Wallets :
       /\ NotDeeper(vault[w].cash, vault'[w].cash)
       /\ NotDeeper(vault[w].coll, vault'[w].coll)]_vars

(* The ceiling guard: after a release the wallet is within 102% of its     *)
(* limit, unless the collateral alone is above it and no cash is left.     *)
ReleaseUnderCeiling ==
  [][\A w \in Wallets : locked'[w] < locked[w] /\ vault[w].limit > 0 =>
       \/ 100 * Free(vault'[w]) <= 102 * vault'[w].limit
       \/ vault'[w].cash = 0]_vars

(* The ceiling guard takes money away and never finds any, except that it  *)
(* levels a cash component a sync had overdrawn.                           *)
NoMoneyFound ==
  [][\A w \in Wallets : burned'[w] >= burned[w] \/ vault[w].cash < 0]_vars

(* With cash and collateral seen as one sum the vault is a capital ledger: *)
(* every step of the scripts is a lock, an unlock or a funding of one      *)
(* wallet, and two traders are never granted the same money.               *)
Ledger == INSTANCE CapitalLedger WITH
            free <- [w \in Wallets |-> Free(vault[w])]
LedgerRefined == Ledger!LedgerSpec
=============================================================================
