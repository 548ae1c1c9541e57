---------------------------- MODULE CapitalLedger ----------------------------
(***************************************************************************)
(* What a capital vault promises, whatever it does with cash and           *)
(* collateral: per wallet an amount that is free and an amount that is     *)
(* locked, a lock that takes what it was granted out of the free amount    *)
(* and is granted only when there is enough of it, and books that balance. *)
(***************************************************************************)
EXTENDS Integers

CONSTANT Wallets

VARIABLES
  free,     \* [Wallets -> Int]  what a new lock may still take
  locked,   \* [Wallets -> Int]  what the open locks hold
  equity,   \* [Wallets -> Int]  what was paid in, gains and losses included
  burned    \* [Wallets -> Int]  what a correction took out of the wallet

ledgerVars == <<free, locked, equity, burned>>

LedgerInit ==
  /\ free \in [Wallets -> Int]
  /\ equity = free
  /\ locked = [w \in Wallets |-> 0]
  /\ burned = [w \in Wallets |-> 0]

(* A lock is granted against money that is there, and nobody else gets it. *)
Lock(w, n) ==
  /\ n > 0
  /\ free[w] >= n
  /\ free' = [free EXCEPT ![w] = @ - n]
  /\ locked' = [locked EXCEPT ![w] = @ + n]
  /\ UNCHANGED <<equity, burned>>

(* A lock of n is paid back with a gain (or a loss), less a correction.    *)
Unlock(w, n, gain, fix) ==
  /\ 0 < n /\ n <= locked[w]
  /\ free' = [free EXCEPT ![w] = @ + n + gain - fix]
  /\ locked' = [locked EXCEPT ![w] = @ - n]
  /\ equity' = [equity EXCEPT ![w] = @ + gain]
  /\ burned' = [burned EXCEPT ![w] = @ + fix]

(* Money is paid in or drawn out.                                          *)
Fund(w, d) ==
  /\ free' = [free EXCEPT ![w] = @ + d]
  /\ equity' = [equity EXCEPT ![w] = @ + d]
  /\ UNCHANGED <<locked, burned>>

LedgerStep(w) ==
  \/ Lock(w, free[w] - free'[w])
  \/ Unlock(w, locked[w] - locked'[w], equity'[w] - equity[w], burned'[w] - burned[w])
  \/ Fund(w, equity'[w] - equity[w])

LedgerNext == \E w \in Wallets : LedgerStep(w)

LedgerSpec == LedgerInit /\ [][LedgerNext]_ledgerVars
=============================================================================
