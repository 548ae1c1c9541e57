---------------------------- MODULE MarginScripts ----------------------------
(***************************************************************************)
(* The Redis Lua scripts of core/margin.py as operators.  Redis runs a     *)
(* script without interleaving, so a script is one function from the keys  *)
(* it reads to the keys it writes.                                         *)
(*                                                                         *)
(* A wallet is the record of the three keys of one suffix (LIVE, PAPER):   *)
(* CASH_COMPONENT, COLLATERAL_COMPONENT and CAPITAL_LIMIT.  The scripts    *)
(* halve amounts; to keep the arithmetic exact an amount handed to reserve *)
(* or release is written as its half: "h" stands for the sum 2*h.          *)
(***************************************************************************)
EXTENDS Integers

Free(v) == v.cash + v.coll

Lesser(a, b)  == IF a <= b THEN a ELSE b
Greater(a, b) == IF a >= b THEN a ELSE b

(* Fault: "Actual" is taken for a paper wallet.                            *)
WalletOf_LiveOnly(exType) == IF exType = "LIVE" THEN "LIVE" ELSE "PAPER"

(* The suffix of the Redis keys: "Actual" and "Live" both mean LIVE.       *)
WalletOf(exType) == IF exType \in {"ACTUAL", "LIVE"} THEN "LIVE" ELSE "PAPER"

Granted       == 1
TotalBreach   == -1
CashBreach    == -2

(* Faults: the cash, or the total, is not checked.                         *)
ReserveCode_NoCash(v, h) == IF Free(v) < 2 * h THEN TotalBreach ELSE Granted
ReserveCode_NoTotal(v, h) == IF v.cash < h THEN CashBreach ELSE Granted

(* LUA_RESERVE, its verdict on a request for 2*h ...                       *)
ReserveCode(v, h) ==
  IF Free(v) < 2 * h THEN TotalBreach
  ELSE IF v.cash < h THEN CashBreach
  ELSE Granted

(* ... and its effect: collateral first, at most half of the request.      *)
CollUse(v, h) == Lesser(v.coll, h)
AfterReserve(v, h) ==
  IF ReserveCode(v, h) = Granted
  THEN [cash  |-> v.cash - (2 * h - CollUse(v, h)),
        coll  |-> v.coll - CollUse(v, h),
        limit |-> v.limit]
  ELSE v

(* LUA_RELEASE of 2*back for a margin of 2*orig: the profit goes to cash,  *)
(* the principal to both components in equal parts.                        *)
Original(back, orig)  == IF orig > 0 THEN orig ELSE back
Profit(back, orig)    == Greater(0, back - Original(back, orig))
Principal(back, orig) == back - Profit(back, orig)

(* Fault: the profit is credited like a component, one half of it.         *)
Credited_Half(v, back, orig) ==
  [cash  |-> v.cash + Principal(back, orig) + Profit(back, orig),
   coll  |-> v.coll + Principal(back, orig),
   limit |-> v.limit]

Credited(v, back, orig) ==
  [cash  |-> v.cash + Principal(back, orig) + 2 * Profit(back, orig),
   coll  |-> v.coll + Principal(back, orig),
   limit |-> v.limit]

(* Fault: the cash is topped up to the limit.                              *)
Clipped_Level(v) == [v EXCEPT !.cash = Greater(0, v.limit - v.coll)]

(* The ceiling guard: above 102% of the limit the excess over the limit is *)
(* taken out of the cash, which it never leaves below zero.                *)
AboveCeiling(v) == v.limit > 0 /\ 100 * Free(v) > 102 * v.limit
Clipped(v) ==
  IF AboveCeiling(v)
  THEN [v EXCEPT !.cash = Greater(0, @ - (Free(v) - v.limit))]
  ELSE v
AfterRelease(v, back, orig) == Clipped(Credited(v, back, orig))

(* What the ceiling guard took away in a release.                          *)
Forfeit(v, back, orig) ==
  Free(Credited(v, back, orig)) - Free(AfterRelease(v, back, orig))

(* LUA_SYNC_CAPITAL: deltas for the two components, a new limit.           *)
AfterSync(v, deltaCash, deltaColl, newLimit) ==
  [cash |-> v.cash + deltaCash, coll |-> v.coll + deltaColl, limit |-> newLimit]
=============================================================================
