---------------------------- MODULE MCMarginVault ----------------------------
(* Instance of MarginVault for TLC: small amounts in the proportions of the *)
(* controller's allocation (equal components, their sum below the limit).  *)
EXTENDS MarginVault

MCSpellings == [w \in {"LIVE", "PAPER"} |->
                  IF w = "LIVE" THEN {"ACTUAL", "LIVE"} ELSE {"PAPER"}]
(* Equal components at boot; a raise haircuts the collateral.              *)
MCAlloc == [l \in {2, 5, 8} |->
              CASE l = 2 -> [cash |-> 1, coll |-> 1]
                [] l = 5 -> [cash |-> 2, coll |-> 2]
                [] l = 8 -> [cash |-> 4, coll |-> 3]]
(* Only the live wallet is synced; the paper wallet only earns back losses.  *)
MCMaxEquity == [w \in {"LIVE", "PAPER"} |-> IF w = "LIVE" THEN 8 ELSE 4]
=============================================================================
