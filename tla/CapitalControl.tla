---------------------------- MODULE CapitalControl ----------------------------
(***************************************************************************)
(* Everybody who writes the LIVE wallet, each in the separate Redis        *)
(* commands of its code: the system controller (boot allocation and        *)
(* periodic sync), the dashboard, the snapshot manager's account sync, and *)
(* the traders who reserve margin (meta_router, strategy_engine) and whose *)
(* positions are closed later.                                             *)
(*                                                                         *)
(* Ghost variable: asked, the limit the dashboard asked for last.          *)
(***************************************************************************)
EXTENDS MarginScripts

CONSTANTS
  Trades,       \* trades that may be opened
  Halves,       \* half of the margin a trade asks for
  Limits,       \* live capital limits the dashboard may set
  StartLimit,   \* LIVE_CAPITAL_LIMIT in Redis when the system starts
  BrokerCash,   \* cash the broker's get_limits may report
  MaxUpdates,   \* bound of the model: dashboard updates
  MaxPolls,     \* bound of the model: account syncs
  MaxCrashes,   \* bound of the model: crashes of the controller
  MaxFaults     \* bound of the model: Redis commands of the sync that fail

(* A multiple of 400 makes every percentage of the code a whole number.    *)
ASSUME LimitAssumption  == \A l \in Limits \cup BrokerCash : l \in Nat /\ l % 400 = 0
ASSUME StartAssumption  == StartLimit \in Limits
ASSUME HalfAssumption   == Halves \subseteq Nat \ {0}
ASSUME BoundAssumption  ==
  MaxUpdates \in Nat /\ MaxPolls \in Nat /\ MaxCrashes \in Nat /\ MaxFaults \in Nat

VARIABLES
  vault,    \* the three keys of the LIVE wallet
  last,     \* _last_live_limit, _last_cash_live, _last_coll_live
  boot,     \* where SystemController.start stands, and the limit it read
  sync,     \* where _periodic_margin_sync stands, and its local variables
  ui,       \* where update_regime_config stands, and the limit requested
  poll,     \* where _account_sync_task stands, and the cash it was told
  trade,    \* what each trade is doing, and the half margin it was granted
  asked,
  count     \* the counters of the four bounds

vars == <<vault, last, boot, sync, ui, poll, trade, asked, count>>

(* 85% of a limit is allocated in equal parts; the sync, not the boot and  *)
(* not the dashboard, takes a haircut of 10% off the collateral.           *)
Part(l)     == (l * 17) \div 40
Haircut(l)  == (l * 153) \div 400

Off        == [pc |-> "off", seen |-> 0, cash |-> 0, coll |-> 0]
Untracked(l) == [limit |-> l, cash |-> 0, coll |-> 0]

(* A limit read from Redis, or none yet.                                   *)
Known == Limits \cup {0}

TypeOK ==
  /\ vault \in [cash : Int, coll : Int, limit : Known]
  /\ last  \in [limit : Known, cash : Int, coll : Int]
  /\ boot  \in [pc : {"down", "cash", "coll", "limit", "track", "up"},
                limit : Known]
  /\ sync  \in [pc : {"off", "read", "compare", "compute", "apply", "track"},
                seen : Known, cash : Int, coll : Int]
  /\ ui    \in [pc : {"idle", "cash", "coll"}, limit : Limits]
  /\ poll  \in [pc : {"idle", "coll"}, cash : BrokerCash \cup {0}]
  /\ trade \in [Trades -> [state : {"idle", "open", "vetoed", "closed"},
                           half : Halves \cup {0}]]
  /\ asked \in Limits
  /\ count \in [updates : 0..MaxUpdates, polls : 0..MaxPolls,
                crashes : 0..MaxCrashes, faults : 0..MaxFaults]

Init ==
  /\ vault = [cash |-> 0, coll |-> 0, limit |-> StartLimit]
  /\ last  = Untracked(0)
  /\ boot  = [pc |-> "down", limit |-> 0]
  /\ sync  = Off
  /\ ui    = [pc |-> "idle", limit |-> StartLimit]
  /\ poll  = [pc |-> "idle", cash |-> 0]
  /\ trade = [t \in Trades |-> [state |-> "idle", half |-> 0]]
  /\ asked = StartLimit
  /\ count = [updates |-> 0, polls |-> 0, crashes |-> 0, faults |-> 0]

-----------------------------------------------------------------------------
(* SystemController.start                                                  *)

BootRead ==
  /\ boot.pc = "down"
  /\ boot' = [pc |-> "cash", limit |-> vault.limit]
  /\ last' = Untracked(vault.limit)
  /\ UNCHANGED <<vault, sync, ui, poll, trade, asked, count>>

BootCash ==
  /\ boot.pc = "cash"
  /\ boot' = [boot EXCEPT !.pc = "coll"]
  /\ vault' = [vault EXCEPT !.cash = Part(boot.limit)]
  /\ UNCHANGED <<last, sync, ui, poll, trade, asked, count>>

(* The sync task is created here, before the boot has tracked anything.    *)
BootColl ==
  /\ boot.pc = "coll"
  /\ boot' = [boot EXCEPT !.pc = "limit"]
  /\ vault' = [vault EXCEPT !.coll = Part(boot.limit)]
  /\ sync' = [sync EXCEPT !.pc = "read"]
  /\ UNCHANGED <<last, ui, poll, trade, asked, count>>

BootLimit ==
  /\ boot.pc = "limit"
  /\ boot' = [boot EXCEPT !.pc = "track"]
  /\ vault' = [vault EXCEPT !.limit = boot.limit]
  /\ UNCHANGED <<last, sync, ui, poll, trade, asked, count>>

(* Fault: only the limit is tracked.                                       *)
BootTrack_LimitOnly ==
  /\ boot.pc = "track"
  /\ boot' = [boot EXCEPT !.pc = "up"]
  /\ last' = [last EXCEPT !.limit = boot.limit]
  /\ UNCHANGED <<vault, sync, ui, poll, trade, asked, count>>

BootTrack ==
  /\ boot.pc = "track"
  /\ boot' = [boot EXCEPT !.pc = "up"]
  /\ last' = [limit |-> boot.limit, cash |-> Part(boot.limit), coll |-> Part(boot.limit)]
  /\ UNCHANGED <<vault, sync, ui, poll, trade, asked, count>>

Boot == BootRead \/ BootCash \/ BootColl \/ BootLimit \/ BootTrack

(* The process dies; its container is restarted.                           *)
Crash ==
  /\ boot.pc # "down" /\ count.crashes < MaxCrashes
  /\ boot' = [pc |-> "down", limit |-> 0]
  /\ last' = Untracked(0)
  /\ sync' = Off
  /\ count' = [count EXCEPT !.crashes = @ + 1]
  /\ UNCHANGED <<vault, ui, poll, trade, asked>>

-----------------------------------------------------------------------------
(* SystemController._periodic_margin_sync                                  *)

SyncRead ==
  /\ sync.pc = "read"
  /\ sync' = [sync EXCEPT !.pc = "compare", !.seen = vault.limit]
  /\ UNCHANGED <<vault, last, boot, ui, poll, trade, asked, count>>

SyncCompare ==
  /\ sync.pc = "compare"
  /\ sync' = [sync EXCEPT !.pc = IF sync.seen = last.limit THEN "read" ELSE "compute"]
  /\ UNCHANGED <<vault, last, boot, ui, poll, trade, asked, count>>

(* After the haircut was read: the deltas from what is tracked by now.     *)
SyncCompute ==
  /\ sync.pc = "compute"
  /\ sync' = [pc |-> "apply", seen |-> sync.seen,
              cash |-> Part(sync.seen) - last.cash,
              coll |-> Haircut(sync.seen) - last.coll]
  /\ UNCHANGED <<vault, last, boot, ui, poll, trade, asked, count>>

SyncFault == count.faults < MaxFaults /\ count' = [count EXCEPT !.faults = @ + 1]

(* The script; sync_capital swallows an exception.                         *)
SyncApply ==
  /\ sync.pc = "apply"
  /\ sync' = [sync EXCEPT !.pc = "track"]
  /\ \/ vault' = AfterSync(vault, sync.cash, sync.coll, sync.seen) /\ UNCHANGED count
     \/ SyncFault /\ UNCHANGED vault
  /\ UNCHANGED <<last, boot, ui, poll, trade, asked>>

(* Fault: the new limit is not tracked.                                    *)
SyncTrack_NoLimit ==
  /\ sync.pc = "track"
  /\ sync' = [sync EXCEPT !.pc = "read"]
  /\ last' = [last EXCEPT !.cash = Part(sync.seen), !.coll = Haircut(sync.seen)]
  /\ UNCHANGED <<vault, boot, ui, poll, trade, asked, count>>

(* Writing the hedge reserve may raise: the iteration ends untracked.      *)
SyncTrack ==
  /\ sync.pc = "track"
  /\ sync' = [sync EXCEPT !.pc = "read"]
  /\ \/ /\ last' = [limit |-> sync.seen, cash |-> Part(sync.seen),
                    coll |-> Haircut(sync.seen)]
        /\ UNCHANGED count
     \/ SyncFault /\ UNCHANGED last
  /\ UNCHANGED <<vault, boot, ui, poll, trade, asked>>

Sync == SyncRead \/ SyncCompare \/ SyncCompute \/ SyncApply \/ SyncTrack

-----------------------------------------------------------------------------
(* dashboard: update_regime_config sets the limit, then both components.   *)

UpdateLimit(l) ==
  /\ ui.pc = "idle" /\ count.updates < MaxUpdates
  /\ ui' = [pc |-> "cash", limit |-> l]
  /\ vault' = [vault EXCEPT !.limit = l]
  /\ asked' = l
  /\ count' = [count EXCEPT !.updates = @ + 1]
  /\ UNCHANGED <<last, boot, sync, poll, trade>>

UpdateCash ==
  /\ ui.pc = "cash"
  /\ ui' = [ui EXCEPT !.pc = "coll"]
  /\ vault' = [vault EXCEPT !.cash = Part(ui.limit)]
  /\ UNCHANGED <<last, boot, sync, poll, trade, asked, count>>

UpdateColl ==
  /\ ui.pc = "coll"
  /\ ui' = [ui EXCEPT !.pc = "idle"]
  /\ vault' = [vault EXCEPT !.coll = Part(ui.limit)]
  /\ UNCHANGED <<last, boot, sync, poll, trade, asked, count>>

(* snapshot_manager: _account_sync_task, on the broker's answer.           *)
PollCash(c) ==
  /\ poll.pc = "idle" /\ count.polls < MaxPolls
  /\ poll' = [pc |-> "coll", cash |-> c]
  /\ vault' = [vault EXCEPT !.cash = Part(c)]
  /\ count' = [count EXCEPT !.polls = @ + 1]
  /\ UNCHANGED <<last, boot, sync, ui, trade, asked>>

PollColl ==
  /\ poll.pc = "coll"
  /\ poll' = [poll EXCEPT !.pc = "idle"]
  /\ vault' = [vault EXCEPT !.coll = Part(poll.cash)]
  /\ UNCHANGED <<last, boot, sync, ui, trade, asked, count>>

-----------------------------------------------------------------------------
(* Traders                                                                 *)

(* A request for margin, with what the trader makes of a rejection.        *)
Request(t, h, onReject) ==
  LET granted == ReserveCode(vault, h) = Granted IN
  /\ trade[t].state = "idle"
  /\ vault' = AfterReserve(vault, h)
  /\ trade' = [trade EXCEPT ![t] =
                 [state |-> IF granted THEN "open" ELSE onReject,
                  half  |-> IF granted THEN h ELSE 0]]
  /\ UNCHANGED <<last, boot, sync, ui, poll, asked, count>>

(* MetaRouter._final_dispatch of a live intent returns on a rejection ...  *)
RouterRequest(t, h) == Request(t, h, "vetoed")

(* ... strategy_engine tests the code -1 or -2 for truth and goes on.      *)
EngineRequest(t, h) == Request(t, h, "open")

(* LiquidationDaemon._attempt_exit fires the closing order and no release. *)
Close(t) ==
  /\ trade[t].state = "open"
  /\ trade' = [trade EXCEPT ![t].state = "closed"]
  /\ UNCHANGED <<vault, last, boot, sync, ui, poll, asked, count>>

Next ==
  \/ Boot \/ Crash \/ Sync
  \/ \E l \in Limits : UpdateLimit(l)
  \/ UpdateCash \/ UpdateColl
  \/ \E c \in BrokerCash : PollCash(c)
  \/ PollColl
  \/ \E t \in Trades, h \in Halves :
       RouterRequest(t, h) \/ EngineRequest(t, h)
  \/ \E t \in Trades : Close(t)

Spec == Init /\ [][Next]_vars

(* The controller's tasks are scheduled and its container is restarted; a  *)
(* dashboard request that has begun is served.                             *)
FairSpec ==
  Spec /\ WF_vars(Boot) /\ WF_vars(Sync) /\ WF_vars(UpdateCash \/ UpdateColl)

-----------------------------------------------------------------------------
(* What the controller tracks is one allocation, never a mixture of two:   *)
(* limit and components belong together, although the boot and the sync    *)
(* task it has already started both assign them; once the boot is through, *)
(* the next delta is computed from a real allocation, not from zero.       *)
TrackingCoherent ==
  \/ /\ last.cash = Part(last.limit)
     /\ last.coll \in {Part(last.limit), Haircut(last.limit)}
  \/ /\ last.cash = 0 /\ last.coll = 0
     /\ boot.pc # "up"

(* Whoever overwrites the components in between, only the delta of a sync  *)
(* leaves one of them below zero; in particular no trader's request served *)
(* between the two writes of an overwrite does.                            *)
OverdraftOnlyByDelta ==
  [][sync.pc # "apply" \/ sync' = sync =>
       /\ vault'.cash >= 0 \/ vault'.cash = vault.cash
       /\ vault'.coll >= 0 \/ vault'.coll = vault.coll]_vars

(* Once the dashboard is left alone and nothing fails any more, the limit  *)
(* the controller works with is, for good, the limit in Redis, however     *)
(* boot, sync and dashboard writes were interleaved.                       *)
LimitConverges == <>[](last.limit = vault.limit)

-----------------------------------------------------------------------------
(* Stated by the code or its documents, and not kept.                      *)

Settled ==
  /\ boot.pc = "up" /\ ui.pc = "idle" /\ poll.pc = "idle"
  /\ sync.pc = "read" /\ last.limit = vault.limit

(* system_controller.py:195: a change of the limit is not counted twice:   *)
(* what is free never exceeds the allocation of the highest limit about.   *)
NoDeltaDouble == Settled => Free(vault) <= 2 * Part(Greater(vault.limit, asked))
===============================================================================
