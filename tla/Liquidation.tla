---------------------------- MODULE Liquidation ----------------------------
(***************************************************************************)
(* The liquidation daemon (daemons/liquidation_daemon.py) with its memory  *)
(* of positions (core/risk/portfolio_state.py) and the barriers it asks    *)
(* (core/risk/barriers.py), for one basket: a sold put and its protective  *)
(* bought call, two positions with one parent_uuid and one class.          *)
(*                                                                         *)
(* Positions come from NEW_POSITION_ALERTS alone, an input here: the docs  *)
(* name the paper bridge as their publisher, which is not among the        *)
(* daemons any more.  The hydration from the table, at the start, every    *)
(* minute and after an alert, reads a column entry_time that no DDL of the *)
(* table has: the KeyError is logged and nothing is loaded.  So memory     *)
(* starts empty, a restart loses it, and what it forgets it never sees     *)
(* again.                                                                  *)
(*                                                                         *)
(* Two coroutines send exit orders, the market monitor and the global risk *)
(* loop; while one waits for an order to go out, or for Redis to delete    *)
(* the journal entry, the other one runs and alerts come in.  Sums of      *)
(* money, prices and signals are inputs: a reading is the first condition  *)
(* that holds in the order in which the barrier tests them.                *)
(***************************************************************************)
EXTENDS Integers, FiniteSets

CONSTANTS
  Lot,        \* units of a leg
  Classes,    \* lifecycle classes of the basket
  Signed,     \* whether the quantity of an alert has the sign of the position
  MaxCuts,    \* bound of the model: partial exits
  MaxFaults   \* bound of the model: failing sends and Redis commands, and crashes

ASSUME LotAssumption   == Lot \in Nat \ {0}
ASSUME ClassAssumption == Classes \subseteq {"KINETIC", "POSITIONAL", "ZERO_DTE"} /\ Classes # {}
ASSUME SignAssumption  == Signed \subseteq BOOLEAN
ASSUME BoundAssumption == MaxCuts \in Nat /\ MaxFaults \in Nat

Legs == {"put", "call"}
Sold == {"put"}
Side(s) == IF s \in Sold THEN -Lot ELSE Lot

VARIABLES
  class,   \* lifecycle_class of the basket
  armed,   \* the legs an alert was received for
  pos,     \* PortfolioState.positions; quantity 0: not there
  task,    \* the coroutines that exit positions
  clock,   \* the minute, and whether its time check has run
  exited,  \* ghost: legs an exit order was sent for
  lost,    \* ghost: legs that left memory unsent, or died with it
  cuts, faults   \* what the bounds still allow

vars == <<class, armed, pos, task, clock, exited, lost, cuts, faults>>

Abs(n) == IF n < 0 THEN -n ELSE n
Nobody == [qty |-> 0, runner |-> FALSE]
Held == {s \in Legs : pos[s].qty # 0}

(* pc: where the coroutine is; todo: positions still to exit or to judge,  *)
(* cut: positions still to reduce; out: the leg whose order is under way,  *)
(* sent: whether it went out; plan: legs of the basket to come, first:     *)
(* those sorted to the front; hedged: the position whose hedge gate ran    *)
(* and whose barriers are still to come.                                   *)
Resting == [pc |-> "rest", index |-> FALSE, todo |-> {}, cut |-> {}, out |-> {},
            sent |-> FALSE, tries |-> 1, plan |-> {}, first |-> {}, basket |-> FALSE,
            hedged |-> {}]
Free(r) == r.out = {} /\ r.cut = {}

TypeOK ==
  /\ class \in Classes
  /\ armed \subseteq Legs
  /\ pos \in [Legs -> [qty : (-Lot)..Lot, runner : BOOLEAN]]
  /\ task \in [{"monitor", "risk"} ->
                 [pc : {"rest", "slash", "gate", "draw", "eval", "down"}, index : BOOLEAN,
                  todo : SUBSET Legs, cut : SUBSET Legs, out : SUBSET Legs, sent : BOOLEAN,
                  tries : 1..3, plan : SUBSET Legs, first : SUBSET Legs, basket : BOOLEAN,
                  hedged : SUBSET Legs]]
  /\ clock \in [minute : {"open", "gate", "late"}, gate : BOOLEAN]
  /\ exited \subseteq Legs /\ lost \subseteq Legs
  /\ cuts \in 0..MaxCuts /\ faults \in 0..MaxFaults
  /\ \A t \in {"monitor", "risk"} : task[t].first \subseteq task[t].plan

Init ==
  /\ class \in Classes
  /\ armed = {}
  /\ pos = [s \in Legs |-> Nobody]
  /\ task = [t \in {"monitor", "risk"} |-> Resting]
  /\ clock = [minute |-> "open", gate |-> FALSE]
  /\ exited = {} /\ lost = {}
  /\ cuts = MaxCuts /\ faults = MaxFaults

(* Bound of the model: failures and partial exits are not mixed.           *)
Faulty  == cuts = MaxCuts /\ faults > 0 /\ faults' = faults - 1
Cutting == faults = MaxFaults /\ cuts > 0 /\ cuts' = cuts - 1
Become(t, r) == task' = [task EXCEPT ![t] = r]

-----------------------------------------------------------------------------
(* The memory of positions.                                                *)

(* An alert arms a leg, until the day is late.  The validation against the *)
(* table that follows fails like the hydration when the quantities differ, *)
(* and does nothing when they agree.                                       *)
Arm(s) ==
  /\ s \notin armed /\ clock.minute # "late" /\ task["risk"].pc # "down"
  /\ armed' = armed \cup {s}
  /\ \E signed \in Signed :
       pos' = [pos EXCEPT ![s] = [qty    |-> IF signed THEN Side(s) ELSE Lot,
                                  runner |-> FALSE]]
  /\ UNCHANGED <<class, task, clock, exited, lost, cuts, faults>>

-----------------------------------------------------------------------------
(* Exit orders.                                                            *)

(* One send: the order goes out, or it does not.                           *)
Attempt(t, r, l) ==
  \/ /\ Become(t, [r EXCEPT !.out = {l}, !.sent = TRUE])
     /\ exited' = exited \cup {l}
     /\ UNCHANGED faults
  \/ /\ Faulty
     /\ Become(t, [r EXCEPT !.out = {l}, !.sent = FALSE])
     /\ UNCHANGED exited

(* Fault: the legs of a basket are taken as they come. *)
Leading_Any(legs) == {}

(* The legs that are sorted to the front: those not held long.             *)
Leading(legs) == {l \in legs : pos[l].qty <= 0}

(* The next order of a plan is sent.                                       *)
Send(t, r) ==
  \/ /\ r.plan = {}
     /\ Become(t, [r EXCEPT !.out = {}, !.sent = FALSE, !.tries = 1, !.basket = FALSE])
     /\ UNCHANGED <<exited, faults>>
  \/ \E l \in r.plan :
       /\ r.first # {} => l \in r.first
       /\ Attempt(t, [r EXCEPT !.plan = @ \ {l}, !.first = @ \ {l}, !.tries = 1], l)

(* _attempt_exit: the whole basket in sequence if it has another leg in    *)
(* memory, else the one leg.                                               *)
Exit(t, r, s) ==
  IF Cardinality(Held) > 1
  THEN Send(t, [r EXCEPT !.plan = Held, !.first = Leading(Held), !.basket = TRUE])
  ELSE Send(t, [r EXCEPT !.plan = {s}])

(* The end of _fire_order_with_retries: a leg of a basket leaves memory,   *)
(* whether its order went out or was given up; a single leg stays.  Then   *)
(* comes the next leg.                                                     *)
Done(t, l) ==
  /\ Send(t, task[t])
  /\ IF task[t].basket
     THEN /\ pos' = [pos EXCEPT ![l] = Nobody]
          /\ lost' = IF l \in exited THEN lost ELSE lost \cup {l}
     ELSE UNCHANGED <<pos, lost>>

(* An order is over when it went out and its journal entry is deleted.     *)
(* When either fails it is sent again, three times at most; what the       *)
(* exception says may also end it at once.                                 *)
Fire(t) ==
  /\ \E l \in task[t].out :
       LET r == task[t] IN
       \/ r.sent /\ Done(t, l)
       \/ /\ r.sent /\ Faulty
          /\ Become(t, [r EXCEPT !.sent = FALSE])
          /\ UNCHANGED <<pos, exited, lost>>
       \/ /\ ~r.sent /\ r.tries < 3
          /\ Attempt(t, [r EXCEPT !.tries = @ + 1], l)
          /\ UNCHANGED <<pos, lost>>
       \/ ~r.sent /\ Done(t, l)
  /\ UNCHANGED <<class, armed, clock, cuts>>

(* int(qty * pct) units go; all or none of them means a full exit.  What   *)
(* stays is written without its sign.                                      *)
Part(n, pct) == (Abs(n) * pct) \div 100
Whole(n, pct) == Part(n, pct) \in {0, Abs(n)}
Cut(p, pct) == [p EXCEPT !.qty = Abs(@) - Part(@, pct)]

(* _attempt_partial_exit, with the memory mem it finds.  A position that   *)
(* left memory meanwhile is reduced, or exited, by the quantity it had; a  *)
(* send that fails changes nothing.                                        *)
Portion(t, r, s, pct, mem) ==
  /\ \/ /\ s \in Held => Whole(pos[s].qty, pct)
        /\ Exit(t, r, s)
        /\ pos' = mem /\ UNCHANGED cuts
     \/ /\ s \in Held => ~Whole(pos[s].qty, pct)
        /\ Become(t, r) /\ UNCHANGED <<exited, faults>>
        /\ \/ pos' = mem /\ UNCHANGED cuts
           \/ /\ s \in Held /\ Cutting
              /\ pos' = [mem EXCEPT ![s] = Cut(@, pct)]

-----------------------------------------------------------------------------
(* The market monitor.                                                     *)

Tick(s) ==
  /\ task["monitor"].pc = "rest" /\ pos[s].qty # 0
  /\ Become("monitor", [Resting EXCEPT !.pc = "eval", !.todo = {s}])
  /\ UNCHANGED <<class, armed, pos, clock, exited, lost, cuts, faults>>

(* An index tick: the drawdown check, then every related position.         *)
IndexTick ==
  /\ task["monitor"].pc = "rest" /\ Held # {}
  /\ \/ Become("monitor", [Resting EXCEPT !.pc = "draw", !.index = TRUE, !.todo = Held])
     \/ Become("monitor", [Resting EXCEPT !.pc = "eval", !.index = TRUE, !.todo = Held])
  /\ UNCHANGED <<class, armed, pos, clock, exited, lost, cuts, faults>>

Hold == [full |-> FALSE, pct |-> 0]
Full == [full |-> TRUE,  pct |-> 100]
Some(pct) == [full |-> FALSE, pct |-> pct]

Readings == {"calm", "velocity", "signal flip", "weak asto", "target 1", "target 2", "stop",
             "stall", "quality", "delta"}

(* TP1 takes 70 per cent and makes a runner of the rest; the stop is the   *)
(* trail for a runner and the ATR stop before.                             *)
Kinetic(r, runner, index) ==
  IF index \/ r \in {"calm", "delta"} THEN Hold
  ELSE IF r = "target 1" THEN (IF runner THEN Hold ELSE Some(70))
  ELSE IF r = "target 2" /\ ~runner THEN Hold
  ELSE Full

(* On an index tick the structural breach; on its own tick the decay, the  *)
(* hedge for a delta too large, the twitchy trail.  The expiry date of an  *)
(* alert is text, which the DTE barrier passes over.                       *)
Positional(r, index) ==
  IF r = "stop" \/ (~index /\ r = "target 1") THEN Full
  ELSE IF ~index /\ r = "delta" THEN Some(25) ELSE Hold

ZeroDte(r, index) ==
  IF r = "quality" \/ (index /\ r = "stop") \/ (~index /\ r \in {"target 1", "stall"})
  THEN Full ELSE Hold

Barrier(r, s, index) ==
  CASE class = "KINETIC"    -> Kinetic(r, pos[s].runner, index)
    [] class = "POSITIONAL" -> Positional(r, index)
    [] class = "ZERO_DTE"   -> ZeroDte(r, index)

(* Fault: the gate is open again a minute later.                           *)
Closing_Briefly == clock.minute = "gate"

Closing == clock.minute \in {"gate", "late"}

(* Gate 2: half of every leg of a positional basket.                       *)
Reduce(s) ==
  LET r == task["monitor"] IN
  /\ class = "POSITIONAL" /\ s \in r.todo /\ s \in Held
  /\ Become("monitor", [r EXCEPT !.todo = @ \ {s}, !.cut = Held])
  /\ UNCHANGED <<pos, exited, cuts, faults>>

(* The hedge waterfall: in a panic the exit, else an order for a future,   *)
(* which changes nothing here, and in the extreme a quarter of the         *)
(* position.                                                               *)
Waterfall(r, s) ==
  \/ Exit("monitor", r, s) /\ UNCHANGED <<pos, cuts>>
  \/ Portion("monitor", r, s, 25, pos)

(* Gate 3, after which the gates go on with the same position.             *)
Hedge(s) ==
  /\ s \in task["monitor"].todo /\ s \in Held
  /\ Waterfall([task["monitor"] EXCEPT !.hedged = {s}, !.todo = @ \ {s}], s)

(* Gates 4 and 5, the velocity exit, then the barriers of the class.       *)
Judge(s, r, reading) ==
  LET verdict == Barrier(reading, s, r.index)
      runner  == IF s \in Held /\ class = "KINETIC" THEN [pos EXCEPT ![s].runner = TRUE]
                 ELSE pos
  IN
  IF Closing \/ reading = "velocity" \/ verdict = Full
  THEN Exit("monitor", r, s) /\ UNCHANGED <<pos, cuts>>
  ELSE IF verdict = Hold
  THEN Become("monitor", r) /\ UNCHANGED <<pos, exited, cuts, faults>>
  ELSE IF class = "POSITIONAL" THEN Waterfall(r, s)
  ELSE Portion("monitor", r, s, verdict.pct, runner)

(* _evaluate_barriers for one position: gone, reduced, hedged or judged;   *)
(* when Redis fails the rest of the tick is skipped.                       *)
Evaluate ==
  LET r == task["monitor"] IN
  /\ r.pc = "eval" /\ Free(r)
  /\ \/ /\ r.hedged = {}
        /\ \E s \in r.todo :
             \/ /\ s \notin Held
                /\ Become("monitor", [r EXCEPT !.todo = @ \ {s}])
                /\ UNCHANGED <<pos, exited, cuts, faults>>
             \/ Reduce(s)
             \/ Hedge(s)
             \/ /\ s \in Held
                /\ \E reading \in Readings : Judge(s, [r EXCEPT !.todo = @ \ {s}], reading)
     \/ \E s \in r.hedged, reading \in Readings : Judge(s, [r EXCEPT !.hedged = {}], reading)
     \/ /\ r.todo \cup r.hedged # {} /\ Faulty
        /\ Become("monitor", Resting) /\ UNCHANGED <<pos, exited, cuts>>
     \/ /\ r.todo \cup r.hedged = {}
        /\ Become("monitor", Resting) /\ UNCHANGED <<pos, exited, cuts, faults>>
  /\ UNCHANGED <<class, armed, clock, lost>>

-----------------------------------------------------------------------------
(* The global risk loop, and the checks both coroutines make.              *)

(* The sweep of 15:15 takes the intraday classes.                          *)
Swept == IF clock.minute = "gate" /\ class \in {"KINETIC", "ZERO_DTE"} THEN Held ELSE {}

(* A round of the risk loop: the utilization slash of every position, if   *)
(* it is due; the time check, which in the minute of the gate sweeps and   *)
(* sleeps until that is over; the drawdown check, if it is due.            *)
Check ==
  LET r == task["risk"]
      timed == r.pc \in {"rest", "slash"} /\ clock.minute # "gate"
      passed == clock' = [clock EXCEPT !.gate = @ \/ timed]
      slept == r.pc = "gate" => clock.minute # "gate"
  IN
  /\ r.pc # "down" /\ Free(r) /\ r.todo = {} /\ slept
  /\ \/ /\ r.pc = "rest" /\ Held # {}
        /\ Become("risk", [Resting EXCEPT !.pc = "slash", !.cut = Held])
        /\ UNCHANGED clock
     \/ /\ r.pc \in {"rest", "slash"} /\ clock.minute = "gate"
        /\ Become("risk", [Resting EXCEPT !.pc = "gate", !.todo = Swept])
        /\ clock' = [clock EXCEPT !.gate = TRUE]
     \/ /\ r.pc = "gate" \/ timed
        /\ Held # {}
        /\ Become("risk", [Resting EXCEPT !.pc = "draw", !.todo = Held])
        /\ passed
     \/ /\ r.pc \in {"gate", "draw"} \/ timed
        /\ Become("risk", Resting)
        /\ passed
  /\ UNCHANGED <<class, armed, pos, exited, lost, cuts, faults>>

(* The monitor turns from the drawdown check to the related positions.     *)
Turn ==
  /\ task["monitor"].pc = "draw" /\ Free(task["monitor"]) /\ task["monitor"].todo = {}
  /\ Become("monitor", [Resting EXCEPT !.pc = "eval", !.index = TRUE, !.todo = Held])
  /\ UNCHANGED <<class, armed, pos, clock, exited, lost, cuts, faults>>

(* The position to exit next, captured when the loop over them began.      *)
Take(t) ==
  /\ task[t].pc \in {"gate", "draw"} /\ Free(task[t])
  /\ \E s \in task[t].todo : Exit(t, [task[t] EXCEPT !.todo = @ \ {s}], s)
  /\ UNCHANGED <<class, armed, pos, clock, lost, cuts>>

(* The position to reduce next: by half in the monitor, in the risk loop   *)
(* by a quarter.                                                           *)
Trim(t) ==
  /\ task[t].out = {}
  /\ \E s \in task[t].cut :
       Portion(t, [task[t] EXCEPT !.cut = @ \ {s}], s, IF t = "risk" THEN 25 ELSE 50, pos)
  /\ UNCHANGED <<class, armed, clock, lost>>

(* A round of the risk loop fits into a minute.                            *)
NextMinute ==
  /\ clock.minute # "late" /\ clock.gate
  /\ clock' = [minute |-> IF clock.minute = "open" THEN "gate" ELSE "late", gate |-> FALSE]
  /\ UNCHANGED <<class, armed, pos, task, exited, lost, cuts, faults>>

Crash ==
  /\ Faulty /\ task["risk"].pc # "down"
  /\ task' = [t \in {"monitor", "risk"} |-> [Resting EXCEPT !.pc = "down"]]
  /\ pos' = [s \in Legs |-> Nobody]
  /\ lost' = lost \cup Held
  /\ UNCHANGED <<class, armed, clock, exited, cuts>>

(* run: hydrate_from_db logs its KeyError, the coroutines start.           *)
Restart ==
  /\ task["risk"].pc = "down"
  /\ task' = [t \in {"monitor", "risk"} |-> Resting]
  /\ UNCHANGED <<class, armed, pos, clock, exited, lost, cuts, faults>>

Monitor == IndexTick \/ (\E s \in Legs : Tick(s)) \/ Evaluate
           \/ Turn \/ Take("monitor") \/ Trim("monitor") \/ Fire("monitor")

Risk == Check \/ Take("risk") \/ Trim("risk") \/ Fire("risk")

Next ==
  \/ \E s \in Legs : Arm(s)
  \/ Monitor \/ Risk \/ NextMinute \/ Crash \/ Restart

(* The event loop runs both coroutines; an index ticks again and again.    *)
Spec ==
  /\ Init /\ [][Next]_vars
  /\ WF_vars(Risk) /\ WF_vars(Monitor) /\ SF_vars(IndexTick)
  /\ WF_vars(NextMinute) /\ WF_vars(Restart)

-----------------------------------------------------------------------------
(* As long as nothing fails and memory knows the put as sold: the          *)
(* protective call is ordered out for the first time only after the put.   *)
(* No coroutine, no two of them together and no partial exit of the call   *)
(* leave the sold leg naked (Engineering.md, section 4).                   *)
ShortsFirst ==
  [][faults = MaxFaults /\ pos["put"].qty < 0 /\ "call" \in exited' \ exited =>
       "put" \in exited]_vars

(* An intraday position in memory is ordered out that day, unless its      *)
(* basket gives it up or the daemon dies: whatever the sweep of 15:15, the *)
(* ticks after it and failing sends of single legs make of it, and however *)
(* late its alert comes.                                                   *)
ArmedEndsFlat ==
  \A s \in Legs : class # "POSITIONAL" /\ s \in Held ~> s \in exited \cup lost

-----------------------------------------------------------------------------
(* Stated by a document, and not kept.                                     *)

=============================================================================
