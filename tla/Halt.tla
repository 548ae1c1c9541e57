--------------------------------- MODULE Halt ---------------------------------
(***************************************************************************)
(* The switches that stop trading and everybody who writes them.           *)
(* SYSTEM_HALT is one Redis key with many writers: the exchange monitor    *)
(* and the preemption poller of the system controller, its settlement      *)
(* guard and its end of day, the two circuit breakers (data gateway and    *)
(* snapshot manager), the kill switch of the bridge, the pre-market        *)
(* validator, the audit of a router that starts, and the operator.  How    *)
(* the router reads it is in Router.                                       *)
(*                                                                         *)
(* The day is a row of minutes that matter; a scheduler that sleeps a      *)
(* minute at a time may slip over one of them.                             *)
(***************************************************************************)
EXTENDS Integers, SystemHalt

CONSTANTS
  Minutes,    \* the minutes that matter, a set of times of day
  Events,     \* times of the tier-1 events in macro_calendar.json, a set
  MaxSlips,   \* bound of the model: minutes the schedulers miss
  MaxMoves,   \* bound of the model: jumps of the index
  MaxOnce,    \* bound of the model: one-shot halts
  MaxDays     \* bound of the model: days

At(h, m) == 60 * h + m
Midnight == 0
Open     == At(9, 15)
Close    == At(15, 30)

(* What the parameters may be; the modules that compose this one assume it.*)
Parameters ==
  /\ Midnight \in Minutes /\ Minutes \subseteq 0..At(23, 59) /\ Events \subseteq 0..At(23, 59)
  /\ {MaxSlips, MaxMoves, MaxOnce, MaxDays} \subseteq Nat

VARIABLES
  kinetic,   \* HALT_KINETIC is "True"
  signals,   \* MACRO_EVENT_LOCKDOWN and LOGGER_STOP
  clock,     \* the minute, and which schedulers have yet to look at it
  monitor,   \* _exchange_health_monitor: where it stands, the misses it has counted
  breaker,   \* the two _circuit_breaker_monitor: where each stands
  move,      \* how far the index is from each breaker's base, in percent
  starting,  \* _perform_self_audit of the router: whether it is about to write the key
  count      \* the counters of the bounds

vars == <<flag, kinetic, signals, clock, monitor, breaker, move, starting,
          holders, overlap, count>>

Breakers   == {"gateway", "snapshot"}
Levels     == {10, 20}   \* 15 is treated like 10
Schedulers == {"eod", "validator", "settlement"}
Latches    == {"kill", "preempt", "validator", "settlement"}

TypeOK ==
  /\ flag \in {"unset", "False", "True", "LEVEL", "DAY_HALT"}
  /\ kinetic \in BOOLEAN /\ starting \in BOOLEAN /\ overlap \in BOOLEAN
  /\ signals \in [lockdown : BOOLEAN, loggerStop : BOOLEAN]
  /\ clock \in [now : Minutes, due : SUBSET Schedulers, day : 1..MaxDays, over : BOOLEAN]
  /\ monitor \in [pc : {"watch", "halt", "wait"}, missed : 0..3]
  /\ breaker \in [Breakers -> {"watch", "told", "asleep", "lift", "stuck", "done"}]
  /\ move \in [Breakers -> Levels \cup {0}]
  /\ holders \subseteq Breakers \cup Latches \cup {"monitor"}
  /\ count \in [slips : 0..MaxSlips, moves : 0..MaxMoves, once : 0..MaxOnce]

Init ==
  /\ flag = "False" /\ kinetic = FALSE
  /\ signals = [lockdown |-> FALSE, loggerStop |-> FALSE]
  /\ clock = [now |-> Midnight, due |-> {}, day |-> 1, over |-> FALSE]
  /\ monitor = [pc |-> "watch", missed |-> 0]
  /\ breaker = [b \in Breakers |-> "watch"]
  /\ move = [b \in Breakers |-> 0]
  /\ starting = FALSE
  /\ holders = {} /\ overlap = FALSE
  /\ count = [slips |-> 0, moves |-> 0, once |-> 0]

-----------------------------------------------------------------------------
(* The day.                                                                *)

Following == IF \E m \in Minutes : m > clock.now
             THEN CHOOSE m \in Minutes :
                    m > clock.now /\ \A n \in Minutes : n > clock.now => m <= n
             ELSE Midnight

(* _macro_lockdown_watcher: half an hour before and after an event.        *)
LockedDown(m) == \E e \in Events : m >= e - 30 /\ m < e + 30

(* The watchers that look every 30 or 60 seconds have looked before the    *)
(* next minute that matters: the macro lockdown and the stop of the logger.*)
Watchers(m) == signals' = [lockdown |-> LockedDown(m), loggerStop |-> m >= At(15, 25)]

(* A scheduler that tests for one minute looks at it or slips over it.     *)
(* After the shutdown the next day starts with a restarted controller.     *)
NextMinute ==
  /\ clock.due = {}
  /\ Following = Midnight => clock.day < MaxDays
  /\ \E due \in {Schedulers} \cup {Schedulers \ {s} : s \in Schedulers} :
       /\ due = Schedulers \/ count.slips < MaxSlips
       /\ clock' = [now |-> Following, due |-> IF clock.over THEN {} ELSE due,
                    day  |-> IF Following = Midnight THEN clock.day + 1 ELSE clock.day,
                    over |-> clock.over /\ Following # Midnight]
       /\ count' = [count EXCEPT !.slips = IF due = Schedulers THEN @ ELSE @ + 1]
  /\ IF clock.over THEN UNCHANGED signals ELSE Watchers(Following)
  /\ UNCHANGED <<flag, kinetic, monitor, breaker, move, starting, holders, overlap>>

Due(s) == s \in clock.due
Done(s) == clock' = [clock EXCEPT !.due = @ \ {s}]

(* _three_stage_eod_scheduler.  The square-off of 15:20 and the audit of   *)
(* 15:45 write none of these keys.  At 16:00 SYSTEM_HALT is deleted,       *)
(* whoever holds it.                                                       *)
EndOfDay ==
  /\ Due("eod")
  /\ kinetic' = (kinetic \/ clock.now = At(15, 0))
  /\ IF clock.now = At(16, 0)
     THEN /\ flag' = "unset" /\ holders' = {}
          /\ clock' = [clock EXCEPT !.due = {}, !.over = TRUE]
     ELSE Done("eod") /\ UNCHANGED <<flag, holders>>
  /\ UNCHANGED <<signals, monitor, breaker, move, starting, overlap, count>>

(* _quarterly_settlement_guard: on a settlement day, at 9:00.              *)
Settlement ==
  /\ Due("settlement") /\ Done("settlement")
  /\ \/ /\ clock.now = At(9, 0) /\ count.once < MaxOnce
        /\ flag' = "True" /\ Holds("settlement")
        /\ count' = [count EXCEPT !.once = @ + 1]
     \/ UNCHANGED <<flag, holders, overlap, count>>
  /\ UNCHANGED <<kinetic, signals, monitor, breaker, move, starting>>

(* The pre-market validator, spawned at 9:00: it finds the system ready,   *)
(* dies before its report, or halts the system.                            *)
Validate ==
  /\ Due("validator") /\ Done("validator")
  /\ \/ /\ clock.now = At(9, 0) /\ count.once < MaxOnce
        /\ flag' = "True" /\ Holds("validator")
        /\ count' = [count EXCEPT !.once = @ + 1]
     \/ UNCHANGED <<flag, holders, overlap, count>>
  /\ UNCHANGED <<kinetic, signals, monitor, breaker, move, starting>>

-----------------------------------------------------------------------------
(* One-shot halts, and the operator.                                       *)

(* The kill switch of the bridge, the preemption poller.                   *)
HaltOnce(h) ==
  /\ h \notin holders /\ count.once < MaxOnce
  /\ flag' = "True" /\ Holds(h)
  /\ count' = [count EXCEPT !.once = @ + 1]
  /\ UNCHANGED <<kinetic, signals, clock, monitor, breaker, move, starting>>

(* The operator resumes trading; a halt somebody still sleeps on is undone *)
(* too.                                                                    *)
Resume ==
  /\ Halting
  /\ flag' = "False"
  /\ overlap' = (overlap \/ holders \cap Breakers # {})
  /\ holders' = {}
  /\ UNCHANGED <<kinetic, signals, clock, monitor, breaker, move, starting, count>>

-----------------------------------------------------------------------------
(* _exchange_health_monitor                                                *)

(* Every 0.2 s of the session: a tick of one of the indices is missing or  *)
(* older than 500 ms, or all are fresh.                                    *)
Watch ==
  /\ monitor.pc = "watch" /\ clock.now >= Open /\ clock.now <= Close /\ ~clock.over
  /\ \/ monitor' = [monitor EXCEPT !.missed = 0]
     \/ monitor' = IF monitor.missed < 2 THEN [monitor EXCEPT !.missed = @ + 1]
                   ELSE [pc |-> "halt", missed |-> 3]
  /\ UNCHANGED <<flag, kinetic, signals, clock, breaker, move, starting, holders, overlap, count>>

Suspend ==
  /\ monitor.pc = "halt"
  /\ flag' = "True" /\ Holds("monitor")
  /\ monitor' = [monitor EXCEPT !.pc = "wait"]
  /\ UNCHANGED <<kinetic, signals, clock, breaker, move, starting, count>>

(* "Wait for manual recovery": until the key is anything but "True".       *)
Recover ==
  /\ monitor.pc = "wait" /\ flag # "True"
  /\ monitor' = [pc |-> "watch", missed |-> 0]
  /\ holders' = holders \ {"monitor"}
  /\ UNCHANGED <<flag, kinetic, signals, clock, breaker, move, starting, overlap, count>>

-----------------------------------------------------------------------------
(* _circuit_breaker_monitor, of the gateway and of the snapshot manager.   *)

(* The index moves; each breaker compares it with a base of its own: the   *)
(* gateway with its first price, the snapshot manager with the close of    *)
(* the day before.                                                         *)
Move(bs, l) ==
  /\ count.moves < MaxMoves
  /\ move' = [b \in Breakers |-> IF b \in bs THEN l ELSE move[b]]
  /\ count' = [count EXCEPT !.moves = @ + 1]
  /\ UNCHANGED <<flag, kinetic, signals, clock, monitor, breaker, starting, holders, overlap>>

(* CIRCUIT_BREAKER_MATRIX: whether the halt is for the rest of the day.    *)
ForTheDay(l) == l = 20 \/ clock.now >= At(14, 30)

(* _broadcast_halt writes the level, whatever is there.                    *)
(* Fault: the halt is lifted when it begins.                               *)
Trip_Lifts(b) ==
  /\ breaker[b] = "watch" /\ move[b] # 0
  /\ flag' = "False" /\ Holds(b)
  /\ breaker' = [breaker EXCEPT ![b] = IF ForTheDay(move[b]) THEN "told" ELSE "asleep"]
  /\ UNCHANGED <<kinetic, signals, clock, monitor, move, starting, count>>

Trip(b) ==
  /\ breaker[b] = "watch" /\ move[b] # 0
  /\ flag' = "LEVEL" /\ Holds(b)
  /\ breaker' = [breaker EXCEPT ![b] = IF ForTheDay(move[b]) THEN "told" ELSE "asleep"]
  /\ UNCHANGED <<kinetic, signals, clock, monitor, move, starting, count>>

(* A day halt: the gateway never acts again, the snapshot manager returns. *)
DayHalt(b) ==
  /\ breaker[b] = "told"
  /\ flag' = "DAY_HALT"
  /\ breaker' = [breaker EXCEPT ![b] = IF b = "gateway" THEN "stuck" ELSE "done"]
  /\ UNCHANGED <<kinetic, signals, clock, monitor, move, starting, holders, overlap, count>>

(* The halt of 15 to 105 minutes is over: new base, ...                    *)
Wake(b) ==
  /\ breaker[b] = "asleep"
  /\ breaker' = [breaker EXCEPT ![b] = "lift"]
  /\ move' = [move EXCEPT ![b] = 0]
  /\ holders' = holders \ {b}
  /\ UNCHANGED <<flag, kinetic, signals, clock, monitor, starting, overlap, count>>

(* ... and "False", whoever wrote the key last.                            *)
Lift(b) ==
  /\ breaker[b] = "lift"
  /\ flag' = "False"
  /\ overlap' = (overlap \/ holders # {})
  /\ breaker' = [breaker EXCEPT ![b] = "watch"]
  /\ UNCHANGED <<kinetic, signals, clock, monitor, move, starting, holders, count>>

-----------------------------------------------------------------------------
(* MetaRouter._perform_self_audit, whenever the router starts: it looks    *)
(* whether the key is there, ...                                           *)
Look ==
  /\ ~starting /\ flag = "unset"
  /\ starting' = TRUE
  /\ UNCHANGED <<flag, kinetic, signals, clock, monitor, breaker, move, holders, overlap, count>>

(* ... and if it was not writes "False", whoever has halted the system in  *)
(* between; or it dies before.                                             *)
Initialise ==
  /\ starting /\ starting' = FALSE
  /\ \/ flag' = "False" /\ overlap' = (overlap \/ holders # {})
     \/ UNCHANGED <<flag, overlap>>
  /\ UNCHANGED <<kinetic, signals, clock, monitor, breaker, move, holders, count>>

Next ==
  \/ NextMinute \/ EndOfDay \/ Settlement \/ Validate
  \/ HaltOnce("kill") \/ HaltOnce("preempt") \/ Resume
  \/ Watch \/ Suspend \/ Recover
  \/ \E b \in Breakers : Trip(b) \/ DayHalt(b) \/ Wake(b) \/ Lift(b)
  \/ \E bs \in (SUBSET Breakers) \ {{}}, l \in Levels : Move(bs, l)
  \/ Look \/ Initialise

Spec == Init /\ [][Next]_vars
=============================================================================
