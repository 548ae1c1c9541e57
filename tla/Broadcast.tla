------------------------------ MODULE Broadcast ------------------------------
(***************************************************************************)
(* One symbol's ticks on their way from the broker's thread to the engine  *)
(* (daemons/shoonya_gateway.py, daemons/strategy_engine.py).  The thread   *)
(* numbers a tick and schedules a coroutine; the coroutines start in that  *)
(* order, each writes the shared memory before its first await, and then   *)
(* their Redis calls and sends overlap.  The engine's guard takes a lower  *)
(* number for a restarted gateway.                                         *)
(***************************************************************************)
EXTENDS Integers, Sequences

CONSTANTS
  Keep,       \* length of tick_buffer (100)
  MaxTicks,   \* bound of the model: ticks of a session
  MaxCrashes, \* bound of the model: restarts of the gateway
  MaxFailures \* bound of the model: Redis calls that fail

(* What the parameters may be; the modules that compose this one assume it.*)
Parameters == Keep \in Nat \ {0} /\ {MaxTicks, MaxCrashes, MaxFailures} \subseteq Nat

VARIABLES
  sequence_id, \* of the gateway that runs
  scheduled,   \* ticks whose coroutine has not started
  tasks,       \* the coroutines under way: what each does next
  slot,        \* the tick in shared memory, 0 for none
  latest,      \* latest_tick in Redis
  buffer,      \* tick_buffer in Redis, the newest push first
  wire,        \* ticks sent to the engine
  lastSeq,     \* last_sequence_ids of the engine
  acted,       \* ghost: the tick the engine acted on last
  crashes, failures
vars == <<sequence_id, scheduled, tasks, slot, latest, buffer, wire, lastSeq, acted, crashes, failures>>
redis  == <<latest, buffer>>
engine == <<lastSeq, acted>>

Tick(s, n) == [session |-> s, n |-> n]
None == Tick(-1, 0)

(* In the order of the broker's thread.                                    *)
Newer(a, b) == a.session > b.session \/ (a.session = b.session /\ a.n > b.n)

Init ==
  /\ sequence_id = 0 /\ scheduled = << >> /\ tasks = {}
  /\ slot = None /\ latest = None /\ buffer = << >> /\ wire = << >>
  /\ lastSeq = 0 /\ acted = None
  /\ crashes = 0 /\ failures = 0

-----------------------------------------------------------------------------
(* event_handler_feed_update, on the library's thread.                     *)
Receive ==
  /\ sequence_id < MaxTicks
  /\ sequence_id' = sequence_id + 1
  /\ scheduled' = Append(scheduled, Tick(crashes, sequence_id + 1))
  /\ UNCHANGED <<tasks, slot, redis, wire, engine, crashes, failures>>

(* A coroutine runs to its first await.                                    *)
Starts(i) ==
  /\ slot' = scheduled[i]
  /\ tasks' = tasks \cup {[tick |-> scheduled[i], next |-> "set"]}
  /\ scheduled' = SubSeq(scheduled, 1, i - 1) \o SubSeq(scheduled, i + 1, Len(scheduled))
  /\ UNCHANGED <<sequence_id, redis, wire, engine, crashes, failures>>

(* Fault: the ticks are handed to a pool of threads.                       *)
Start_Any == \E i \in DOMAIN scheduled : Starts(i)

Start == scheduled # << >> /\ Starts(1)

Goes(t, step) == tasks' = (tasks \ {t}) \cup {[t EXCEPT !.next = step]}

SetLatest(t) ==
  /\ t.next = "set" /\ Goes(t, "push")
  /\ latest' = t.tick
  /\ UNCHANGED <<sequence_id, scheduled, slot, buffer, wire, engine, crashes, failures>>

Push(t) ==
  /\ t.next = "push" /\ Goes(t, "trim")
  /\ buffer' = <<t.tick>> \o buffer
  /\ UNCHANGED <<sequence_id, scheduled, slot, latest, wire, engine, crashes, failures>>

Trim(t) ==
  /\ t.next = "trim" /\ Goes(t, "send")
  /\ buffer' = SubSeq(buffer, 1, IF Len(buffer) < Keep THEN Len(buffer) ELSE Keep)
  /\ UNCHANGED <<sequence_id, scheduled, slot, latest, wire, engine, crashes, failures>>

Send(t) ==
  /\ t.next = "send" /\ tasks' = tasks \ {t}
  /\ wire' = Append(wire, t.tick)
  /\ UNCHANGED <<sequence_id, scheduled, slot, redis, engine, crashes, failures>>

(* A Redis call fails: the rest of this coroutine is lost, silently.       *)
Fails(t) ==
  /\ failures < MaxFailures /\ failures' = failures + 1
  /\ t.next \in {"set", "push", "trim"} /\ tasks' = tasks \ {t}
  /\ UNCHANGED <<sequence_id, scheduled, slot, redis, wire, engine, crashes>>

(* Docker starts the gateway again: a new segment, and numbers from one.   *)
Crash ==
  /\ crashes < MaxCrashes /\ crashes' = crashes + 1
  /\ sequence_id' = 0 /\ scheduled' = << >> /\ tasks' = {} /\ slot' = None
  /\ UNCHANGED <<redis, wire, engine, failures>>

(* The engine's guard: a number it has seen is skipped, a lower one is     *)
(* taken for a restart.                                                    *)
Guard ==
  /\ wire # << >>
  /\ LET t == Head(wire)
     IN  IF t.n = lastSeq THEN UNCHANGED engine
         ELSE lastSeq' = t.n /\ acted' = t
  /\ wire' = Tail(wire)
  /\ UNCHANGED <<sequence_id, scheduled, tasks, slot, redis, crashes, failures>>

Next ==
  \/ Receive \/ Start \/ Crash \/ Guard
  \/ \E t \in tasks : SetLatest(t) \/ Push(t) \/ Trim(t) \/ Send(t) \/ Fails(t)

Spec == Init /\ [][Next]_vars

-----------------------------------------------------------------------------
(* Shared memory is never behind: of the gateway that runs, no tick in     *)
(* Redis, on the wire or acted upon is newer than the one in the slot,     *)
(* although the coroutines overlap (_broadcast_tick).                      *)
SlotLeads ==
  LET Out == {latest, acted} \cup {buffer[i] : i \in DOMAIN buffer} \cup {wire[i] : i \in DOMAIN wire}
  IN  \A t \in Out : t.session = crashes => ~Newer(t, slot)
=============================================================================
