------------------------------- MODULE Sensor -------------------------------
(***************************************************************************)
(* From ticks to the verdict on the market: MarketSensor takes the ticks,  *)
(* hands snapshots to its compute process, and publishes what came back    *)
(* (daemons/market_sensor.py); the RegimeDetector of an index reads the    *)
(* signals from shared memory and writes the verdict the strategies obey   *)
(* (daemons/regime_detector.py).                                           *)
(*                                                                         *)
(* A symbol's ticks carry a reading of the market: how toxic the flow is,  *)
(* how volatile prices are, how strong the trend, how wide the edge.  What compute makes *)
(* of a snapshot is the reading the snapshot was taken from.  The lists    *)
(* are long enough for every figure (a few seconds into the session).      *)
(***************************************************************************)
EXTENDS Integers, Sequences

CONSTANTS
  Indices,   \* published, each watched by a detector
  Heavy,     \* the heavyweights: two snapshots per tick
  Aliens,    \* symbols on the feed that have no buffers: INDIAVIX, the options
  Readings,  \* [vpin, rv, adx, spread]: tenths, hundredths, points, hundredths
  Every,     \* ticks of a symbol between publications (50)
  Refresh,   \* messages between the detector's fetches (300)
  QueueSize, \* of the queue to the compute process (10000)
  ReplySize, \* of the queue back (1000)
  MailSize,  \* messages a detector may have waiting
  MaxFaults, \* bound of the model: failures, deaths, restarts
  MaxMoves   \* bound of the model: moves of the market
(* What the parameters may be; the modules that compose this one assume it.*)
Parameters ==
  /\ Every \in Nat \ {0} /\ Refresh \in Nat \ {0} /\ QueueSize \in Nat \ {0} /\ ReplySize \in Nat \ {0}
  /\ MailSize \in Nat \ {0} /\ MaxFaults \in Nat /\ MaxMoves \in Nat
  /\ \A r \in Readings : r.vpin \in 0..10 /\ r.rv \in Nat /\ r.adx \in 0..100 /\ r.spread \in Int

Symbols  == Indices \cup Heavy
Defaults == [vpin |-> 0, rv |-> 18, adx |-> 20, spread |-> 0]

(* Signals that are no reading of an index: none yet, a heavyweight's, and *)
(* those of a snapshot that carries only its prices.                       *)
Mark(n)  == [vpin |-> -n, rv |-> 0, adx |-> 0, spread |-> 0]
Nothing  == Mark(1)
Whole    == Mark(2)
Partial  == Mark(3)

VARIABLES
  flow,      \* the market: the reading of each index
  at,        \* where the loop of run() is: "take", "publish", "send", "keys", "sleep"
  on,        \* the index being published
  count,     \* tick_counters of the indices, modulo Every
  in, out,   \* the queues to and from the compute process
  alive,     \* the compute process
  latest,    \* _latest_signals
  shm,       \* SignalVector of an index: the reading and whether it is younger than 1 s
  keys,      \* what Redis says of an index: latest_market_state and the guards' keys
  mail,      \* messages waiting for the detector
  detector,  \* its parameters, stale_override, param_sync_tick, current_regime_int
  verdict,   \* RegimeVector in shared memory
  told,      \* regime_state in Redis
  bounds     \* faults and moves the bound still allows
sensor == <<at, on, count, in, out, alive, latest, shm, keys>>
vars == <<flow, sensor, mail, detector, verdict, told, bounds>>

Fetched(i, d) ==
  [d EXCEPT !.reading = IF shm[i].fresh THEN shm[i].reading ELSE @,
            !.stale   = ~shm[i].fresh,
            !.since   = 0]
Started == [reading |-> Defaults, stale |-> TRUE, since |-> 0, was |-> "NEUTRAL"]

Init ==
  /\ flow \in [Indices -> Readings]
  /\ at = "take" /\ on \in Indices
  /\ count = [i \in Indices |-> 0]
  /\ in = << >> /\ out = << >> /\ alive = TRUE
  /\ latest = [s \in Symbols |-> Nothing]
  /\ shm = [i \in Indices |-> [reading |-> Defaults, fresh |-> FALSE]]
  /\ keys = [i \in Indices |-> [state |-> Nothing, guards |-> Nothing]]
  /\ mail = [i \in Indices |-> 0]
  /\ detector = [i \in Indices |-> Started]
  /\ verdict = [i \in Indices |-> "NEUTRAL"]
  /\ told = [i \in Indices |-> "none"]
  /\ bounds = [faults |-> MaxFaults, moves |-> MaxMoves]

Fault == bounds.faults > 0 /\ bounds' = [bounds EXCEPT !.faults = @ - 1]

-----------------------------------------------------------------------------
(* The loop of the sensor.                                                 *)

(* What is drained from the compute process is filed under its symbol, the *)
(* last answer winning.                                                    *)
Answers(s) == {k \in 1..Len(out) : out[k].symbol = s}
Drained(t) ==
  [s \in Symbols |->
     IF Answers(s) = {} THEN latest[s]
     ELSE out[CHOOSE k \in Answers(s) : \A j \in Answers(s) : j <= k].signals]

(* Every tick sends a snapshot (the count the modulus looks at is never    *)
(* advanced); a heavyweight's is followed by one of its prices alone.      *)
Snapshots(s) ==
  IF s \in Indices
  THEN << [symbol |-> s, signals |-> flow[s]] >>
  ELSE << [symbol |-> s, signals |-> Whole], [symbol |-> s, signals |-> Partial] >>

(* Those the queue has no room for are dropped.                            *)
Enqueued(new) ==
  LET room == QueueSize - Len(in)
  IN  in \o SubSeq(new, 1, IF room < Len(new) THEN room ELSE Len(new))

Counted(s) == IF s \in Indices THEN [count EXCEPT ![s] = (@ + 1) % Every] ELSE count

Take(s) ==
  /\ at = "take"
  /\ count' = Counted(s)
  /\ latest' = Drained(s) /\ out' = << >>
  /\ in' = Enqueued(Snapshots(s))
  /\ IF s \in Indices /\ count'[s] = 0
     THEN at' = "publish" /\ on' = s
     ELSE UNCHANGED <<at, on>>
  /\ UNCHANGED <<flow, alive, shm, keys, mail, detector, verdict, told, bounds>>

(* Redis does not answer while the snapshot is put together: the tick is   *)
(* counted, and a publication that was due is not made.                    *)
TakeFails(s) ==
  /\ at = "take" /\ Fault
  /\ count' = Counted(s)
  /\ latest' = Drained(s) /\ out' = << >>
  /\ at' = "sleep"
  /\ UNCHANGED <<flow, on, in, alive, shm, keys, mail, detector, verdict, told>>

(* The order flow of a symbol without buffers has nowhere to go: the loop  *)
(* falls into its handler and sleeps for five seconds.                     *)
TakeAlien(s) ==
  /\ at = "take" /\ s \in Aliens
  /\ at' = "sleep"
  /\ UNCHANGED <<flow, on, count, in, out, alive, latest, shm, keys, mail, detector, verdict, told, bounds>>

Wake ==
  /\ at = "sleep"
  /\ at' = "take"
  /\ UNCHANGED <<flow, on, count, in, out, alive, latest, shm, keys, mail, detector, verdict, told, bounds>>

-----------------------------------------------------------------------------
(* The compute process: one snapshot at a time, in the order they came.    *)

Compute ==
  /\ alive /\ in # << >> /\ Len(out) < ReplySize
  /\ out' = Append(out, Head(in))
  /\ in' = Tail(in)
  /\ UNCHANGED <<flow, at, on, count, alive, latest, shm, keys, mail, detector, verdict, told, bounds>>

(* Nothing looks after the process: once dead it stays dead, and the       *)
(* sensor goes on publishing the last signals it has.                      *)
ComputeDies ==
  /\ alive /\ Fault
  /\ alive' = FALSE
  /\ UNCHANGED <<flow, at, on, count, in, out, latest, shm, keys, mail, detector, verdict, told>>

-----------------------------------------------------------------------------
(* The publication of an index: shared memory, then the message, then the  *)
(* keys.  An exception leaves the rest undone.                             *)

Signals(i) == IF latest[i] = Nothing THEN Defaults ELSE latest[i]

Publish ==
  /\ at = "publish"
  /\ shm' = [shm EXCEPT ![on] = [reading |-> Signals(on), fresh |-> TRUE]]
  /\ at' = "send"
  /\ UNCHANGED <<flow, on, count, in, out, alive, latest, keys, mail, detector, verdict, told, bounds>>

PublishFails ==
  /\ at \in {"publish", "keys"} /\ Fault
  /\ at' = "sleep"
  /\ \/ UNCHANGED keys
     \/ at = "keys" /\ keys' = [keys EXCEPT ![on].state = Signals(on)]
  /\ UNCHANGED <<flow, on, count, in, out, alive, latest, shm, mail, detector, verdict, told>>

(* A message for a detector that has too many waiting is dropped.          *)
Send ==
  /\ at = "send"
  /\ mail' = [mail EXCEPT ![on] = IF @ < MailSize THEN @ + 1 ELSE @]
  /\ at' = "keys"
  /\ UNCHANGED <<flow, on, count, in, out, alive, latest, shm, keys, detector, verdict, told, bounds>>

(* Fault: the guards' keys are written once, when they are missing.        *)
Written_Once(i) ==
  [keys[i] EXCEPT !.state = Signals(i), !.guards = IF @ = Nothing THEN Signals(i) ELSE @]
Written(i) == [state |-> Signals(i), guards |-> Signals(i)]

WriteKeys ==
  /\ at = "keys"
  /\ keys' = [keys EXCEPT ![on] = Written(on)]
  /\ at' = "take"
  /\ UNCHANGED <<flow, on, count, in, out, alive, latest, shm, mail, detector, verdict, told, bounds>>

(* The container restarts: queues, counts and signals are gone; shared     *)
(* memory and Redis stay.                                                  *)
Restart ==
  /\ Fault
  /\ at' = "take"
  /\ count' = [i \in Indices |-> 0]
  /\ in' = << >> /\ out' = << >> /\ alive' = TRUE
  /\ latest' = [s \in Symbols |-> Nothing]
  /\ UNCHANGED <<flow, on, shm, keys, mail, detector, verdict, told>>

-----------------------------------------------------------------------------
(* The detector of an index.                                               *)

(* Order flow or volatility that forbids trading.                          *)
Toxic(r) == r.vpin > 8 \/ r.rv > 50

(* Trending and ranging are left at looser thresholds than they are        *)
(* entered; a stale or toxic market is VOLATILE, whatever it was.          *)
(* Fault: the toxicity is not looked at while a trend lasts.               *)
Classify_TrendFirst(d) ==
  CASE d.was = "TRENDING" /\ d.reading.adx > 20 -> "TRENDING"
    [] d.stale \/ Toxic(d.reading) -> "VOLATILE"
    [] d.reading.adx > 25 -> "TRENDING"
    [] OTHER -> "NEUTRAL"
Classify(d) ==
  LET r == d.reading
  IN  CASE d.stale \/ Toxic(r) -> "VOLATILE"
        [] r.adx > (IF d.was = "TRENDING" THEN 20 ELSE 25) -> "TRENDING"
        [] /\ r.spread > (IF d.was = "RANGING" THEN 1 ELSE 3)
           /\ r.adx < (IF d.was = "RANGING" THEN 22 ELSE 20) -> "RANGING"
        [] OTHER -> "NEUTRAL"

Heard(i) ==
  IF detector[i].since + 1 >= Refresh
  THEN Fetched(i, detector[i])
  ELSE [detector[i] EXCEPT !.since = @ + 1]

(* The verdict goes to shared memory first; Redis may fail after it.       *)
Detect(i) ==
  /\ mail[i] > 0
  /\ mail' = [mail EXCEPT ![i] = @ - 1]
  /\ verdict' = [verdict EXCEPT ![i] = Classify(Heard(i))]
  /\ detector' = [detector EXCEPT ![i] = [Heard(i) EXCEPT !.was = verdict'[i]]]
  /\ \/ told' = [told EXCEPT ![i] = verdict'[i]] /\ UNCHANGED bounds
     \/ Fault /\ UNCHANGED told
  /\ UNCHANGED <<flow, sensor>>

(* A detector that starts fetches what there is; the verdict of its life   *)
(* before stands until the next message, but the hysteresis starts anew.   *)
DetectorRestarts(i) ==
  /\ Fault
  /\ detector' = [detector EXCEPT ![i] = Fetched(i, Started)]
  /\ mail' = [mail EXCEPT ![i] = 0]
  /\ UNCHANGED <<flow, sensor, verdict, told>>

-----------------------------------------------------------------------------
(* The signals in shared memory pass the age of one second: after a        *)
(* detector has handled the message that followed them, or, a fault of the *)
(* machine's load, before.                                                 *)
Handled(i) == mail[i] = 0 /\ ~(at = "send" /\ on = i)

Age(i) ==
  /\ shm[i].fresh
  /\ IF Handled(i) THEN UNCHANGED bounds ELSE Fault
  /\ shm' = [shm EXCEPT ![i].fresh = FALSE]
  /\ UNCHANGED <<flow, at, on, count, in, out, alive, latest, keys, mail, detector, verdict, told>>

Move(i) ==
  /\ bounds.moves > 0 /\ bounds' = [bounds EXCEPT !.moves = @ - 1]
  /\ \E r \in Readings \ {flow[i]} : flow' = [flow EXCEPT ![i] = r]
  /\ UNCHANGED <<sensor, mail, detector, verdict, told>>

Next ==
  \/ \E s \in Symbols : Take(s) \/ TakeFails(s)
  \/ \E s \in Aliens : TakeAlien(s)
  \/ Wake \/ Compute \/ ComputeDies \/ Publish \/ PublishFails \/ Send \/ WriteKeys \/ Restart
  \/ \E i \in Indices : Detect(i) \/ DetectorRestarts(i) \/ Age(i) \/ Move(i)

Spec == Init /\ [][Next]_vars

(* The loops run, and an index of an open market keeps ticking among the   *)
(* other symbols, now and then when the queue to compute has room.         *)
FairSpec ==
  /\ Spec
  /\ WF_vars(Wake) /\ WF_vars(Compute) /\ WF_vars(Publish) /\ WF_vars(Send) /\ WF_vars(WriteKeys)
  /\ \A i \in Indices : SF_vars(Take(i) /\ Len(in) < QueueSize) /\ WF_vars(Detect(i))

-----------------------------------------------------------------------------

(* As long as the compute process lives, a market that has turned toxic    *)
(* for good, by its order flow or by its volatility, is declared VOLATILE  *)
(* for good, and one that has calmed down is released: through snapshots   *)
(* dropped at a full queue, ticks that break the loop, failed              *)
(* publications, dropped messages, late reads, restarts and a detector     *)
(* that looks at the signals once in Refresh messages.                     *)
VerdictFollows ==
  <>[]alive =>
    \A i \in Indices :
      /\ <>[]Toxic(flow[i])  => <>[](verdict[i] = "VOLATILE")
      /\ <>[]~Toxic(flow[i]) => <>[](verdict[i] # "VOLATILE")

(* Shared memory, the state in Redis, the keys the strategies guard with   *)
(* and the regime in Redis are written one after the other by two          *)
(* processes, and any of them can fail: once the market holds still they   *)
(* tell the same story.                                                    *)
ViewsAgree ==
  <>[]alive =>
    \A i \in Indices : <>[](/\ keys[i].state = shm[i].reading
                            /\ keys[i].guards = shm[i].reading
                            /\ told[i] = verdict[i])
=============================================================================
