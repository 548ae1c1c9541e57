---------------------------- MODULE MCMarketData ----------------------------
(***************************************************************************)
(* The market data for TLC: the two gateways a deployment can start        *)
(* (tick_sensor.py, shoonya_gateway.py) and the sensor with its detector.  *)
(* A behaviour is one of the component chosen at the start; the others     *)
(* keep still.                                                             *)
(***************************************************************************)
EXTENDS Naturals, Sequences

CONSTANTS
  Core, Stocks, Options, FeedFaults,
  Deployed, Listed, GatewayFaults,
  Indices, Heavy, Aliens, Every, Refresh, QueueSize, ReplySize, MailSize, SensorFaults, MaxMoves

VARIABLES
  which,
  loop, reconnect, socket, orphans, active, last, throttled, window, left,
  process, session, carries, restores, cached, stale, position, requests, lost, budget,
  flow, at, on, count, in, out, alive, latest, shm, keys, mail, detector, verdict, told, bounds

(* Toxic by its order flow, toxic by its volatility, calm.  A market does  *)
(* not start with the second; the properties ask of both kinds the same.   *)
Readings == {[vpin |-> 9, rv |-> 18, adx |-> 21, spread |-> 0],
             [vpin |-> 2, rv |-> 60, adx |-> 21, spread |-> 0],
             [vpin |-> 2, rv |-> 18, adx |-> 26, spread |-> 2]}

F == INSTANCE Feed WITH MaxFaults <- FeedFaults
G == INSTANCE Gateway WITH MaxFaults <- GatewayFaults
S == INSTANCE Sensor WITH MaxFaults <- SensorFaults

ASSUME MarketDataAssumption == F!Parameters /\ G!Parameters /\ S!Parameters

f == <<loop, reconnect, socket, orphans, active, last, throttled, window, left>>
g == <<process, session, carries, restores, cached, stale, position, requests, lost, budget>>
s == <<flow, at, on, count, in, out, alive, latest, shm, keys, mail, detector, verdict, told, bounds>>
all == <<which, f, g, s>>

Init ==
  /\ which \in {"feed", "gateway", "sensor"}
  /\ F!Init /\ (which # "feed" => window = {})
  /\ G!Init /\ (which # "gateway" => \A x \in Options : position[x] = "flat")
  /\ S!Init /\ \A i \in Indices : flow[i].rv = 18 /\ (which # "sensor" => flow[i].vpin = 2)

Next ==
  \/ which = "feed"    /\ F!Next /\ UNCHANGED <<which, g, s>>
  \/ which = "gateway" /\ G!Next /\ UNCHANGED <<which, f, s>>
  \/ which = "sensor"  /\ S!Next /\ UNCHANGED <<which, f, g>>

(* The fairness of the three components, for the one that moves.  Steps of *)
(* one task, of which never two are enabled at once, share a condition.    *)
Feed(A)    == which = "feed" /\ A
Gateway(A) == which = "gateway" /\ A
Sensor(A)  == which = "sensor" /\ A

FeedFair ==
  /\ WF_f(Feed(F!Login \/ F!Notice \/ F!Rest)) /\ WF_f(Feed(F!Open))
  /\ WF_f(Feed(F!Unthrottle)) /\ WF_f(Feed(F!Sweep)) /\ SF_f(Feed(F!Timely))
  /\ \A x \in Core \cup Stocks \cup Options :
       WF_f(Feed(F!Deliver(x))) /\ WF_f(Feed(F!Age(x)))

GatewayFair ==
  /\ WF_g(Gateway(G!Login \/ G!Open)) /\ WF_g(Gateway(G!Restore)) /\ WF_g(Gateway(G!Positions))
  /\ WF_g(Gateway(G!Done)) /\ WF_g(Gateway(G!Handle))
  /\ WF_g(Gateway(G!Age)) /\ WF_g(Gateway(G!Watchdog))

SensorFair ==
  /\ WF_s(Sensor(S!Wake \/ S!Publish \/ S!Send \/ S!WriteKeys)) /\ WF_s(Sensor(S!Compute))
  /\ \A i \in Indices :
       SF_s(Sensor(S!Take(i) /\ Len(in) < QueueSize)) /\ WF_s(Sensor(S!Detect(i)))

FairSpec == Init /\ [][Next]_all /\ FeedFair /\ GatewayFair /\ SensorFair

-----------------------------------------------------------------------------
(* The properties of Feed, Gateway and Sensor (see there).                 *)

(* An index of tick_sensor that ticked before ticks again.                 *)
Recovers == which = "feed" => F!Recovers

(* The resets of tick_sensor come to an end.                               *)
Settles == which = "feed" => F!Settles

(* A position of the broker is subscribed again after each opening.        *)
HeldRestored == which = "gateway" => G!HeldRestored

(* The indices of shoonya_gateway come back after every drop.              *)
CoreRecovers == which = "gateway" => G!CoreRecovers

(* A market that turned toxic for good is declared VOLATILE for good.      *)
VerdictFollows == which = "sensor" => S!VerdictFollows

(* Shared memory and the keys in Redis end up telling the same story.      *)
ViewsAgree == which = "sensor" => S!ViewsAgree
=============================================================================
