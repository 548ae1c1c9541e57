------------------------------- MODULE Gateway -------------------------------
(***************************************************************************)
(* What the live gateway subscribes (daemons/shoonya_gateway.py): the base *)
(* symbols and, after each opening of the websocket, the symbols of the    *)
(* strategies and of the broker's positions, one at a time; the requests   *)
(* of other daemons in between; and the watchdog that closes a stalled     *)
(* session.  The market is open.                                           *)
(*                                                                         *)
(* The library (not in the repository) is taken as the code uses it: a     *)
(* closed session is opened again, a call of subscribe waits for it.       *)
(***************************************************************************)
EXTENDS Naturals, Sequences

CONSTANTS
  Core,      \* the indices the watchdog watches; base symbols
  Options,   \* symbols subscribed on demand
  Deployed,  \* those of the enabled entries of active_strategies
  Listed,    \* those the master file knows; others are searched at the broker
  MaxFaults  \* bound of the model: drops, stalls, errors, restarts, fills, requests

(* What the parameters may be; the modules that compose this one assume it.*)
Parameters == Deployed \subseteq Options /\ Listed \subseteq Options /\ MaxFaults \in Nat

VARIABLES
  process,   \* "login" or "running"
  session,   \* "closed", "opening" or "open"
  carries,   \* what the session carries
  restores,  \* the coroutines _subscribe_dynamic under way, the oldest first
  cached,    \* token_lookup in Redis
  stale,     \* indices whose last_feed_time is more than two seconds old
  position,  \* broker_positions in Redis: "flat", "long" or "short"
  requests,  \* dynamic_subscriptions, not yet handled
  lost,      \* ghost: what exceptions kept the coroutine of this opening from
  budget     \* faults the bound still allows
vars == <<process, session, carries, restores, cached, stale, position, requests, lost, budget>>
feed == <<session, carries, stale>>

(* Fault: a short position counts as none.                                 *)
Held_Long == {s \in Options : position[s] = "long"}
Held == {s \in Options : position[s] # "flat"}

Init ==
  /\ process = "login" /\ session = "closed" /\ carries = {}
  /\ restores = << >> /\ cached = {} /\ stale = {}
  /\ position \in [Options -> {"flat", "long", "short"}]
  /\ requests = << >> /\ lost = {} /\ budget = MaxFaults

Fault == budget > 0 /\ budget' = budget - 1

-----------------------------------------------------------------------------
(* The process.  A login that fails ends it; Docker starts it again, and   *)
(* also after a crash.                                                     *)
Login ==
  /\ process = "login"
  /\ process' = "running" /\ session' = "opening" /\ stale' = {}
  /\ UNCHANGED <<carries, restores, cached, position, requests, lost, budget>>

Crash ==
  /\ Fault
  /\ process' = "login" /\ session' = "closed" /\ carries' = {}
  /\ restores' = << >> /\ requests' = << >> /\ stale' = {}
  /\ UNCHANGED <<cached, position, lost>>

(* The session opens: base symbols at once, a coroutine for the others.    *)
Open ==
  /\ session = "opening"
  /\ session' = "open" /\ carries' = Core
  /\ restores' = Append(restores, [phase |-> "strategies", todo |-> Deployed])
  /\ lost' = {}
  /\ UNCHANGED <<process, cached, stale, position, requests, budget>>

(* The broker drops the session, or goes on without sending anything.      *)
Drop ==
  /\ Fault /\ session = "open"
  /\ session' \in {"opening", "open"} /\ carries' = {}
  /\ UNCHANGED <<process, restores, cached, stale, position, requests, lost>>

-----------------------------------------------------------------------------
(* The symbols of one coroutine.  A symbol the master file and the cache   *)
(* do not know is searched at the broker, which may fail; the answer is    *)
(* cached.  The positions are read when the strategies are done.           *)
Resolved(s) == s \in Listed \cup cached

Subscribe(s) ==
  /\ session = "open"
  /\ carries' = carries \cup {s} /\ cached' = cached \cup {s}

Advance(c, s) == restores' = [restores EXCEPT ![c].todo = @ \ {s}]

Restore ==
  \E c \in DOMAIN restores : \E s \in restores[c].todo :
    /\ Subscribe(s) /\ Advance(c, s)
    /\ UNCHANGED <<process, session, stale, position, requests, lost, budget>>

NotFound ==
  \E c \in DOMAIN restores : \E s \in restores[c].todo :
    /\ Fault /\ ~Resolved(s) /\ Advance(c, s)
    /\ UNCHANGED <<process, feed, cached, position, requests, lost>>

(* An exception at one position, whatever raises it, costs that position.  *)
Skip ==
  \E c \in DOMAIN restores : \E s \in restores[c].todo :
    /\ Fault /\ restores[c].phase = "positions" /\ Advance(c, s)
    /\ lost' = IF c = Len(restores) THEN lost \cup {s} ELSE lost
    /\ UNCHANGED <<process, feed, cached, position, requests>>

Positions ==
  \E c \in DOMAIN restores :
    /\ restores[c].phase = "strategies" /\ restores[c].todo = {}
    /\ restores' = [restores EXCEPT ![c] = [phase |-> "positions", todo |-> Held]]
    /\ UNCHANGED <<process, feed, cached, position, requests, lost, budget>>

Done ==
  /\ restores # << >> /\ Head(restores).phase = "positions" /\ Head(restores).todo = {}
  /\ restores' = Tail(restores)
  /\ UNCHANGED <<process, feed, cached, position, requests, lost, budget>>

(* An entry that is not JSON, Redis or a symbol of the strategies fails:   *)
(* the positions are not looked at.                                        *)
Abort ==
  \E c \in DOMAIN restores :
    /\ Fault /\ restores[c].phase = "strategies"
    /\ restores' = SubSeq(restores, 1, c - 1) \o SubSeq(restores, c + 1, Len(restores))
    /\ lost' = IF c = Len(restores) THEN Options ELSE lost
    /\ UNCHANGED <<process, feed, cached, position, requests>>

-----------------------------------------------------------------------------
(* Requests of other daemons, which a gateway that is down misses; the     *)
(* listener handles one after the other.  The publishers of the repository *)
(* send "NFO|symbol", which is no token and carries nothing; the other     *)
(* forms are those the listener documents.                                 *)
Ask ==
  /\ Fault /\ process = "running"
  /\ \E s \in Options, do \in {"raw", "subscribe", "unsubscribe"} :
       requests' = Append(requests, [do |-> do, symbol |-> s])
  /\ UNCHANGED <<process, feed, restores, cached, position, lost>>

Handle ==
  /\ requests # << >>
  /\ LET r == Head(requests)
     IN  \/ r.do = "raw" /\ session = "open" /\ UNCHANGED <<carries, cached>>
         \/ r.do = "subscribe" /\ Subscribe(r.symbol)
         \/ /\ r.do = "unsubscribe" /\ session = "open"
            /\ carries' = carries \ {r.symbol} /\ cached' = cached \cup {r.symbol}
         \/ r.do # "raw" /\ ~Resolved(r.symbol) /\ UNCHANGED <<carries, cached>>
  /\ requests' = Tail(requests)
  /\ UNCHANGED <<process, session, restores, stale, position, lost, budget>>

Fill ==
  /\ Fault
  /\ \E s \in Options, p \in {"flat", "long", "short"} : position' = [position EXCEPT ![s] = p]
  /\ UNCHANGED <<process, feed, restores, cached, requests, lost>>

-----------------------------------------------------------------------------
(* The watchdog closes the session when an index is stale; all count as    *)
(* fresh again.  A session is opened again before they are stale, or that  *)
(* is a fault.                                                             *)
Age ==
  /\ \/ session = "open" /\ budget' = budget
     \/ session = "opening" /\ Fault
  /\ \E s \in Core \ (carries \cup stale) : stale' = stale \cup {s}
  /\ UNCHANGED <<process, session, carries, restores, cached, position, requests, lost>>

Tick ==
  /\ process = "running"
  /\ \E s \in Core \cap carries : stale' = stale \ {s}
  /\ UNCHANGED <<process, session, carries, restores, cached, position, requests, lost, budget>>

(* Fault: only a session that is not open is opened again.                 *)
Reset_Lost == IF session = "open" THEN session ELSE "opening"
Reset == "opening"

Watchdog ==
  /\ stale # {}
  /\ stale' = {}
  /\ session' = Reset /\ carries' = IF session' = "open" THEN carries ELSE {}
  /\ UNCHANGED <<process, restores, cached, position, requests, lost, budget>>

Next ==
  \/ Login \/ Crash \/ Open \/ Drop
  \/ Restore \/ NotFound \/ Skip \/ Positions \/ Done \/ Abort
  \/ Ask \/ Handle \/ Fill
  \/ Age \/ Tick \/ Watchdog

Spec == Init /\ [][Next]_vars

(* The process runs, the library opens the session again, the coroutines   *)
(* and the listener are scheduled, time passes.                            *)
FairSpec ==
  /\ Spec
  /\ WF_vars(Login) /\ WF_vars(Open) /\ WF_vars(Restore) /\ WF_vars(Positions) /\ WF_vars(Done)
  /\ WF_vars(Handle) /\ WF_vars(Age) /\ WF_vars(Watchdog)

-----------------------------------------------------------------------------
(* After each opening, a position the broker reports is carried again,     *)
(* however the session drops meanwhile, whatever else is restored and      *)
(* whatever fails at another position, when the master file knows its      *)
(* symbol: only an exception at that position, or one that ends the        *)
(* coroutine before it comes to positions, leaves it out (open_callback,   *)
(* "Reboot Integrity").                                                    *)
HeldRestored ==
  \A s \in Listed :
    (session = "opening" /\ position[s] # "flat")
      ~> (s \in carries \/ position[s] = "flat" \/ s \in lost)

(* The indices come back after every drop and every silent stall.          *)
CoreRecovers == (process = "running" /\ carries = {}) ~> (Core \subseteq carries)
=============================================================================
