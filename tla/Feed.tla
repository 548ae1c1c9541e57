-------------------------------- MODULE Feed --------------------------------
(***************************************************************************)
(* The fast lane of the market data (daemons/tick_sensor.py): one broker   *)
(* websocket, the loop that logs in and takes the ticks, the watchdog that *)
(* resets a stalled feed, and the subscriptions SnapshotManager asks for   *)
(* (daemons/snapshot_manager.py).                                          *)
(*                                                                         *)
(* Time is kept by what can become stale when: an index (two seconds) also *)
(* while the loop rests for five; any other symbol (ten) only in an open   *)
(* session that does not carry it, or while logins fail.  A symbol that is *)
(* subscribed ticks often enough.  The market is open.                     *)
(*                                                                         *)
(* The positions of the broker are never subscribed: on_open asks for them *)
(* on self.loop, which no line of the class sets, and raises after the     *)
(* base symbols; the library (not in the repository) is taken to log what  *)
(* its callback raises and to keep the session.                            *)
(***************************************************************************)
EXTENDS Naturals

CONSTANTS
  Core,      \* the indices
  Stocks,    \* the other symbols every session subscribes
  Options,   \* symbols subscribed on demand
  MaxFaults  \* bound of the model: drops, stalls, failed logins; moves of the market

(* What the parameters may be; the modules that compose this one assume it.*)
Parameters == MaxFaults \in Nat

Base    == Core \cup Stocks
Symbols == Base \cup Options

VARIABLES
  loop,       \* where _tick_iterator is
  reconnect,  \* _ws_reconnect_flag
  socket,     \* the session of self.api: its state and what it carries
  orphans,    \* what sessions still carry that self.api forgot
  active,     \* options in active_tokens
  last,       \* _last_tick_ts, against the threshold of the symbol
  throttled,  \* the last alert for an index is younger than 30 seconds
  window,     \* strikes near the spot
  left        \* faults and moves the bound still allows

vars == <<loop, reconnect, socket, orphans, active, last, throttled, window, left>>

Session(state) == [state |-> state, carries |-> {}]
Flowing == socket.carries \cup orphans

(* What the watchdog would reset the session for, on one of its sweeps.    *)
Stalled == {s \in Symbols : last[s] = "stale" /\ (s \in Core => ~throttled)}

Init ==
  /\ loop = "login" /\ reconnect = FALSE
  /\ socket = Session("none") /\ orphans = {}
  /\ active = {}
  /\ last = [s \in Symbols |-> "none"]
  /\ throttled = FALSE
  /\ window \in SUBSET Options
  /\ left = MaxFaults

-----------------------------------------------------------------------------
(* The loop: log in, take ticks until the flag is seen, rest for five      *)
(* seconds: several sweeps of the watchdog, and too long for an index.     *)

(* A new session replaces the one before, closed or not.                   *)
Login ==
  /\ loop = "login"
  /\ loop' = "ingest"
  /\ socket' = Session("opening")
  /\ orphans' = Flowing
  /\ UNCHANGED <<reconnect, active, last, throttled, window, left>>

(* Five tries with growing pauses, ten seconds more, and again.            *)
LoginFails ==
  /\ loop = "login" /\ left > 0
  /\ left' = left - 1
  /\ last' = [s \in Symbols |-> IF last[s] = "fresh" THEN "stale" ELSE last[s]]
  /\ UNCHANGED <<loop, reconnect, socket, orphans, active, throttled, window>>

(* Fault: the flag is cleared and the loop goes on.                        *)
Notice_Stays ==
  /\ loop = "ingest" /\ reconnect
  /\ reconnect' = FALSE
  /\ UNCHANGED <<loop, socket, orphans, active, last, throttled, window, left>>

Notice ==
  /\ loop = "ingest" /\ reconnect
  /\ loop' = "rest" /\ reconnect' = FALSE
  /\ UNCHANGED <<socket, orphans, active, last, throttled, window, left>>

Rest ==
  /\ loop = "rest" /\ Stalled = {} /\ \A s \in Core : last[s] # "fresh"
  /\ loop' = "login"
  /\ UNCHANGED <<reconnect, socket, orphans, active, last, throttled, window, left>>

(* A tick of a symbol without an entry in active_tokens is thrown away.    *)
Deliver(s) ==
  /\ loop = "ingest" /\ ~reconnect
  /\ s \in Flowing /\ s \in Base \cup active
  /\ last[s] # "fresh"
  /\ last' = [last EXCEPT ![s] = "fresh"]
  /\ UNCHANGED <<loop, reconnect, socket, orphans, active, throttled, window, left>>

-----------------------------------------------------------------------------
(* The session.                                                            *)

(* The base symbols, and then the exception.                               *)
Open ==
  /\ socket.state = "opening"
  /\ socket' = [socket EXCEPT !.state = "open", !.carries = Base]
  /\ UNCHANGED <<loop, reconnect, orphans, active, last, throttled, window, left>>

(* The broker drops the session, and the library opens it again; or the    *)
(* session stays and carries nothing any more.                             *)
Break ==
  /\ socket.state = "open" /\ left > 0
  /\ left' = left - 1
  /\ \/ socket' = Session("opening")
     \/ socket' = [socket EXCEPT !.carries = {}]
  /\ UNCHANGED <<loop, reconnect, orphans, active, last, throttled, window>>

-----------------------------------------------------------------------------
(* The watchdog.                                                           *)

Age(s) ==
  /\ last[s] = "fresh"
  /\ IF s \in Core THEN s \notin Flowing \/ loop = "rest"
     ELSE s \notin Flowing /\ socket.state = "open" /\ loop = "ingest" /\ ~reconnect
  /\ last' = [last EXCEPT ![s] = "stale"]
  /\ UNCHANGED <<loop, reconnect, socket, orphans, active, throttled, window, left>>

Unthrottle ==
  /\ throttled /\ loop = "ingest" /\ ~reconnect /\ socket.state = "open"
  /\ \A s \in Core \cap Flowing : last[s] # "stale"
  /\ throttled' = FALSE
  /\ UNCHANGED <<loop, reconnect, socket, orphans, active, last, window, left>>

Closed == Session("closed")

(* One sweep resets the session for each stalled symbol, and each counts   *)
(* as fresh again; after the first index the others are throttled.         *)
Sweep ==
  /\ Stalled # {}
  /\ \E s \in Stalled :
       /\ last' = [x \in Symbols |-> IF x = s \/ x \in Stalled \ Core THEN "fresh" ELSE last[x]]
       /\ throttled' = (throttled \/ s \in Core)
  /\ reconnect' = TRUE
  /\ socket' = Closed
  /\ UNCHANGED <<loop, orphans, active, window, left>>

-----------------------------------------------------------------------------
(* SnapshotManager: every minute the strikes near the spot, one message    *)
(* each, whether asked for before or not; a session that is not open       *)
(* misses them.  The spot moves.                                           *)

(* Fault: what was asked for once is not asked for again.                  *)
Wanted_New == window \ active
Wanted == window

Scan ==
  /\ active' = active \cup Wanted
  /\ socket' = IF socket.state = "open" THEN [socket EXCEPT !.carries = @ \cup Wanted] ELSE socket
  /\ UNCHANGED <<loop, reconnect, orphans, last, throttled, window, left>>

Move ==
  /\ left > 0
  /\ left' = left - 1
  /\ window' \in SUBSET Options
  /\ UNCHANGED <<loop, reconnect, socket, orphans, active, last, throttled>>

-----------------------------------------------------------------------------
Next ==
  \/ Login \/ LoginFails \/ Notice \/ Rest \/ Open \/ Break
  \/ Unthrottle \/ Sweep \/ Scan \/ Move
  \/ \E s \in Symbols : Deliver(s) \/ Age(s)

Spec == Init /\ [][Next]_vars

(* Time passes, the loop runs; a scan, once a minute, sooner or later      *)
(* comes while the session is open and no option is stale yet: the minute  *)
(* and the cycle of the resets have no common period.                      *)
Timely == Scan /\ socket.state = "open" /\ \A s \in Options : last[s] # "stale"

FairSpec ==
  /\ Spec
  /\ WF_vars(Login) /\ WF_vars(Notice) /\ WF_vars(Rest) /\ WF_vars(Open)
  /\ WF_vars(Unthrottle) /\ WF_vars(Sweep) /\ SF_vars(Timely)
  /\ \A s \in Symbols : WF_vars(Deliver(s)) /\ WF_vars(Age(s))

-----------------------------------------------------------------------------
(* Properties.                                                             *)

(* An index that ticked before ticks again, whatever the broker drops and  *)
(* however many logins fail.                                               *)
Recovers ==
  \A s \in Core : (last[s] # "none" /\ s \notin Flowing) ~> s \in Flowing

(* Resets come to an end: if in the end every option that ever ticked is   *)
(* near the spot, the sensor stops resetting and takes ticks.  An option   *)
(* that is not, a held position too, is asked for by nobody after the      *)
(* first reset, and its silence resets the feed for ever.                  *)
Settles ==
  <>[](\A s \in Options : last[s] # "none" => s \in window)
    => <>[](loop = "ingest" /\ ~reconnect)
=============================================================================
