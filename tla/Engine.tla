------------------------------- MODULE Engine -------------------------------
(***************************************************************************)
(* The strategy engine (daemons/strategy_engine.py) with its registry of   *)
(* knights (daemons/registry.py), the snapshot it hands them               *)
(* (daemons/signal_dispatcher.py) and what the knights answer              *)
(* (core/strategy/*.py): from a tick to the order messages on Ports.ORDERS.*)
(*                                                                         *)
(* One coroutine handles tick after tick; it awaits the configuration, the *)
(* flags in Redis, and for every single leg the slippage flag, the margin  *)
(* script, the socket and the hash pending_orders.  A second coroutine     *)
(* takes commands in between.  Prices and signals are inputs: a knight may *)
(* give any answer its code can give; the alpha score is kept, as it is    *)
(* what the legs of a basket are vetoed on.  Which ticks reach the loop is *)
(* the subject of the module Feed.                                         *)
(***************************************************************************)
EXTENDS Integers, FiniteSets, SequencesExt

CONSTANTS
  Knights,    \* strategies that may be configured
  Kind,       \* what each of them is: "condor", "credit", "butterfly", "elastic", "kinetic",
              \* "gamma"
  Symbols,    \* symbols with ticks; every knight trades all of them
  MaxFaults   \* bound of the model: exceptions and crashes

Kinds == {"condor", "credit", "butterfly", "elastic", "kinetic", "gamma"}

ASSUME KindAssumption  == Kind \in [Knights -> Kinds]
ASSUME FaultAssumption == MaxFaults \in Nat

Leg(act, ot) == [act |-> act, ot |-> ot]

Spread(ot)  == << Leg("SELL", ot), Leg("BUY", ot) >>
Single(act) == << Leg(act, "-") >>

(* What each knight asks for when its conditions hold.                     *)
IronCondor    == { << Leg("BUY", "PE"), Leg("SELL", "PE"), Leg("SELL", "CE"), Leg("BUY", "CE") >> }
ExtremeTrend  == { Single("HEDGE"), Single("TRAP") }
CreditSpread  == { Spread("PE"), Spread("CE") }
ZeroDte       == { Spread("CE") \o Spread("PE") }
KineticHunter == { Single("BUY"), Single("SELL") }
ElasticHunter == { Single("SELL"), Single("BUY") }
GammaScalper  == { Single("BUY"), Single("SELL") }

Whole(kind) ==
  CASE kind = "condor"    -> IronCondor \cup ExtremeTrend
    [] kind = "credit"    -> CreditSpread
    [] kind = "butterfly" -> ZeroDte
    [] kind = "kinetic"   -> KineticHunter
    [] kind = "elastic"   -> ElasticHunter
    [] kind = "gamma"     -> GammaScalper

VARIABLES
  redis,   \* active_strategies; MACRO_EVENT_LOCKDOWN or HALT_KINETIC is set
  loaded,  \* active_knights, in the order in which they were loaded
  off,     \* knights whose strategy_states entry says inactive
  cache,   \* flags and VWAPs of the dispatcher, and whether they are younger than 5 s
  loop,    \* the tick loop, the orders it has still to send, the one it is sending
  basket,  \* ghost: what each knight asked for last, what of it was sent and recorded
  ghost,   \* ghost: strategies told to stop; a ban that stood when the cache last expired
  left     \* exceptions and crashes the bound still allows

vars == <<redis, loaded, off, cache, loop, basket, ghost, left>>

Alphas == {"low", "calm", "high"}       \* below -20, between, above 20
Resting == [pc |-> "wait", orders |-> {}, now |-> {}, config |-> TRUE]
NoBasket == [legs |-> << >>, sent |-> {}, noted |-> {}, marred |-> FALSE]

Init ==
  /\ redis = [config |-> [k \in Knights |-> "absent"], ban |-> FALSE]
  /\ loaded = << >> /\ off = {}
  /\ cache = [banned |-> FALSE, vwap |-> {}, fresh |-> FALSE]
  /\ loop = Resting
  /\ basket = [k \in Knights |-> NoBasket]
  /\ ghost = [muted |-> {}, banned |-> FALSE]
  /\ left = MaxFaults

-----------------------------------------------------------------------------
(* What other processes and the operator write.                            *)

(* While orders are sent, nothing of this is read: such steps commute with *)
(* the sending and are taken in the next tick.                             *)
Listening == loop.pc \in {"config", "cache"}

Configure(k, c) ==
  /\ Listening /\ redis.config[k] # c
  /\ redis' = [redis EXCEPT !.config[k] = c]
  /\ UNCHANGED <<loaded, off, cache, loop, basket, ghost, left>>

(* The macro watcher sets and lifts its lockdown.  (HALT_KINETIC is set at *)
(* 15:00 and lifted by nobody.)                                            *)
Ban ==
  /\ Listening
  /\ redis' = [redis EXCEPT !.ban = ~@]
  /\ ghost' = [ghost EXCEPT !.banned = FALSE]
  /\ UNCHANGED <<loaded, off, cache, loop, basket, left>>

(* Five seconds since the last refresh, two since the last configuration.  *)
CacheAges ==
  /\ Listening
  /\ cache' = [cache EXCEPT !.fresh = FALSE]
  /\ ghost' = [ghost EXCEPT !.banned = redis.ban]
  /\ UNCHANGED <<redis, loaded, off, loop, basket, left>>
ConfigAges ==
  /\ Listening
  /\ loop' = [loop EXCEPT !.config = TRUE]
  /\ UNCHANGED <<redis, loaded, off, cache, basket, ghost, left>>

-----------------------------------------------------------------------------
(* Commands and configuration.                                             *)

Addressed(target) == IF target = "ALL" THEN Range(loaded) ELSE {target}

Command(target, active) ==
  /\ Listening
  /\ off' = IF active THEN off \ Addressed(target) ELSE off \cup Addressed(target)
  /\ ghost' = [ghost EXCEPT !.muted = IF active THEN @ \ Addressed(target)
                                      ELSE @ \cup Addressed(target)]
  /\ UNCHANGED <<redis, loaded, cache, loop, basket, left>>

Keep(P) == SelectSeq(loaded, LAMBDA k : k \in P)
Configured(c) == {k \in Knights : redis.config[k] = c}

(* Fault: a strategy that vanished from the hash is kept. *)
After_Stale(done, complete) ==
  LET kept == Keep(Knights \ (done \cap Configured("off"))) IN
  {kept \o add : add \in SetToSeqs((done \cap Configured("on")) \ Range(kept))}

(* What active_knights becomes when the entries in done were handled, and  *)
(* if the pass is complete, what is not in the hash was unloaded.          *)
After(done, complete) ==
  LET gone == IF complete THEN Configured("absent") ELSE {}
      kept == Keep(Knights \ ((done \cap Configured("off")) \cup gone))
  IN {kept \o add : add \in SetToSeqs((done \cap Configured("on")) \ Range(kept))}

(* An entry that is no JSON ends the pass where it stands.                 *)
SyncConfig ==
  /\ loop.pc = "config"
  /\ LET present == Knights \ Configured("absent") IN
     \/ loaded' \in After(present, TRUE) /\ UNCHANGED left
     \/ /\ left > 0 /\ left' = left - 1
        /\ \E done \in SUBSET present : loaded' \in After(done, FALSE)
  /\ loop' = [loop EXCEPT !.pc = "cache", !.config = FALSE]
  /\ UNCHANGED <<redis, off, cache, basket, ghost>>

-----------------------------------------------------------------------------
(* One tick.                                                               *)

Tick ==
  /\ loop.pc = "wait"
  /\ loop' = [loop EXCEPT !.pc = IF loop.config THEN "config" ELSE "cache"]
  /\ basket' = [k \in Knights |-> NoBasket]
  /\ UNCHANGED <<redis, loaded, off, cache, ghost, left>>

(* Fault: the flags are not read when the symbol has its VWAP. *)
Refreshed_Vwap(s) ==
  IF cache.fresh THEN cache
  ELSE [banned |-> IF s \in cache.vwap THEN cache.banned ELSE redis.ban,
        vwap |-> cache.vwap \cup {s}, fresh |-> TRUE]

(* One time stamp for all symbols: only the symbol of this tick gets a     *)
(* VWAP.  Nobody writes the key, so the value is 0.                        *)
Refreshed(s) ==
  IF cache.fresh THEN cache
  ELSE [banned |-> redis.ban, vwap |-> cache.vwap \cup {s}, fresh |-> TRUE]

(* The veto of one leg: a rising market is not sold, a falling one not     *)
(* bought, leg by leg.                                                     *)
Passes(leg, alpha) == ~(alpha = "low" /\ leg.act = "BUY") /\ ~(alpha = "high" /\ leg.act = "SELL")

(* The elastic knight exits at the VWAP, which is the price itself as long *)
(* as the cache has none; nothing asks whether it holds a position, and    *)
(* the vetoes are not applied.                                             *)
Exits(k, s) == Kind[k] = "elastic" /\ s \notin Refreshed(s).vwap

(* What a knight says: the legs it asks for, and those that pass the veto. *)
Said(legs, alpha) == [legs |-> legs, passed |-> {n \in DOMAIN legs : Passes(legs[n], alpha)}]
Silence == [legs |-> << >>, passed |-> {}]

Answers(k, s, alpha) ==
  IF Exits(k, s) THEN {[legs |-> Single("SELL"), passed |-> {1}]}
  ELSE {Said(legs, alpha) : legs \in Whole(Kind[k])}

Orders(k, said) == {[k |-> k, n |-> n] : n \in said.passed}

(* Fault: a strategy without a command since it was loaded is asked. *)
Asked_Loaded == {k \in Range(loaded) : k \notin off \/ basket[k] = NoBasket}

(* The knights that are asked; regime, schedule and signals are inputs.    *)
Asked == {k \in Range(loaded) : k \notin off}

Evaluate ==
  /\ loop.pc = "cache"
  /\ \E alpha \in Alphas, s \in Symbols :
       /\ cache' = Refreshed(s)
       /\ \E said \in [Knights -> UNION {Answers(k, s, alpha) : k \in Knights} \cup {Silence}] :
            /\ \A k \in Knights : said[k] \in IF k \in Asked /\ ~cache'.banned
                                               THEN Answers(k, s, alpha) \cup {Silence} ELSE {Silence}
            /\ LET list == UNION {Orders(k, said[k]) : k \in Knights} IN
               loop' = [loop EXCEPT !.orders = list, !.pc = IF list = {} THEN "wait" ELSE "guard"]
            /\ basket' = [k \in Knights |-> [legs |-> said[k].legs, sent |-> {}, noted |-> {},
                                             marred |-> said[k].passed # DOMAIN said[k].legs]]
  /\ UNCHANGED <<redis, loaded, off, ghost, left>>

-----------------------------------------------------------------------------
(* One order after the other.                                              *)

(* Knight by knight in the order of active_knights, leg by leg.            *)
Place(k) == CHOOSE i \in DOMAIN loaded : loaded[i] = k
Precedes(o, p) == Place(o.k) < Place(p.k) \/ (o.k = p.k /\ o.n < p.n)
Foremost == {o \in loop.orders : \A p \in loop.orders \ {o} : Precedes(o, p)}

Act(o) == basket[o.k].legs[o.n].act
Advanced(o) == [loop EXCEPT !.orders = @ \ {o}, !.now = {},
                            !.pc = IF loop.orders = {o} THEN "wait" ELSE "guard"]
Mar(k) == [basket EXCEPT ![k].marred = TRUE]

(* Hedge requests and trap alerts go elsewhere and are not recorded.       *)
Special ==
  /\ loop.pc = "guard"
  /\ \E o \in Foremost :
       /\ Act(o) \in {"HEDGE", "TRAP"}
       /\ loop' = Advanced(o)
       /\ basket' = [basket EXCEPT ![o.k].sent = @ \cup {o.n}, ![o.k].noted = @ \cup {o.n}]
  /\ UNCHANGED <<redis, loaded, off, cache, ghost, left>>

(* Fault: a slippage halt ends the loop over the orders. *)
Blocked_Ends(o) == [loop EXCEPT !.orders = {}, !.pc = "wait"]
Blocked(o) == Advanced(o)

(* The slippage flag is asked for every leg.  The margin of a bought leg   *)
(* is asked for too; a refusal is a negative number, which is true, so     *)
(* the answer changes nothing.                                             *)
Guard ==
  /\ loop.pc = "guard"
  /\ \E o \in Foremost :
       /\ Act(o) \in {"BUY", "SELL"}
       /\ \/ loop' = Blocked(o) /\ basket' = Mar(o.k)
          \/ loop' = [loop EXCEPT !.pc = "send", !.now = {o}] /\ UNCHANGED basket
  /\ UNCHANGED <<redis, loaded, off, cache, ghost, left>>

Send ==
  /\ loop.pc = "send"
  /\ \E o \in loop.now : basket' = [basket EXCEPT ![o.k].sent = @ \cup {o.n}]
  /\ loop' = [loop EXCEPT !.pc = "note"]
  /\ UNCHANGED <<redis, loaded, off, cache, ghost, left>>

Note ==
  /\ loop.pc = "note"
  /\ \E o \in loop.now :
       /\ loop' = Advanced(o)
       /\ basket' = [basket EXCEPT ![o.k].noted = @ \cup {o.n}]
  /\ UNCHANGED <<redis, loaded, off, cache, ghost, left>>

Wants(orders) == {o.k : o \in orders}

(* An exception ends the tick: the orders still in the list are gone.      *)
Marred == [k \in Knights |-> [basket[k] EXCEPT
             !.marred = @ \/ k \in Wants(loop.orders)]]

Fail ==
  /\ loop.pc # "wait" /\ left > 0
  /\ left' = left - 1
  /\ loop' = [Resting EXCEPT !.config = loop.config]
  /\ basket' = Marred
  /\ UNCHANGED <<redis, loaded, off, cache, ghost>>

Crash ==
  /\ left > 0 /\ left' = left - 1
  /\ loaded' = << >> /\ off' = {}
  /\ cache' = [banned |-> FALSE, vwap |-> {}, fresh |-> FALSE]
  /\ loop' = Resting
  /\ basket' = Marred
  /\ ghost' = [ghost EXCEPT !.muted = {}]
  /\ UNCHANGED redis

-----------------------------------------------------------------------------
Loop == SyncConfig \/ Evaluate \/ Special \/ Guard \/ Send \/ Note

Next ==
  \/ \E k \in Knights, c \in {"absent", "on", "off"} : Configure(k, c)
  \/ Ban \/ CacheAges \/ ConfigAges
  \/ \E t \in Knights \cup {"ALL"}, a \in BOOLEAN : Command(t, a)
  \/ Tick
  \/ Loop \/ Fail \/ Crash

Spec == Init /\ [][Next]_vars
FairSpec ==
  Spec /\ WF_vars(Loop) /\ WF_vars(Tick) /\ SF_vars(ConfigAges)

-----------------------------------------------------------------------------
(* Properties.                                                             *)

TypeOK ==
  /\ redis \in [config : [Knights -> {"absent", "on", "off"}], ban : BOOLEAN]
  /\ Range(loaded) \subseteq Knights /\ IsInjective(loaded)
  /\ off \subseteq Knights /\ ghost.muted \subseteq Knights
  /\ loop.pc \in {"wait", "config", "cache", "guard", "send", "note"}
  /\ loop.now \subseteq loop.orders
  /\ \A o \in loop.orders : o.n \in DOMAIN basket[o.k].legs

(* A basket whose legs all passed the veto, that met no slippage halt and  *)
(* no exception, is out completely once the engine is through with it, and *)
(* every leg is in pending_orders.                                         *)
BasketsWhole ==
  \A k \in Knights :
    k \notin Wants(loop.orders) /\ ~basket[k].marred =>
      /\ basket[k].sent = DOMAIN basket[k].legs
      /\ basket[k].noted = DOMAIN basket[k].legs

(* A strategy that was told to stop, by name or with ALL while it was      *)
(* loaded, asks for nothing until it is told to start, whatever the        *)
(* configuration unloads and loads in between, unless the engine restarts. *)
Silenced == [][Wants(loop'.orders) \cap ghost.muted \subseteq Wants(loop.orders)]_vars

(* A lockdown or a kinetic halt that stood when the cache last expired and *)
(* still stands keeps every knight silent.                                 *)
BanHonoured == [][loop.pc = "cache" /\ ghost.banned => loop'.orders = {}]_vars

(* A strategy that stays disabled in the configuration, or absent from it, *)
(* is unloaded in the end, even if single passes break off.                *)
Unloaded ==
  \A k \in Knights :
    <>[](redis.config[k] \in {"absent", "off"}) => <>[](k \notin Range(loaded))

(* A sold option is never out without the bought one of its type.          *)
NoNakedShort ==
  \A k \in Knights : loop.pc = "wait" =>
    \A n \in basket[k].sent : basket[k].legs[n].act = "SELL" /\ basket[k].legs[n].ot # "-" =>
      \E m \in basket[k].sent : basket[k].legs[m] = Leg("BUY", basket[k].legs[n].ot)
=============================================================================
