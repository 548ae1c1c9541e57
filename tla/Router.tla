------------------------------- MODULE Router -------------------------------
(***************************************************************************)
(* The meta router (daemons/meta_router.py): one worker that decides the   *)
(* raw intents, a listener that keeps the signals of the veto matrix in    *)
(* memory, and the two wallets the worker reserves margin in.              *)
(*                                                                         *)
(* Every await of the worker lets the listener and the other users of the  *)
(* wallets run.  What others hold in a wallet is chosen where the worker   *)
(* reads it.  Lots are counted in base lots of the index.  The stress test *)
(* is left out: nobody writes the positions it is computed from, so it     *)
(* passes always; so is the reading of the queue, which hands over one     *)
(* intent after the other.                                                 *)
(***************************************************************************)
EXTENDS Integers

CONSTANTS
  Signals,    \* signals of the veto matrix that the listener copies from Redis
  Early,      \* those whose gates come before the one that asks Redis (vpin, asto)
  Lots,       \* base lots of an intent after the decay of its signal
  Unit,       \* margin of one base lot
  Cash,       \* margin in each wallet
  Others,     \* sums other traders may hold in a wallet
  MaxFaults   \* bound of the model: exceptions

(* What the parameters may be; the modules that compose this one assume it.*)
Parameters ==
  /\ Early \subseteq Signals
  /\ Lots \subseteq Nat /\ Unit \in Nat \ {0} /\ Cash \in Nat
  /\ Others \subseteq 0..Cash /\ MaxFaults \in Nat

Wallets == {"ACTUAL", "PAPER"}

VARIABLES
  redis,    \* the signals that are bad in Redis
  cache,    \* what the process copied: bad signals, gates switched on, the halt
  pulse,    \* the signals the listener has still to read in this pulse
  worker,   \* the intent in work
  held,     \* margin this router reserved, by wallet
  sent,     \* margin of the orders sent, by wallet; lots sent live
  ghost,    \* vetoes the router must know, and knew when it began to
            \* judge the intent in work; margin lost to exceptions
  left      \* exceptions the bound still allows

vars == <<redis, cache, pulse, worker, held, sent, ghost, left>>

(* mode: "live", "paper", or "shadow": a record and nothing else; veto:    *)
(* whether a gate closed so far.                                           *)
Idle == [pc |-> "get", lots |-> 0, mode |-> "paper", veto |-> FALSE, taken |-> 0]
None == [w \in Wallets |-> 0]

Init ==
  /\ redis = {}
  /\ cache = [bad |-> {}, gates |-> Signals, halt |-> FALSE]
  /\ pulse = {} /\ worker = Idle
  /\ held = None
  /\ sent = [margin |-> None, live |-> 0]
  /\ ghost = [stood |-> {}, known |-> {}, since |-> {}, lost |-> None]
  /\ left = MaxFaults

-----------------------------------------------------------------------------
(* The watchers write the signals; the listener reads them one by one, in  *)
(* a pulse for each message of the market state.                           *)

Signal(s) ==
  /\ redis' = IF s \in redis THEN redis \ {s} ELSE redis \cup {s}
  /\ ghost' = [ghost EXCEPT !.stood = @ \cap redis', !.known = @ \cap redis',
                            !.since = @ \cap redis']
  /\ UNCHANGED <<cache, pulse, worker, held, sent, left>>

Pulse ==
  /\ pulse = {}
  /\ pulse' = Signals
  /\ ghost' = [ghost EXCEPT !.stood = redis]
  /\ UNCHANGED <<redis, cache, worker, held, sent, left>>

(* Fault: one slot for all signals: the last one read stands for them. *)
Copied_Last(s) == redis \cap {s}

Copied(s) == IF s \in redis THEN cache.bad \cup {s} ELSE cache.bad \ {s}

Read(s) ==
  /\ s \in pulse
  /\ cache' = [cache EXCEPT !.bad = Copied(s)]
  /\ pulse' = pulse \ {s}
  /\ ghost' = IF pulse = {s} THEN [ghost EXCEPT !.known = @ \cup ghost.stood] ELSE ghost
  /\ UNCHANGED <<redis, worker, held, sent, left>>

(* A value that is no number ends the pulse: the rest keeps its old value. *)
Break ==
  /\ pulse # {} /\ left > 0
  /\ left' = left - 1 /\ pulse' = {}
  /\ UNCHANGED <<redis, cache, worker, held, sent, ghost>>

-----------------------------------------------------------------------------
(* The worker takes the market state and the regime it holds now, which    *)
(* the gates judge later.                                                  *)
Get ==
  /\ worker.pc = "get"
  /\ \E toxic \in BOOLEAN : worker' = [worker EXCEPT !.pc = "sync", !.veto = toxic]
  /\ UNCHANGED <<redis, cache, pulse, held, sent, ghost, left>>

(* The halt and then the gates, unless they are less than five seconds     *)
(* old; an exception before or between them is logged, and the intent goes *)
(* on with what the cache holds.                                           *)
Sync ==
  /\ worker.pc = "sync"
  /\ worker' = [worker EXCEPT !.pc = "log"]
  /\ \/ UNCHANGED cache
     \/ \E halt \in BOOLEAN : cache' = [cache EXCEPT !.halt = halt]
     \/ \E halt \in BOOLEAN, gates \in {Signals, {}} :
          cache' = [cache EXCEPT !.halt = halt, !.gates = gates]
  /\ UNCHANGED <<redis, pulse, held, sent, ghost, left>>

Closed(signals) == signals \cap cache.bad \cap cache.gates # {}

(* The shadow record is out: the decay, and the gates up to the one that   *)
(* asks Redis for the regimes of all indices.                              *)
FirstGates ==
  /\ worker.pc = "log"
  /\ \E n \in Lots :
       worker' = [worker EXCEPT !.pc = "gates", !.lots = n,
                                !.veto = @ \/ cache.halt \/ Closed(Early)]
  /\ ghost' = [ghost EXCEPT !.since = ghost.known]
  /\ UNCHANGED <<redis, cache, pulse, held, sent, left>>

(* The regimes are there: that gate and the rest of them.                  *)
LastGates ==
  /\ worker.pc = "gates"
  /\ \E fracture \in BOOLEAN :
       worker' = [worker EXCEPT !.pc = "toggle",
                                !.veto = @ \/ fracture \/ Closed(Signals \ Early)]
  /\ UNCHANGED <<redis, cache, pulse, held, sent, ghost, left>>

(* The live toggle of the strategy is there: the truth matrix.             *)
Judge ==
  /\ worker.pc = "toggle"
  /\ \E toggle \in BOOLEAN :
       worker' = [worker EXCEPT !.pc = "scale",
                                !.mode = CASE toggle /\ ~worker.veto -> "live"
                                           [] cache.halt             -> "shadow"
                                           [] OTHER                  -> "paper"]
  /\ UNCHANGED <<redis, cache, pulse, held, sent, ghost, left>>

(* A live order is shrunk to what is free; if that is less than a fifth of *)
(* what it needs it is not live any more.                                  *)
Scale ==
  /\ worker.pc = "scale"
  /\ \E n \in Others :
       LET need == worker.lots * Unit
           free == Cash - held["ACTUAL"] - n
       IN /\ free >= 0
          /\ worker' = IF worker.mode = "live" /\ need > free /\ free > 0
                       THEN [worker EXCEPT !.pc = "reserve", !.lots = free \div Unit,
                                           !.mode = IF 5 * free < need THEN "paper" ELSE @]
                       ELSE [worker EXCEPT !.pc = "reserve"]
  /\ UNCHANGED <<redis, cache, pulse, held, sent, ghost, left>>

Wallet == IF worker.mode = "live" THEN "ACTUAL" ELSE "PAPER"
Need   == worker.lots * Unit

Granted(others) == Need + held[Wallet] + others <= Cash

(* Fault: the refused order is sent with the margin it asked for. *)
Refused_Booked ==
  IF worker.mode = "live" THEN Idle
  ELSE [worker EXCEPT !.pc = "enrich", !.mode = "shadow", !.taken = Need]

(* A live order without margin ends here; another one goes on as a record. *)
Refused ==
  IF worker.mode = "live" THEN Idle ELSE [worker EXCEPT !.pc = "enrich", !.mode = "shadow"]

Reserve ==
  /\ worker.pc = "reserve"
  /\ \/ /\ worker.lots = 0
        /\ worker' = Idle /\ UNCHANGED held
     \/ \E others \in Others :
          /\ worker.lots > 0 /\ held[Wallet] + others <= Cash
          /\ IF Granted(others)
             THEN /\ worker' = [worker EXCEPT !.pc = "enrich", !.taken = Need]
                  /\ held' = [held EXCEPT ![Wallet] = @ + Need]
             ELSE worker' = Refused /\ UNCHANGED held
  /\ UNCHANGED <<redis, cache, pulse, sent, ghost, left>>

(* Strikes, expiry and subscriptions of the legs; then the order is sent.  *)
Dispatch ==
  /\ worker.pc = "enrich"
  /\ sent' = [margin |-> [sent.margin EXCEPT ![Wallet] = @ + worker.taken],
              live   |-> sent.live + (IF worker.mode = "live" THEN worker.lots ELSE 0)]
  /\ worker' = Idle
  /\ UNCHANGED <<redis, cache, pulse, held, ghost, left>>

(* An exception: the worker drops the intent, and with it the margin.      *)
Drop ==
  /\ worker.pc # "get" /\ left > 0
  /\ left' = left - 1
  /\ worker' = Idle
  /\ ghost' = [ghost EXCEPT !.lost[Wallet] = @ + worker.taken]
  /\ UNCHANGED <<redis, cache, pulse, held, sent>>

-----------------------------------------------------------------------------
Next ==
  \/ \E s \in Signals : Signal(s) \/ Read(s)
  \/ Pulse \/ Break
  \/ Get \/ Sync \/ FirstGates \/ LastGates \/ Judge \/ Scale \/ Reserve \/ Dispatch \/ Drop

Spec == Init /\ [][Next]_vars

-----------------------------------------------------------------------------
(* Properties.                                                             *)

(* The states of the router; no wallet holds more than its cash.           *)
TypeOK ==
  /\ redis \subseteq Signals /\ pulse \subseteq Signals
  /\ cache \in [bad : SUBSET Signals, gates : SUBSET Signals, halt : BOOLEAN]
  /\ worker \in [pc : {"get", "sync", "log", "gates", "toggle", "scale", "reserve", "enrich"},
                 lots : Nat, mode : {"live", "paper", "shadow"}, veto : BOOLEAN, taken : Nat]
  /\ held \in [Wallets -> 0..Cash]
  /\ sent \in [margin : [Wallets -> Nat], live : Nat]
  /\ ghost \in [stood : SUBSET Signals, known : SUBSET Signals, since : SUBSET Signals,
                lost : [Wallets -> Nat]]
  /\ left \in Nat

(* The margin the router took is the margin of the orders it sent, the one *)
(* in work included, and what exceptions lost: no path but an exception    *)
(* leaks any.                                                              *)
HeldIsSent ==
  \A w \in Wallets :
    held[w] = sent.margin[w] + (IF Wallet = w THEN worker.taken ELSE 0) + ghost.lost[w]

(* All live orders together never need more than the live wallet: each one *)
(* holds the margin of the lots it was sent with, after every shrinking.   *)
LiveIsFunded == sent.live * Unit = sent.margin["ACTUAL"]

(* No margin is lost or made up between the wallets and the orders.        *)
MarginAccounted == HeldIsSent /\ LiveIsFunded

(* A signal that stood bad in Redis through a whole pulse of the listener, *)
(* is bad still when the first gate of an intent is read and ever since,   *)
(* keeps the intent from being live until its order is sent, if its gate   *)
(* is on: whatever pulse breaks off or begins while the worker waits for   *)
(* the shadow record, the regimes, the toggle and the wallet.              *)
VetoHolds == worker.mode = "live" => ghost.since \cap cache.gates = {}
=============================================================================
