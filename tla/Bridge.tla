------------------------------- MODULE Bridge -------------------------------
(***************************************************************************)
(* daemons/unified_bridge.py: every intent of the ORDERS queue is rendered *)
(* by a task of its own (handle_intent_rendering) into three realities of  *)
(* the portfolio table; every panic message starts a task that wipes the   *)
(* table (liquidate_all_realities).  All tasks share one event loop, so an *)
(* await is where another one may go on.                                   *)
(*                                                                         *)
(* A row stands for a symbol, a strategy and a parent_uuid; with a reality *)
(* it is a primary key of the table.  The broker's side is a net position  *)
(* per row, changed when an order is accepted.                             *)
(*                                                                         *)
(* No BUY is ever booked: update_portfolio_universal calls                 *)
(* redis.decrbyfloat first, which redis-py does not have, and the          *)
(* AttributeError is none of those with_db_retry retries.  So an intent to *)
(* buy ends at its Shadow record, every row of the table is a short        *)
(* position, and a wipe, which would have to buy it back, ends at its      *)
(* first row.                                                              *)
(*                                                                         *)
(* Ghost variables: admitted (intents whose Shadow record was inserted),   *)
(* orders (intents whose order the broker took).                           *)
(***************************************************************************)
EXTENDS Integers, Sequences, FiniteSets

CONSTANTS
  Rows,         \* symbol, strategy and parent_uuid of a position
  Symbol,       \* [Rows -> symbols]
  Intents,      \* messages on the ORDERS queue
  Order,        \* [Intents -> [row, qty, lots, paper, live]]  what they ask for
  Wipers,       \* wipes that may run at a time
  Targets,      \* realities the panic messages of other processes name
  Replies,      \* what may become of an order sent to the broker
  Statuses,     \* what the broker may tell the fill audit
  BrokerIds,    \* whether the broker's order numbers can be read as UUIDs
  StartCash,    \* live intents the cash of the LIVE wallet is enough for
  MaxPanics,    \* bound of the model: panic messages of other processes
  MaxCrashes    \* bound of the model: crashes of the bridge

Realities == {"Shadow", "Paper", "Actual"}
Symbols   == {Symbol[r] : r \in Rows}

ASSUME SymbolAssumption == DOMAIN Symbol = Rows
ASSUME OrderAssumption  ==
  Order \in [Intents -> [row : Rows, qty : Int \ {0}, lots : BOOLEAN,
                         paper : BOOLEAN, live : BOOLEAN]]
ASSUME TargetAssumption == Targets \subseteq {"ALL", "Paper", "Live", "Actual"}
ASSUME ReplyAssumption  ==
  Replies \subseteq {"ok", "refused", "failed", "lost", "bounced"}
ASSUME StatusAssumption == Statuses \subseteq {"COMPLETE", "OTHER"}
ASSUME BoundAssumption  ==
  BrokerIds \subseteq BOOLEAN /\ {StartCash, MaxPanics, MaxCrashes} \subseteq Nat

VARIABLES
  rows,     \* primary keys in the portfolio table
  qty,      \* its quantity column
  net,      \* the broker's net position
  lock,     \* symbols whose key lock:{symbol} exists
  cash,     \* CASH_COMPONENT_LIVE, in margins of an intent
  halt,     \* SYSTEM_HALT
  killed,   \* is_kill_switch_triggered
  render,   \* where the task of each intent stands, and the record it read
  audit,    \* intents whose delayed_fill_audit is asleep
  wipe,     \* where each wipe stands
  panic,    \* messages in the bridge's pubsub
  admitted, orders, count

table  == <<rows, qty>>
redis  == <<lock, cash, halt>>
ghosts == <<admitted, orders>>
vars   == <<table, net, redis, killed, render, audit, wipe, panic, ghosts, count>>

Keys == Rows \X Realities
Key(i, x) == <<Order[i].row, x>>

Ended == {"done", "crashed"}
(* The stages behind the Shadow record.                                    *)
Later == {"lock", "set", "feed", "paper", "halt", "margin", "order", "book",
          "breach", "unlock"}
NoWipe == [pc |-> "idle", target |-> "ALL", todo |-> {}]

Debts == {n \in Int : n <= 0}      \* the quantity of a short position

TypeOK ==
  /\ rows \subseteq Keys
  /\ qty \in [Keys -> Debts]
  /\ net \in [Rows -> Int]
  /\ lock \subseteq Symbols
  /\ cash \in Nat
  /\ halt \in BOOLEAN /\ killed \in BOOLEAN
  /\ render \in [Intents -> [pc : {"new", "shadow"} \cup Later \cup Ended,
                             seen : BOOLEAN, old : Debts]]
  /\ audit \subseteq Intents
  /\ panic \in Seq(Targets \cup {"ALL"})
  /\ admitted \subseteq Intents /\ orders \subseteq Intents
  /\ count \in [panics : 0..MaxPanics, crashes : 0..MaxCrashes]
  /\ wipe \in [Wipers -> [pc : {"idle", "fetch", "next"},
                          target : Targets \cup {"ALL"},
                          todo : SUBSET (Keys \X Debts)]]

Init ==
  /\ rows = {} /\ qty = [k \in Keys |-> 0]
  /\ net = [r \in Rows |-> 0]
  /\ lock = {} /\ cash = StartCash /\ halt = FALSE /\ killed = FALSE
  /\ render = [i \in Intents |-> [pc |-> "new", seen |-> FALSE, old |-> 0]]
  /\ audit = {}
  /\ wipe = [w \in Wipers |-> NoWipe]
  /\ panic = <<>>
  /\ admitted = {} /\ orders = {}
  /\ count = [panics |-> 0, crashes |-> 0]

-----------------------------------------------------------------------------
(* handle_intent_rendering                                                 *)

At(i, pc)  == render[i].pc = pc
Goto(i, pc) == render' = [render EXCEPT ![i] = [pc |-> pc, seen |-> FALSE, old |-> 0]]
IfThen(b, pc) == IF b THEN pc ELSE "unlock"

(* Stage 1, of a BUY: the AttributeError ends the task.                    *)
ShadowBuy(i) ==
  /\ At(i, "new") /\ Order[i].qty > 0
  /\ Goto(i, "crashed")
  /\ UNCHANGED <<table, net, redis, killed, audit, wipe, panic, ghosts, count>>

(* Stage 1, of a SELL, reads the Shadow record, with a lock that is gone   *)
(* at once: the connection is in no transaction.                           *)
ShadowSelect(i) ==
  /\ At(i, "new") /\ Order[i].qty < 0
  /\ render' = [render EXCEPT ![i] = [pc   |-> "shadow",
                                      seen |-> Key(i, "Shadow") \in rows,
                                      old  |-> qty[Key(i, "Shadow")]]]
  /\ UNCHANGED <<table, net, redis, killed, audit, wipe, panic, ghosts, count>>

(* Fault: the insert is an upsert, and the task goes on.                   *)
ShadowInsert_Upsert(i) ==
  LET k == Key(i, "Shadow") IN
  /\ At(i, "shadow") /\ ~render[i].seen
  /\ rows' = rows \cup {k}
  /\ qty' = [qty EXCEPT ![k] = @ + Order[i].qty]
  /\ admitted' = admitted \cup {i}
  /\ Goto(i, IF Order[i].lots THEN "lock" ELSE "done")
  /\ UNCHANGED <<net, redis, killed, audit, wipe, panic, orders, count>>

(* No record was read: it is inserted, unless another task was faster and  *)
(* the primary key is violated.  The lots are looked at afterwards.        *)
ShadowInsert(i) ==
  LET k == Key(i, "Shadow") IN
  /\ At(i, "shadow") /\ ~render[i].seen
  /\ IF k \in rows
     THEN Goto(i, "crashed") /\ UNCHANGED <<table, admitted>>
     ELSE /\ rows' = rows \cup {k}
          /\ qty' = [qty EXCEPT ![k] = Order[i].qty]
          /\ admitted' = admitted \cup {i}
          /\ Goto(i, IF Order[i].lots THEN "lock" ELSE "done")
  /\ UNCHANGED <<net, redis, killed, audit, wipe, panic, orders, count>>

(* A record was read: it is updated, and the P&L aggregation that follows  *)
(* knows no Shadow total.  The KeyError ends the task.                     *)
ShadowUpdate(i) ==
  /\ At(i, "shadow") /\ render[i].seen
  /\ qty' = [qty EXCEPT ![Key(i, "Shadow")] = render[i].old + Order[i].qty]
  /\ Goto(i, "crashed")
  /\ UNCHANGED <<rows, net, redis, killed, audit, wipe, panic, ghosts, count>>

SymbolOf(i) == Symbol[Order[i].row]

CheckLock(i) ==
  /\ At(i, "lock")
  /\ Goto(i, IF SymbolOf(i) \in lock THEN "done" ELSE "set")
  /\ UNCHANGED <<table, net, redis, killed, audit, wipe, panic, ghosts, count>>

SetLock(i) ==
  /\ At(i, "set")
  /\ lock' = lock \cup {SymbolOf(i)}
  /\ Goto(i, "feed")
  /\ UNCHANGED <<table, net, cash, halt, killed, audit, wipe, panic, ghosts, count>>

(* The lock is deleted whoever set it.                                     *)
Unlock(i) ==
  /\ At(i, "unlock")
  /\ lock' = lock \ {SymbolOf(i)}
  /\ Goto(i, "done")
  /\ UNCHANGED <<table, net, cash, halt, killed, audit, wipe, panic, ghosts, count>>

(* The latest tick is stale, or it is not.                                 *)
CheckFeed(i) ==
  /\ At(i, "feed")
  /\ \/ Goto(i, "unlock")
     \/ Goto(i, IF Order[i].paper THEN "paper" ELSE IfThen(Order[i].live, "halt"))
  /\ UNCHANGED <<table, net, redis, killed, audit, wipe, panic, ghosts, count>>

(* update_portfolio_universal in a transaction: nobody gets between its    *)
(* SELECT FOR UPDATE and its write.                                        *)
Record(i, x) ==
  /\ rows' = rows \cup {Key(i, x)}
  /\ qty' = [qty EXCEPT ![Key(i, x)] = @ + Order[i].qty]

PaperFill(i) ==
  /\ At(i, "paper")
  /\ Record(i, "Paper")
  /\ Goto(i, IfThen(Order[i].live, "halt"))
  /\ UNCHANGED <<net, redis, killed, audit, wipe, panic, ghosts, count>>

CheckHalt(i) ==
  /\ At(i, "halt")
  /\ Goto(i, IfThen(~halt /\ ~killed, "margin"))
  /\ UNCHANGED <<table, net, redis, killed, audit, wipe, panic, ghosts, count>>

(* The margin script; what it takes is never given back.                   *)
TakeMargin(i) ==
  /\ At(i, "margin")
  /\ cash' = IF cash >= 1 THEN cash - 1 ELSE cash
  /\ Goto(i, IfThen(cash >= 1, "order"))
  /\ UNCHANGED <<table, net, lock, halt, killed, audit, wipe, panic, ghosts, count>>

(* place_order: refused (after the nudge), accepted, accepted but the call *)
(* raises, raising before anything is accepted (so does an answer without  *)
(* a body), or accepted and bounced by the exchange afterwards.            *)
LiveOrder(i) ==
  /\ At(i, "order")
  /\ \E reply \in Replies :
       /\ IF reply \in {"ok", "lost"}
          THEN /\ net' = [net EXCEPT ![Order[i].row] = @ + Order[i].qty]
               /\ orders' = orders \cup {i}
          ELSE UNCHANGED <<net, orders>>
       /\ Goto(i, CASE reply = "refused"            -> "unlock"
                    [] reply \in {"lost", "failed"} -> "crashed"
                    [] OTHER                        -> "book")
  /\ UNCHANGED <<table, redis, killed, audit, wipe, panic, admitted, count>>

(* Fault: the transaction is repeated when its commit went unanswered.     *)
BookFill_Repeats(i) ==
  /\ At(i, "book")
  /\ Record(i, "Actual")
  /\ \/ UNCHANGED <<audit, render>>
     \/ audit' = audit \cup {i} /\ Goto(i, "breach")
  /\ UNCHANGED <<net, redis, killed, wipe, panic, ghosts, count>>

(* The broker's order number is parsed as a UUID before anything is        *)
(* stored; the fill audit is scheduled after the transaction.              *)
BookFill(i) ==
  /\ At(i, "book")
  /\ \/ /\ TRUE \in BrokerIds
        /\ Record(i, "Actual")
        /\ audit' = audit \cup {i}
        /\ Goto(i, "breach")
     \/ /\ FALSE \in BrokerIds
        /\ Goto(i, "crashed")
        /\ UNCHANGED <<table, audit>>
  /\ UNCHANGED <<net, redis, killed, wipe, panic, ghosts, count>>

(* check_kill_switch_breach, on a daily loss this model does not compute.  *)
CheckBreach(i) ==
  /\ At(i, "breach")
  /\ Goto(i, "unlock")
  /\ \/ UNCHANGED <<halt, killed, panic>>
     \/ /\ halt' = TRUE /\ killed' = TRUE
        /\ panic' = Append(panic, "ALL")
  /\ UNCHANGED <<table, net, lock, cash, audit, wipe, ghosts, count>>

Render(i) ==
  \/ ShadowBuy(i) \/ ShadowSelect(i) \/ ShadowInsert(i) \/ ShadowUpdate(i)
  \/ CheckLock(i) \/ SetLock(i) \/ Unlock(i) \/ CheckFeed(i) \/ PaperFill(i)
  \/ CheckHalt(i) \/ TakeMargin(i) \/ LiveOrder(i) \/ BookFill(i) \/ CheckBreach(i)

(* The key of a lock has a time to live.                                   *)
Expire ==
  /\ \E s \in lock : lock' = lock \ {s}
  /\ UNCHANGED <<table, net, cash, halt, killed, render, audit, wipe, panic, ghosts,
                 count>>

-----------------------------------------------------------------------------
(* Panic                                                                   *)

(* Another process publishes SQUARE_OFF_ALL: the dashboard, the stop day   *)
(* loss of the liquidation daemon, the controller (which may have set      *)
(* SYSTEM_HALT before).                                                    *)
Publish(target) ==
  /\ count.panics < MaxPanics
  /\ count' = [count EXCEPT !.panics = @ + 1]
  /\ panic' = Append(panic, target)
  /\ halt' \in {halt, TRUE}
  /\ UNCHANGED <<table, net, lock, cash, killed, render, audit, wipe, ghosts>>

Begin(w, target) ==
  /\ wipe[w].pc = "idle"
  /\ wipe' = [wipe EXCEPT ![w] = [NoWipe EXCEPT !.pc = "fetch", !.target = target]]

(* panic_listener starts a task per message and waits for none.            *)
Listen(w) ==
  /\ panic # <<>>
  /\ Begin(w, Head(panic))
  /\ panic' = Tail(panic)
  /\ UNCHANGED <<table, net, redis, killed, render, audit, ghosts, count>>

(* delayed_fill_audit: unless the order is known to be complete, it rolls  *)
(* back, which is a wipe of everything.                                    *)
AuditFill(i, w) ==
  /\ i \in audit
  /\ audit' = audit \ {i}
  /\ \/ "COMPLETE" \in Statuses /\ UNCHANGED wipe
     \/ "OTHER" \in Statuses /\ Begin(w, "ALL")
  /\ UNCHANGED <<table, net, redis, killed, render, panic, ghosts, count>>

Hit(target) == {k \in rows : qty[k] # 0 /\ target \in {"ALL", k[2]}}

Fetch(w) ==
  /\ wipe[w].pc = "fetch"
  /\ LET found == Hit(wipe[w].target) IN
     wipe' = [wipe EXCEPT ![w] =
                IF found = {} THEN NoWipe
                ELSE [@ EXCEPT !.pc = "next", !.todo = {<<k, qty[k]>> : k \in found}]]
  /\ UNCHANGED <<table, net, redis, killed, render, audit, panic, ghosts, count>>

(* The first position, in the order the table happened to return.  Each is *)
(* short; an Actual one is bought back at the broker, whose answer is not  *)
(* looked at.  Then the BUY is booked, which raises: the table stays as it *)
(* is and the wipe ends, and so it does when the order itself raises.      *)
Flatten(w) ==
  /\ wipe[w].pc = "next"
  /\ \E p \in wipe[w].todo, reply \in Replies :
       net' = IF p[1][2] = "Actual" /\ reply \in {"ok", "lost"}
              THEN [net EXCEPT ![p[1][1]] = @ - p[2]] ELSE net
  /\ wipe' = [wipe EXCEPT ![w] = NoWipe]
  /\ UNCHANGED <<table, redis, killed, render, audit, panic, ghosts, count>>

Wipe(w) == Fetch(w) \/ Flatten(w)

(* The process dies with all its tasks and its subscription.               *)
Crash ==
  /\ count.crashes < MaxCrashes
  /\ count' = [count EXCEPT !.crashes = @ + 1]
  /\ killed' = FALSE
  /\ render' = [i \in Intents |-> IF render[i].pc \in {"new"} \cup Ended THEN render[i]
                                  ELSE [pc |-> "crashed", seen |-> FALSE, old |-> 0]]
  /\ audit' = {}
  /\ wipe' = [w \in Wipers |-> NoWipe]
  /\ panic' = <<>>
  /\ UNCHANGED <<table, net, redis, ghosts>>

Next ==
  \/ \E i \in Intents : Render(i)
  \/ Expire \/ Crash
  \/ \E target \in Targets : Publish(target)
  \/ \E w \in Wipers : Listen(w) \/ Wipe(w)
  \/ \E i \in Intents, w \in Wipers : AuditFill(i, w)

Spec == Init /\ [][Next]_vars

(* The event loop runs every task that can go on; Redis expires its keys.  *)
FairSpec ==
  /\ Spec
  /\ WF_vars(Expire)
  /\ \A i \in Intents : WF_vars(Render(i))
  /\ \A w \in Wipers : WF_vars(Wipe(w))
  /\ WF_vars(\E w \in Wipers : Listen(w))
-----------------------------------------------------------------------------
(* However often the same position is asked for, whatever the 10 s lock    *)
(* does and whatever crashes: per row at most one order goes to the broker.*)
(* It is the insert of the Shadow record that makes it so.                 *)
OneOrderPerRow ==
  \A i, j \in orders : Order[i].row = Order[j].row => i = j

(* What a panic trades is what is booked: the quantity a wipe read before  *)
(* it waited for its connection, its batch and the broker is still the     *)
(* quantity of the row when the order is taken.  Only a row that is booked *)
(* a second time in between would make the order too small, and it is the  *)
(* insert of the Shadow record again that no row is.                       *)
ClosesWhatIsBooked ==
  [][\A r \in Rows :
       net'[r] # net[r] /\ orders' = orders =>
         net'[r] = net[r] - qty[<<r, "Actual">>]]_vars

-----------------------------------------------------------------------------
(* Stated by the code or its documents, and not kept.                      *)

(* Functional.md:421, 597: SQUARE_OFF_ALL clears the portfolio.  A panic   *)
(* message for everything empties every row booked when it is waiting.     *)
PanicCloses ==
  \A k \in Keys : qty[k] # 0 /\ panic = <<"ALL">> ~> qty[k] = 0
=============================================================================
