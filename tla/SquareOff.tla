------------------------------ MODULE SquareOff ------------------------------
(***************************************************************************)
(* The emergency square-off of the system controller and what can start    *)
(* it: a preemption notice of the cloud, or a message of the panic channel *)
(* whose reason contains NUCLEAR.  The order it publishes goes back to its *)
(* own subscription, with the same reason; only the life of the Redis lock *)
(* keeps the controller from answering its own echo for ever.  The orders  *)
(* of the end of the day and of the T-1 sweep go the same way.             *)
(*                                                                         *)
(* Time is counted in units.  It passes only when no coroutine of the      *)
(* controller is ready to run; whatever a database query or an alert takes *)
(* is at most Slow units.                                                  *)
(*                                                                         *)
(* Ghost variable: the field echo of a message and of the run it started.  *)
(***************************************************************************)
EXTENDS Integers, Sequences

CONSTANTS
  Sleep,        \* units between two looks at the table (0.2 s)
  Slow,         \* the longest a query or an alert takes
  Polls,        \* looks at the table (25)
  Ttl,          \* life of SQUARE_OFF_LOCK (10 s)
  MaxPanics,    \* bound of the model: external panic messages
  MaxFaults,    \* bound of the model: Redis commands and queries that fail
  MaxFills      \* bound of the model: live fills

ASSUME TimeAssumption  == Sleep \in Nat \ {0} /\ Slow \in Nat /\ Ttl \in Nat \ {0}
ASSUME CountAssumption == Polls \in Nat /\ MaxPanics \in Nat /\ MaxFaults \in Nat /\ MaxFills \in Nat

Rows == {"intraday", "positional"}   \* rows of the portfolio table

VARIABLES
  lock,     \* units SQUARE_OFF_LOCK has to live, 0 when the key is gone
  run,      \* the executions of _execute_square_off_all, by caller
  inbox,    \* panic messages the controller's subscription has yet to deliver
  vm,       \* the preemption notice, _preemption_detected, SYSTEM_HALT, FINAL_STATE:FLAT
  table,    \* the rows with a quantity
  bridge,   \* whether the bridge listens, and whether it is wiping
  stage,    \* whether the 15:20 square-off of intraday positions is due, or done
  count     \* the counters of the three bounds

vars == <<lock, run, inbox, vm, table, bridge, stage, count>>

Callers == {"poller", "listener"}
Message(reason, echo) == [reason |-> reason, echo |-> echo]
Messages == [reason : {"NUCLEAR", "GCP_PREEMPTION", "OTHER"}, echo : BOOLEAN]

Runs == [pc : {"idle", "halt", "claim", "publish", "ack", "flush", "final"},
         left : 0..Polls, wait : 0..(Sleep + Slow),
         reason : {"NUCLEAR", "GCP_PREEMPTION", "OTHER"}, echo : BOOLEAN]
Idle == [pc |-> "idle", left |-> 0, wait |-> 0, reason |-> "OTHER", echo |-> FALSE]

TypeOK ==
  /\ lock \in 0..Ttl
  /\ run \in [Callers -> Runs]
  /\ inbox \in Seq(Messages)
  /\ vm \in [notice : BOOLEAN, detected : BOOLEAN, halt : BOOLEAN, final : BOOLEAN]
  /\ table \subseteq Rows
  /\ bridge \in [up : BOOLEAN, wiping : BOOLEAN]
  /\ stage \in {"ahead", "done"}
  /\ count \in [panics : 0..MaxPanics, faults : 0..MaxFaults, fills : 0..MaxFills]

Init ==
  /\ lock = 0
  /\ run = [c \in Callers |-> Idle]
  /\ inbox = <<>>
  /\ vm = [notice |-> FALSE, detected |-> FALSE, halt |-> FALSE, final |-> FALSE]
  /\ table \in SUBSET Rows
  /\ bridge = [up |-> TRUE, wiping |-> FALSE]
  /\ stage = "ahead"
  /\ count = [panics |-> 0, faults |-> 0, fills |-> 0]

Failing == count.faults < MaxFaults /\ count' = [count EXCEPT !.faults = @ + 1]

-----------------------------------------------------------------------------
(* Who asks for a square-off.                                              *)

(* The cloud announces that the machine will be taken away.                *)
Notice ==
  /\ ~vm.notice
  /\ vm' = [vm EXCEPT !.notice = TRUE]
  /\ UNCHANGED <<lock, run, inbox, table, bridge, stage, count>>

(* Somebody else publishes a SQUARE_OFF_ALL on the panic channel.          *)
Panic(reason) ==
  /\ count.panics < MaxPanics
  /\ inbox' = Append(inbox, Message(reason, FALSE))
  /\ bridge' = [bridge EXCEPT !.wiping = bridge.up]
  /\ count' = [count EXCEPT !.panics = @ + 1]
  /\ UNCHANGED <<lock, run, vm, table, stage>>

(* _preemption_poller: the notice is acted upon once.                      *)
Detect ==
  /\ run["poller"].pc = "idle" /\ vm.notice /\ ~vm.detected
  /\ vm' = [vm EXCEPT !.detected = TRUE]
  /\ run' = [run EXCEPT !["poller"] = [Idle EXCEPT !.pc = "halt", !.reason = "GCP_PREEMPTION"]]
  /\ UNCHANGED <<lock, inbox, table, bridge, stage, count>>

HaltFirst ==
  /\ run["poller"].pc = "halt"
  /\ vm' = [vm EXCEPT !.halt = TRUE]
  /\ run' = [run EXCEPT !["poller"].pc = "claim"]
  /\ UNCHANGED <<lock, inbox, table, bridge, stage, count>>

(* An exception ends this round of the caller; the poller's flag stays set.*)
Abort(c) ==
  /\ run[c].pc \in {"halt", "claim", "publish", "flush", "final"} /\ Failing
  /\ run' = [run EXCEPT ![c] = Idle]
  /\ UNCHANGED <<lock, inbox, vm, table, bridge, stage>>

(* _panic_subscriber_loop: the next message, unless one is being served.   *)
Listen ==
  /\ run["listener"].pc = "idle" /\ inbox # <<>>
  /\ inbox' = Tail(inbox)
  /\ run' = IF Head(inbox).reason = "NUCLEAR"
            THEN [run EXCEPT !["listener"] =
                    [Idle EXCEPT !.pc = "claim", !.reason = Head(inbox).reason,
                                 !.echo = Head(inbox).echo]]
            ELSE run
  /\ UNCHANGED <<lock, vm, table, bridge, stage, count>>

-----------------------------------------------------------------------------
(* _execute_square_off_all, for its caller c.                              *)

Refused(c) == run' = [run EXCEPT ![c] = Idle] /\ UNCHANGED lock
Granted(c) == run' = [run EXCEPT ![c].pc = "publish"] /\ lock' = Ttl

(* SET SQUARE_OFF_LOCK NX EX.                                              *)
(* Fault: SET without NX.                                                  *)
Claim_Always(c) ==
  /\ run[c].pc = "claim"
  /\ Granted(c)
  /\ UNCHANGED <<inbox, vm, table, bridge, stage, count>>

Claim(c) ==
  /\ run[c].pc = "claim"
  /\ IF lock > 0 THEN Refused(c) ELSE Granted(c)
  /\ UNCHANGED <<inbox, vm, table, bridge, stage, count>>

(* The order reaches every subscriber, the controller's own included.      *)
(* With no bridge listening there is an alert first: a wait.               *)
Publish(c) ==
  /\ run[c].pc = "publish"
  /\ inbox' = Append(inbox, Message(run[c].reason, TRUE))
  /\ bridge' = [bridge EXCEPT !.wiping = bridge.up]
  /\ \E q \in 0..Slow :
       run' = [run EXCEPT ![c] = [@ EXCEPT !.pc = "ack", !.left = Polls, !.wait = q]]
  /\ UNCHANGED <<lock, vm, table, stage, count>>

Flat == table = {}

(* One look at the table; a failing query is one look less.                *)
Look(c) ==
  /\ run[c].pc = "ack" /\ run[c].wait = 0 /\ run[c].left > 0
  /\ \E q \in 0..Slow :
       IF Flat
       THEN run' = [run EXCEPT ![c] = [@ EXCEPT !.pc = "flush", !.wait = q]]
       ELSE run' = [run EXCEPT ![c] = [@ EXCEPT !.left = run[c].left - 1, !.wait = Sleep + q]]
  /\ UNCHANGED <<lock, inbox, vm, table, bridge, stage, count>>

LookFails(c) ==
  /\ run[c].pc = "ack" /\ run[c].wait = 0 /\ run[c].left > 0 /\ Failing
  /\ \E q \in 0..Slow :
       run' = [run EXCEPT ![c] = [@ EXCEPT !.left = run[c].left - 1, !.wait = Sleep + q]]
  /\ UNCHANGED <<lock, inbox, vm, table, bridge, stage>>

GiveUp(c) ==
  /\ run[c].pc = "ack" /\ run[c].wait = 0 /\ run[c].left = 0
  /\ run' = [run EXCEPT ![c].pc = "flush"]
  /\ UNCHANGED <<lock, inbox, vm, table, bridge, stage, count>>

(* SYSTEM_HALTED, which nobody but the dashboard reads.                    *)
(* Fault: the lock is deleted when the work is done.                       *)
Flush_Unlocks(c) ==
  /\ run[c].pc = "flush" /\ run[c].wait = 0
  /\ run' = [run EXCEPT ![c] =
               IF @.reason = "GCP_PREEMPTION" THEN [@ EXCEPT !.pc = "final"] ELSE Idle]
  /\ lock' = 0
  /\ UNCHANGED <<inbox, vm, table, bridge, stage, count>>
(* Fault: the final state is written only when the portfolio is flat.      *)
Flush_OnlyFlat(c) ==
  /\ run[c].pc = "flush" /\ run[c].wait = 0
  /\ run' = [run EXCEPT ![c] =
               IF @.reason = "GCP_PREEMPTION" /\ Flat THEN [@ EXCEPT !.pc = "final"] ELSE Idle]
  /\ UNCHANGED <<lock, inbox, vm, table, bridge, stage, count>>

Flush(c) ==
  /\ run[c].pc = "flush" /\ run[c].wait = 0
  /\ run' = [run EXCEPT ![c] =
               IF @.reason = "GCP_PREEMPTION" THEN [@ EXCEPT !.pc = "final"] ELSE Idle]
  /\ UNCHANGED <<lock, inbox, vm, table, bridge, stage, count>>

(* FINAL_STATE:FLAT, whatever the looks have seen.                         *)
Final ==
  /\ run["poller"].pc = "final"
  /\ vm' = [vm EXCEPT !.final = TRUE]
  /\ run' = [run EXCEPT !["poller"] = Idle]
  /\ UNCHANGED <<lock, inbox, table, bridge, stage, count>>

-----------------------------------------------------------------------------
(* The end of the day, and the bridge.                                     *)

(* At 15:20 _execute_selective_square_off publishes one FORCE_LIQUIDATE    *)
(* per intraday row.  The controller ignores it and so does the bridge.    *)
Selective ==
  /\ stage = "ahead"
  /\ stage' = "done"
  /\ inbox' = IF "intraday" \in table THEN Append(inbox, Message("OTHER", FALSE)) ELSE inbox
  /\ UNCHANGED <<lock, run, vm, table, bridge, count>>

(* The bridge books a fill in a row that was empty.                        *)
Fill(r) ==
  /\ count.fills < MaxFills /\ r \notin table /\ bridge.up
  /\ table' = table \cup {r}
  /\ count' = [count EXCEPT !.fills = @ + 1]
  /\ UNCHANGED <<lock, run, inbox, vm, bridge, stage>>

(* A wiping bridge closes one row after the other, and may stop early.     *)
Close(r) ==
  /\ bridge.wiping /\ r \in table
  /\ table' = table \ {r}
  /\ UNCHANGED <<lock, run, inbox, vm, bridge, stage, count>>

WipeEnds ==
  /\ bridge.wiping
  /\ bridge' = [bridge EXCEPT !.wiping = FALSE]
  /\ UNCHANGED <<lock, run, inbox, vm, table, stage, count>>

(* The bridge dies, and a message published meanwhile is lost; it returns. *)
BridgeFlips ==
  /\ bridge.up => count.faults < MaxFaults
  /\ bridge' = [up |-> ~bridge.up, wiping |-> FALSE]
  /\ count' = [count EXCEPT !.faults = IF bridge.up THEN @ + 1 ELSE @]
  /\ UNCHANGED <<lock, run, inbox, vm, table, stage>>

-----------------------------------------------------------------------------
(* Time.                                                                   *)

Ready(c) == CASE run[c].pc = "idle" -> c = "listener" /\ inbox # <<>>
              [] run[c].pc \in {"ack", "flush"} -> run[c].wait = 0
              [] OTHER -> TRUE

Less(n) == IF n = 0 THEN 0 ELSE n - 1

(* Time after the lock has gone and all waits are over makes no difference.*)
Tick ==
  /\ \A c \in Callers : ~Ready(c)
  /\ lock > 0 \/ \E c \in Callers : run[c].wait > 0
  /\ lock' = Less(lock)
  /\ run' = [c \in Callers |-> [run[c] EXCEPT !.wait = Less(@)]]
  /\ UNCHANGED <<inbox, vm, table, bridge, stage, count>>

Work(c) == Claim(c) \/ Publish(c) \/ Look(c) \/ GiveUp(c) \/ Flush(c)

Next ==
  \/ Notice \/ \E reason \in {"NUCLEAR", "OTHER"} : Panic(reason)
  \/ Detect \/ HaltFirst \/ Listen \/ Final
  \/ \E c \in Callers : Work(c) \/ LookFails(c) \/ Abort(c)
  \/ Selective \/ WipeEnds \/ BridgeFlips
  \/ \E r \in Rows : Fill(r) \/ Close(r)
  \/ Tick

(* Both coroutines of the controller are scheduled, and time passes.  The  *)
(* steps of a coroutine, of which never two are enabled, share a condition.*)
Fairness ==
  /\ WF_vars(Detect \/ HaltFirst \/ Final \/ Work("poller"))
  /\ WF_vars(Listen \/ Work("listener"))
  /\ WF_vars(Tick)

Spec == Init /\ [][Next]_vars
FairSpec == Spec /\ Fairness

-----------------------------------------------------------------------------
(* Properties                                                              *)

(* The lock outlives the work it protects.                                 *)
LoopFits == Slow + Polls * (Sleep + Slow) < Ttl

Striking(c) == run[c].pc \in {"publish", "ack", "flush"}

(* "Double-check reason to avoid loop if triggered from here": a square-   *)
(* off never starts from the echo of an earlier one, as long as the        *)
(* queries are quick enough for the loop to end within the lock's life.    *)
NoEcho == LoopFits => ~(Striking("listener") /\ run["listener"].echo)

(* "Double-Tap Command Storm Lock": two square-offs never overlap, under   *)
(* the same condition.                                                     *)
OneAtATime == LoopFits => ~(Striking("poller") /\ Striking("listener"))

(* The operating system is never left waiting: after a preemption notice   *)
(* FINAL_STATE:FLAT is written, flat or not, unless a nuclear square-off   *)
(* may hold the lock or something failed.                                  *)
PreemptionEnds ==
  [](run["listener"].pc = "idle" /\ count.faults = 0) => (vm.notice ~> vm.final)
=============================================================================
