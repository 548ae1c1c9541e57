----------------------------- MODULE Reconciler -----------------------------
(***************************************************************************)
(* The life of one multi-leg basket: ShoonyaHandler.place_order sends the  *)
(* legs and writes the order_status hashes, the broker fills, rejects or   *)
(* cancels them, and the OrderReconciler watches, force-fills or rolls     *)
(* back (daemons/order_reconciler.py).  An await of the reconciler is a    *)
(* point where the bridge and the broker may go on.                        *)
(*                                                                         *)
(* Ghost variables: prompt and mixed (what was true when the pass began),  *)
(* verdict (how the last pass ended), and of count the failed reads.       *)
(***************************************************************************)
EXTENDS Integers, FiniteSets

CONSTANTS
  N,                \* legs of the basket, in the order of the message
  Qty,              \* contracts per leg
  Tagged,           \* the legs whose entry in the message has an order_id
  Replies,          \* what may become of a call of place_order
  Fates,            \* what the broker may do with an order it accepted
  Setups            \* what a behaviour is about: one of these is chosen

Leg == 1..N

ASSUME SizeAssumption   == N \in Nat /\ Qty \in Nat \ {0}
ASSUME TaggedAssumption == Tagged \subseteq Leg
ASSUME ReplyAssumption  == Replies \subseteq {"ok", "refused", "lost", "skipped"}
ASSUME FateAssumption   == Fates \subseteq {"fill", "reject", "cancel"}
ASSUME SetupAssumption  ==
  Setups \subseteq [fullKey : BOOLEAN, book : BOOLEAN, originations : Nat, crashes : Nat, faults : Nat]

VARIABLES
  setup,     \* never changes: see the operators below
  order,     \* the broker's side: state of each leg's order, contracts filled
  call,      \* the bridge's side: state of each leg's place_order
  hash,      \* order_status:{order_id} in Redis
  inflight,  \* the basket is in inflight_baskets
  pass,      \* where _reconcile_logic stands
  seen,      \* the status each leg had when the pass looked
  book,      \* _orderbook_cache
  retries,   \* rollback_retries
  cmd,       \* contracts ordered by the reconciler, to fill and to close
  dead,      \* entries in CRITICAL_INTERVENTION
  prompt, mixed, verdict, count

broker == <<order, call, hash>>
recon  == <<inflight, pass, seen, book, retries, cmd, dead, prompt, mixed, verdict>>
vars   == <<setup, broker, recon, count>>

FullKey     == setup.fullKey     \* the entries say "quantity" or (FALSE) "qty"
BookAnswers == setup.book        \* the reconciler's own broker session answers
(* Bounds of the model: BASKET_ORIGINATION messages, crashes of the        *)
(* reconciler, exceptions inside a pass and reads of Redis that fail.      *)
MaxOriginations == setup.originations
MaxCrashes      == setup.crashes
MaxFaults       == setup.faults

NoBook == [l \in Leg |-> [state |-> "none", filled |-> 0]]
Statuses == {"COMPLETE", "PARTIAL_FILL", "REJECTED", "PENDING"}
Unseen == [status |-> "none", left |-> 0]
Verdicts == {"none", "filled", "forced", "rolled", "dead", "failed"}

TypeOK ==
  /\ order \in [Leg -> [state : {"none", "open", "complete", "rejected"}, filled : 0..Qty]]
  /\ call  \in [Leg -> {"new", "sent", "refused", "done"}]
  /\ hash  \in [Leg -> {"none", "COMPLETE", "REJECTED"}]
  /\ inflight \in BOOLEAN
  /\ pass  \in [pc : {"idle", "scan", "roll"}, at : 1..(N + 1)]
  /\ seen  \in [Leg -> [status : Statuses \cup {"none"}, left : 0..Qty]]
  /\ book  \in [Leg -> [state : {"none", "open", "complete", "rejected"}, filled : 0..Qty]]
  /\ retries \in 0..3
  /\ cmd   \in [Leg -> [fill : Nat, close : Nat]]
  /\ dead  \in Nat
  /\ prompt \in BOOLEAN /\ mixed \in BOOLEAN
  /\ verdict \in Verdicts
  /\ count \in [originations : 0..MaxOriginations, crashes : 0..MaxCrashes,
                faults : 0..MaxFaults, misreads : 0..MaxFaults]

Init ==
  /\ setup \in Setups
  /\ order = NoBook
  /\ call  = [l \in Leg |-> "new"]
  /\ hash  = [l \in Leg |-> "none"]
  /\ inflight = FALSE
  /\ pass  = [pc |-> "idle", at |-> 1]
  /\ seen  = [l \in Leg |-> Unseen]
  /\ book  = NoBook
  /\ retries = 0
  /\ cmd   = [l \in Leg |-> [fill |-> 0, close |-> 0]]
  /\ dead  = 0
  /\ prompt = FALSE /\ mixed = FALSE
  /\ verdict = "none"
  /\ count = [originations |-> 0, crashes |-> 0, faults |-> 0, misreads |-> 0]

-----------------------------------------------------------------------------
(* place_order, after the basket was announced                             *)

(* The request reaches the broker, or is never made (no session).          *)
Place(l) ==
  /\ call[l] = "new" /\ count.originations > 0
  /\ \/ /\ Replies \cap {"ok", "lost"} # {}
        /\ order' = [order EXCEPT ![l].state = "open"]
        /\ call' = [call EXCEPT ![l] = "sent"]
     \/ /\ "refused" \in Replies
        /\ call' = [call EXCEPT ![l] = "refused"]
        /\ UNCHANGED order
     \/ /\ "skipped" \in Replies
        /\ call' = [call EXCEPT ![l] = "done"]
        /\ UNCHANGED order
  /\ UNCHANGED <<setup, hash, recon, count>>

(* A refused order is nudged once; that order may be accepted.             *)
Nudge(l) ==
  /\ call[l] = "refused" /\ "ok" \in Replies
  /\ order' = [order EXCEPT ![l].state = "open"]
  /\ call' = [call EXCEPT ![l] = "sent"]
  /\ UNCHANGED <<setup, hash, recon, count>>

(* The answer.  Accepted is written as COMPLETE, with the full quantity.   *)
Answer(l) ==
  /\ \/ /\ call[l] = "sent" /\ "ok" \in Replies
        /\ hash' = [hash EXCEPT ![l] = "COMPLETE"]
     \/ /\ call[l] = "sent" /\ "lost" \in Replies
        /\ UNCHANGED hash
     \/ /\ call[l] = "refused"
        /\ hash' = [hash EXCEPT ![l] = "REJECTED"]
  /\ call' = [call EXCEPT ![l] = "done"]
  /\ UNCHANGED <<setup, order, recon, count>>

(* The broker                                                              *)
Fill(l) ==
  /\ "fill" \in Fates /\ order[l].state = "open"
  /\ \E n \in (order[l].filled + 1)..Qty :
       order' = [order EXCEPT ![l] =
                   [state |-> IF n = Qty THEN "complete" ELSE "open", filled |-> n]]
  /\ UNCHANGED <<setup, call, hash, recon, count>>

Kill(l) ==
  /\ order[l].state = "open"
  /\ \/ "reject" \in Fates /\ order[l].filled = 0
     \/ "cancel" \in Fates
  /\ order' = [order EXCEPT ![l].state = "rejected"]
  /\ UNCHANGED <<setup, call, hash, recon, count>>

-----------------------------------------------------------------------------
(* The reconciler                                                          *)

(* A BASKET_ORIGINATION message, possibly for a basket known already.      *)
Originate ==
  /\ count.originations < MaxOriginations
  /\ count' = [count EXCEPT !.originations = @ + 1]
  /\ inflight' = TRUE
  /\ UNCHANGED <<setup, broker, pass, seen, book, retries, cmd, dead, prompt, mixed, verdict>>

Working(l)  == order[l].filled > 0
Refused(l)  == order[l].state = "rejected" \/ hash[l] = "REJECTED"

(* The watchdog finds the basket too old and takes it out of the ledger.   *)
Pick ==
  /\ inflight /\ pass.pc = "idle"
  /\ inflight' = FALSE
  /\ pass' = [pc |-> "scan", at |-> 1]
  /\ seen' = [l \in Leg |-> Unseen]
  /\ book' = NoBook
  /\ prompt' = \A l \in Leg : hash[l] # "none"
  /\ mixed' = /\ \E l \in Leg : Working(l) /\ ~Refused(l)
              /\ \E l \in Leg : Refused(l)
  /\ verdict' = "none"
  /\ UNCHANGED <<setup, broker, retries, cmd, dead, count>>

Mapped(entry) ==
  CASE entry.state = "complete" -> "COMPLETE"
    [] entry.state = "rejected" -> "REJECTED"
    [] entry.state = "open"     -> IF entry.filled > 0 THEN "PARTIAL_FILL" ELSE "PENDING"

Told(b, m) ==
  [status |-> Mapped(b[m]), book |-> b, filled |-> b[m].filled, left |-> Qty - b[m].filled]

Listed(b) == {m \in Leg : BookAnswers /\ b[m].state # "none"}

(* What is said of a leg without a hash: the first entry in the cached or  *)
(* freshly fetched book that belongs to the order or to any order of the   *)
(* basket, or PENDING.  The book comes with the answer.                    *)
Unhashed ==
  {[status |-> "PENDING", book |-> book, filled |-> 0, left |-> Qty]} \cup
  {Told(book, m) : m \in Listed(book)} \cup {Told(order, m) : m \in Listed(order)}

Hashed(l) ==
  [status |-> hash[l], book |-> book,
   filled |-> IF hash[l] = "COMPLETE" THEN Qty ELSE 0, left |-> 0]

(* What _get_order_status returns for a leg.  When Redis fails to answer,  *)
(* that is logged, and a leg with a hash is judged like one without.       *)
Lookups(l) == IF hash[l] # "none" THEN {Hashed(l)} ELSE Unhashed

Looked(l, r) ==
  \/ r \in Lookups(l) /\ UNCHANGED count
  \/ /\ hash[l] # "none" /\ r \in Unhashed
     /\ count.faults < MaxFaults
     /\ count' = [count EXCEPT !.faults = @ + 1, !.misreads = @ + 1]

(* Fault: the pass waits for a leg that has no status yet.                 *)
NextLeg_Waits ==
  [pass EXCEPT !.at = IF @ \in Tagged /\ hash[@] = "none" THEN @ ELSE @ + 1]

NextLeg == [pass EXCEPT !.at = @ + 1]

(* One turn of the first loop over the legs.                               *)
Scan ==
  /\ pass.pc = "scan" /\ pass.at <= N
  /\ pass' = NextLeg
  /\ IF pass.at \in Tagged
     THEN \E r \in Lookups(pass.at) \cup Unhashed :
            /\ Looked(pass.at, r)
            /\ seen' = [seen EXCEPT ![pass.at] = [status |-> r.status, left |-> r.left]]
            /\ book' = r.book
     ELSE UNCHANGED <<seen, book, count>>
  /\ UNCHANGED <<setup, broker, inflight, retries, cmd, dead, prompt, mixed, verdict>>

ScanDone == pass.pc = "scan" /\ pass.at = N + 1
(* Fault: a pending leg counts as rejected.                                *)
Rejection_Pending == \E l \in Leg : seen[l].status \in {"REJECTED", "PENDING"}

Rejection == \E l \in Leg : seen[l].status = "REJECTED"
Missing   == {l \in Leg : seen[l].status \in {"PARTIAL_FILL", "PENDING"}}

(* Fault: the attempts are not counted.                                    *)
Rollback_Uncounted ==
  /\ ScanDone /\ Rejection
  /\ pass' = [pc |-> "roll", at |-> 1]
  /\ UNCHANGED <<setup, broker, inflight, seen, book, retries, cmd, dead, prompt, mixed, verdict, count>>

(* Kill-switch or not, a rejection ends in trigger_rollback; the fourth    *)
(* attempt for the same basket goes to the dead-letter queue instead.      *)
Rollback ==
  /\ ScanDone /\ Rejection
  /\ IF retries + 1 > 3
     THEN /\ retries' = 0
          /\ dead' = dead + 1
          /\ verdict' = "dead"
          /\ pass' = [pc |-> "idle", at |-> 1]
     ELSE /\ retries' = retries + 1
          /\ pass' = [pc |-> "roll", at |-> 1]
          /\ UNCHANGED <<dead, verdict>>
  /\ UNCHANGED <<setup, broker, inflight, seen, book, cmd, prompt, mixed, count>>

(* The second loop over the legs, with a second look at each status.       *)
Roll ==
  /\ pass.pc = "roll" /\ pass.at <= N
  /\ pass' = NextLeg
  /\ IF pass.at \in Tagged
     THEN \E r \in Lookups(pass.at) \cup Unhashed :
            /\ Looked(pass.at, r)
            /\ book' = r.book
            /\ cmd' = IF r.status \in {"COMPLETE", "PARTIAL_FILL"}
                      THEN [cmd EXCEPT ![pass.at].close = @ + r.filled]
                      ELSE cmd
     ELSE UNCHANGED <<book, cmd, count>>
  /\ UNCHANGED <<setup, broker, inflight, seen, retries, dead, prompt, mixed, verdict>>

(* Fault: the rollback cleans up the status hashes.                        *)
RollDone_Clears ==
  /\ pass.pc = "roll" /\ pass.at = N + 1
  /\ pass' = [pc |-> "idle", at |-> 1]
  /\ verdict' = "rolled"
  /\ hash' = [l \in Leg |-> "none"]
  /\ UNCHANGED <<setup, order, call, inflight, seen, book, retries, cmd, dead, prompt, mixed, count>>

RollDone ==
  /\ pass.pc = "roll" /\ pass.at = N + 1
  /\ pass' = [pc |-> "idle", at |-> 1]
  /\ verdict' = "rolled"
  /\ UNCHANGED <<setup, broker, inflight, seen, book, retries, cmd, dead, prompt, mixed, count>>

(* force_fill: market orders for the legs not complete; nothing pending is *)
(* cancelled.  A "quantity" hides the remainder the first loop noted under *)
(* "qty": the leg is then ordered in full once more.                       *)
ForceFill ==
  /\ ScanDone /\ ~Rejection /\ Missing # {}
  /\ cmd' = [l \in Leg |-> IF l \in Missing
                           THEN [cmd[l] EXCEPT !.fill = @ + IF FullKey THEN Qty ELSE seen[l].left]
                           ELSE cmd[l]]
  /\ pass' = [pc |-> "idle", at |-> 1]
  /\ verdict' = "forced"
  /\ UNCHANGED <<setup, broker, inflight, seen, book, retries, dead, prompt, mixed, count>>

AllFilled ==
  /\ ScanDone /\ ~Rejection /\ Missing = {}
  /\ pass' = [pc |-> "idle", at |-> 1]
  /\ verdict' = "filled"
  /\ UNCHANGED <<setup, broker, inflight, seen, book, retries, cmd, dead, prompt, mixed, count>>

(* An exception ends the pass; the watchdog logs it, the basket is gone.   *)
Fail ==
  /\ pass.pc # "idle" /\ count.faults < MaxFaults
  /\ count' = [count EXCEPT !.faults = @ + 1]
  /\ pass' = [pc |-> "idle", at |-> 1]
  /\ verdict' = "failed"
  /\ UNCHANGED <<setup, broker, inflight, seen, book, retries, cmd, dead, prompt, mixed>>

(* The process dies: its ledger of baskets and its retries are in memory.  *)
Crash ==
  /\ count.crashes < MaxCrashes
  /\ count' = [count EXCEPT !.crashes = @ + 1]
  /\ inflight' = FALSE
  /\ pass' = [pc |-> "idle", at |-> 1]
  /\ retries' = 0
  /\ book' = NoBook
  /\ verdict' = "failed"
  /\ UNCHANGED <<setup, broker, seen, cmd, dead, prompt, mixed>>

Watch == Pick \/ Scan \/ Rollback \/ Roll \/ RollDone \/ ForceFill \/ AllFilled

Next ==
  \/ Originate \/ Watch \/ Fail \/ Crash
  \/ \E l \in Leg : Place(l) \/ Nudge(l) \/ Answer(l) \/ Fill(l) \/ Kill(l)

Spec == Init /\ [][Next]_vars

(* The watchdog runs every 100 ms and never waits for anybody.             *)
FairSpec == Spec /\ WF_vars(Watch)

-----------------------------------------------------------------------------
(* Nothing is closed unless a leg of the basket really was refused,        *)
(* rejected or cancelled: neither a lost answer nor a stale or mistaken    *)
(* book entry makes the reconciler tear a healthy basket down.             *)
NoCloseWithoutRefusal ==
  (\E l \in Leg : cmd[l].close > 0) => \E l \in Leg : Refused(l)

(* A rollback is final: whatever is announced again and whatever crashes,  *)
(* no leg of a basket that was rolled back is force-filled afterwards, as  *)
(* long as the status hashes alone decide.  (It does not hold with a book  *)
(* that answers, nor when a hash cannot be read: a later pass may take a   *)
(* leg it saw rejected for pending.)                                       *)
NoFillAfterRollback ==
  [][~BookAnswers /\ count.misreads = 0 /\ (\E l \in Leg : cmd[l].close > 0) =>
       \A l \in Leg : cmd'[l].fill = cmd[l].fill]_vars

(* Three strikes: however often a basket is announced again, it is closed  *)
(* at most three times per life of the process before it goes to the       *)
(* dead-letter queue.                                                      *)
ThreeStrikes ==
  dead = 0 => \A l \in Leg : cmd[l].close <= 3 * Qty * (count.crashes + 1)

(* Every basket that is tracked gets its verdict, unless the pass fails.   *)
Reviewed == inflight ~> pass.pc = "idle" /\ verdict # "none" /\ ~inflight

-----------------------------------------------------------------------------
(* Stated by the code or its documents, and not kept.                      *)

(* order_reconciler.py:172: a pass that begins with one leg filled and     *)
(* another one rejected at the broker, and with the status of both in      *)
(* Redis, ends in the kill-switch.                                         *)
KillSwitchFires ==
  prompt /\ mixed /\ verdict # "none" => verdict \in {"rolled", "dead"}
=============================================================================
