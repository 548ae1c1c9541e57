-------------------------- MODULE Liquidation_proofs --------------------------
(***************************************************************************)
(* As long as nothing fails, a put that memory knows as sold is ordered    *)
(* out before its protective call: for every size of a leg, every class,   *)
(* alerts with and without the sign, partial exits, and every interleaving *)
(* of the market monitor, the global risk loop and the alerts.             *)
(* The invariant: the quantity of the call never is negative, so that it   *)
(* is not sorted to the front (CallLong); of every coroutine, as long as   *)
(* nothing failed, what is left of its basket contains the call only after *)
(* the order for the put, and a position it captured earlier is either     *)
(* still in memory or was ordered out (Sound).                             *)
(***************************************************************************)
EXTENDS Liquidation, FiniteSetTheorems, TLAPS

Coroutines == {"monitor", "risk"}
Positions == [qty : (-Lot)..Lot, runner : BOOLEAN]
Clocks == [minute : {"open", "gate", "late"}, gate : BOOLEAN]
Records == [pc : {"rest", "slash", "gate", "draw", "eval", "down"}, index : BOOLEAN,
            todo : SUBSET Legs, cut : SUBSET Legs, out : SUBSET Legs, sent : BOOLEAN,
            tries : 1..3, plan : SUBSET Legs, first : SUBSET Legs, basket : BOOLEAN,
            hedged : SUBSET Legs]

Fine == faults = MaxFaults

CallLong == pos["call"].qty >= 0

Captured(legs) == \A s \in legs : pos[s].qty # 0 \/ s \in exited

Pending(r) == r.todo \cup r.cut \cup r.hedged

Sound(r) ==
  /\ r \in Records /\ r.first \subseteq r.plan
  /\ r.out = {} => r.plan = {}
  /\ Fine => /\ r.out \subseteq exited
             /\ r.out # {} => r.sent
             /\ "call" \in r.plan => "put" \in exited
             /\ Captured(Pending(r))

IInv == TypeOK /\ CallLong /\ \A t \in Coroutines : Sound(task[t])

(* What ShortsFirst forbids.                                               *)
Naked == /\ Fine /\ pos["put"].qty < 0
         /\ "call" \in exited' \ exited /\ "put" \notin exited

-----------------------------------------------------------------------------
(* Quantities.                                                             *)

LEMMA SideType ==
  /\ \A s \in Legs : Side(s) \in (-Lot)..Lot /\ Side(s) # 0
  /\ Side("put") < 0 /\ Side("call") > 0
BY LotAssumption DEF Side, Sold, Legs

LEMMA NobodyType == Nobody \in Positions /\ Nobody.qty = 0
BY LotAssumption DEF Nobody, Positions

(* A part that is neither nothing nor everything leaves something, and     *)
(* what it leaves has no sign.                                             *)
LEMMA CutLeaves ==
  ASSUME NEW p \in Positions, NEW pct \in {25, 50, 70}
  PROVE  /\ Cut(p, pct) \in Positions /\ Cut(p, pct).qty >= 0
         /\ ~Whole(p.qty, pct) => Cut(p, pct).qty # 0
<1>1. p.qty \in Int /\ Abs(p.qty) \in 0..Lot
  BY LotAssumption DEF Abs, Positions
<1>2. \A a \in 0..Lot : /\ (a * 25) \div 100 \in 0..a /\ (a * 50) \div 100 \in 0..a
                        /\ (a * 70) \div 100 \in 0..a
  BY LotAssumption
<1>3. Part(p.qty, pct) \in 0..Abs(p.qty)
  BY <1>1, <1>2 DEF Part
<1>4. /\ Cut(p, pct).qty = Abs(p.qty) - Part(p.qty, pct)
      /\ Cut(p, pct).runner = p.runner /\ DOMAIN Cut(p, pct) = {"qty", "runner"}
  BY DEF Cut, Positions
<1>5. Abs(p.qty) - Part(p.qty, pct) \in (-Lot)..Lot
  BY <1>1, <1>3, LotAssumption
<1>6. Cut(p, pct) \in Positions
  BY <1>5 DEF Cut, Positions
<1>7. ~Whole(p.qty, pct) => Cut(p, pct).qty # 0
  BY <1>1, <1>3, <1>4, LotAssumption DEF Whole
<1>8. Cut(p, pct).qty >= 0
  BY <1>1, <1>3, <1>4
<1> QED BY <1>6, <1>7, <1>8

(* More than one position is held: both are.                               *)
LEMMA HeldLegs == (Cardinality(Held) > 1) <=> (Held = Legs)
<1>1. Held \in {{}, {"put"}, {"call"}, {"put", "call"}}
  BY DEF Held, Legs
<1>2. Cardinality({}) = 0 /\ Cardinality({"put"}) = 1 /\ Cardinality({"call"}) = 1
  BY FS_EmptySet, FS_Singleton
<1>3. Cardinality({"put", "call"}) = 2
  <2>1. IsFiniteSet({"put"}) /\ "call" \notin {"put"} /\ {"put"} \cup {"call"} = {"put", "call"}
    BY FS_Singleton
  <2> QED BY <1>2, <2>1, FS_AddElement
<1> QED BY <1>1, <1>2, <1>3 DEF Legs

-----------------------------------------------------------------------------
(* Sending.                                                                *)

(* A coroutine that was in r has tried to send an order, or is through     *)
(* with a plan.                                                            *)
Ordered(t, r) ==
  /\ \E n \in Records :
       /\ task' = [task EXCEPT ![t] = n]
       /\ Pending(n) = Pending(r) /\ n.first \subseteq n.plan
       /\ n.out = {} => n.plan = {}
       /\ Fine' => /\ n.out \subseteq exited'
                   /\ n.out # {} => n.sent
                   /\ "call" \in n.plan => "put" \in exited'
  /\ exited \subseteq exited' /\ exited' \subseteq Legs
  /\ faults' \in 0..MaxFaults /\ (Fine' => Fine)
  /\ ~Naked

LEMMA AttemptEffect ==
  ASSUME exited \subseteq Legs, faults \in 0..MaxFaults,
         NEW t \in Coroutines, NEW r \in Records, NEW l \in Legs, r.first \subseteq r.plan,
         Fine => /\ "call" \in r.plan => "put" \in exited \cup {l}
                 /\ l = "call" /\ pos["put"].qty < 0 => "put" \in exited \/ "call" \in exited,
         Attempt(t, r, l)
  PROVE  Ordered(t, r)
<1>1. CASE /\ Become(t, [r EXCEPT !.out = {l}, !.sent = TRUE])
           /\ exited' = exited \cup {l} /\ UNCHANGED faults
  <2> DEFINE n == [r EXCEPT !.out = {l}, !.sent = TRUE]
  <2>1. /\ n.todo = r.todo /\ n.cut = r.cut /\ n.hedged = r.hedged /\ n.first = r.first
        /\ n.plan = r.plan /\ n.out = {l} /\ n.sent
    BY DEF Records
  <2>2. {l} \in SUBSET Legs /\ TRUE \in BOOLEAN
    OBVIOUS
  <2>3. n \in Records
    BY <2>2 DEF Records
  <2>4. task' = [task EXCEPT ![t] = n]
    BY <1>1 DEF Become
  <2> HIDE DEF n
  <2>5. Fine' <=> Fine
    BY <1>1 DEF Fine
  <2>6. ~Naked
    BY <1>1 DEF Naked, Legs
  <2>7. faults' \in 0..MaxFaults
    BY <1>1
  <2> QED BY <1>1, <2>1, <2>3, <2>4, <2>5, <2>6, <2>7 DEF Ordered, Pending
<1>2. CASE /\ Faulty /\ Become(t, [r EXCEPT !.out = {l}, !.sent = FALSE])
           /\ UNCHANGED exited
  <2> DEFINE n == [r EXCEPT !.out = {l}, !.sent = FALSE]
  <2>1. /\ n.todo = r.todo /\ n.cut = r.cut /\ n.hedged = r.hedged /\ n.first = r.first
        /\ n.plan = r.plan /\ n.out = {l}
    BY DEF Records
  <2>2. {l} \in SUBSET Legs /\ FALSE \in BOOLEAN
    OBVIOUS
  <2>3. n \in Records
    BY <2>2 DEF Records
  <2>4. task' = [task EXCEPT ![t] = n]
    BY <1>2 DEF Become
  <2> HIDE DEF n
  <2>5. ~Fine' /\ faults' \in 0..MaxFaults
    BY <1>2, BoundAssumption DEF Fine, Faulty
  <2>6. ~Naked
    BY <1>2 DEF Naked
  <2> QED BY <1>2, <2>1, <2>3, <2>4, <2>5, <2>6 DEF Ordered, Pending
<1> QED BY <1>1, <1>2 DEF Attempt

(* The next order of a plan: whatever the plan, its call goes only if      *)
(* nothing of it can be naked.                                             *)
LEMMA SendEffect ==
  ASSUME exited \subseteq Legs, faults \in 0..MaxFaults,
         NEW t \in Coroutines, NEW r \in Records, r.first \subseteq r.plan,
         Fine /\ "call" \in r.plan =>
           \/ "put" \in exited
           \/ r.first = {"put"}
           \/ pos["put"].qty >= 0
           \/ r.plan = {"call"} /\ "call" \in exited,
         pos["put"].qty \in Int,
         Send(t, r)
  PROVE  Ordered(t, r)
<1>1. CASE /\ r.plan = {} /\ UNCHANGED <<exited, faults>>
           /\ Become(t, [r EXCEPT !.out = {}, !.sent = FALSE, !.tries = 1, !.basket = FALSE])
  <2> DEFINE n == [r EXCEPT !.out = {}, !.sent = FALSE, !.tries = 1, !.basket = FALSE]
  <2>1. /\ n.todo = r.todo /\ n.cut = r.cut /\ n.hedged = r.hedged /\ n.first = r.first
        /\ n.plan = r.plan /\ n.out = {}
    BY DEF Records
  <2>2. {} \in SUBSET Legs /\ 1 \in 1..3 /\ FALSE \in BOOLEAN
    OBVIOUS
  <2>3. n \in Records
    BY <2>2 DEF Records
  <2>4. task' = [task EXCEPT ![t] = n]
    BY <1>1 DEF Become
  <2> HIDE DEF n
  <2>5. Fine' <=> Fine
    BY <1>1 DEF Fine
  <2>6. ~Naked
    BY <1>1 DEF Naked
  <2>7. faults' \in 0..MaxFaults
    BY <1>1
  <2> QED BY <1>1, <2>1, <2>3, <2>4, <2>5, <2>6, <2>7 DEF Ordered, Pending
<1>2. ASSUME NEW l \in r.plan, r.first # {} => l \in r.first,
             Attempt(t, [r EXCEPT !.plan = @ \ {l}, !.first = @ \ {l}, !.tries = 1], l)
      PROVE  Ordered(t, r)
  <2> DEFINE n == [r EXCEPT !.plan = @ \ {l}, !.first = @ \ {l}, !.tries = 1]
  <2>1. l \in Legs
    BY DEF Records
  <2>2. n \in Records
    <3>1. /\ 1 \in 1..3
          /\ r.plan \ {l} \in SUBSET Legs /\ r.first \ {l} \in SUBSET Legs
      BY DEF Records
    <3> QED BY <3>1 DEF Records
  <2>3. /\ n.todo = r.todo /\ n.cut = r.cut /\ n.hedged = r.hedged
        /\ n.first = r.first \ {l} /\ n.plan = r.plan \ {l}
    BY DEF Records
  <2>4. Attempt(t, n, l)
    BY <1>2
  <2> HIDE DEF n
  <2>5. "call" \in n.plan => l = "put"
    BY <2>1, <2>3 DEF Legs
  <2>6. l = "call" /\ pos["put"].qty < 0 /\ Fine => "put" \in exited \/ "call" \in exited
    BY <1>2 DEF Legs
  <2>7. Ordered(t, n)
    BY <2>1, <2>2, <2>3, <2>4, <2>5, <2>6, AttemptEffect
  <2>8. Pending(n) = Pending(r)
    BY <2>3 DEF Pending
  <2> QED BY <2>7, <2>8 DEF Ordered
<1> QED BY <1>1, <1>2 DEF Send

(* The exit of one position: of the basket, sorted, when both legs are in  *)
(* memory, else of the position that was captured.                         *)
LEMMA ExitEffect ==
  ASSUME IInv, NEW t \in Coroutines, NEW s \in Legs, Fine => Captured({s}),
         NEW r \in Records, r.plan = {}, r.first = {},
         Exit(t, r, s)
  PROVE  Ordered(t, r)
<1>1. /\ exited \subseteq Legs /\ faults \in 0..MaxFaults /\ Held \subseteq Legs
      /\ pos \in [Legs -> Positions]
  BY DEF IInv, TypeOK, Held, Positions
<1>0. pos["put"].qty \in Int /\ pos["call"].qty \in Int
  BY <1>1, LotAssumption DEF Legs, Positions
<1>2. CASE Held = Legs
  <2> DEFINE m == [r EXCEPT !.plan = Held, !.first = Leading(Held), !.basket = TRUE]
  <2>1. m \in Records
    <3>1. Leading(Held) \in SUBSET Legs /\ Held \in SUBSET Legs /\ TRUE \in BOOLEAN
      BY <1>1 DEF Leading
    <3> QED BY <3>1 DEF Records
  <2>2. /\ m.plan = Legs /\ m.first = Leading(Legs)
        /\ m.todo = r.todo /\ m.cut = r.cut /\ m.hedged = r.hedged
    BY <1>2 DEF Records
  <2>3. Send(t, m)
    BY <1>2, HeldLegs DEF Exit
  <2>4. pos["put"].qty >= 0 \/ m.first = {"put"}
    <3>1. ~(pos["call"].qty <= 0)
      BY <1>0, <1>2 DEF IInv, CallLong, Held, Legs
    <3>2. pos["put"].qty < 0 => pos["put"].qty <= 0
      BY <1>0
    <3>3. pos["put"].qty < 0 => Leading(Legs) = {"put"}
      BY <3>1, <3>2 DEF Leading, Legs
    <3> QED BY <1>0, <2>2, <3>3
  <2>5. m.first \subseteq m.plan
    BY <2>2 DEF Leading
  <2> HIDE DEF m
  <2>6. Ordered(t, m)
    BY <1>0, <1>1, <2>1, <2>2, <2>3, <2>4, <2>5, SendEffect
  <2>7. Pending(m) = Pending(r)
    BY <2>2 DEF Pending
  <2> QED BY <2>6, <2>7 DEF Ordered
<1>3. CASE Held # Legs
  <2> DEFINE m == [r EXCEPT !.plan = {s}]
  <2>1. /\ m.plan = {s} /\ m.first = {}
        /\ m.todo = r.todo /\ m.cut = r.cut /\ m.hedged = r.hedged
    BY DEF Records
  <2>2. m \in Records
    <3>1. {s} \in SUBSET Legs
      OBVIOUS
    <3> QED BY <3>1 DEF Records
  <2>3. Send(t, m)
    BY <1>3, HeldLegs DEF Exit
  <2>4. Fine /\ "call" = s => pos["put"].qty >= 0 \/ "call" \in exited
    <3>1. Fine /\ "call" = s /\ "call" \notin exited => "call" \in Held
      BY DEF Captured, Held, Legs
    <3>2. pos["put"].qty < 0 => "put" \in Held
      BY DEF Held, Legs
    <3>3. "put" \in Held /\ "call" \in Held => Held = Legs
      BY <1>1 DEF Legs
    <3>4. ~(pos["put"].qty < 0) => pos["put"].qty >= 0
      BY <1>0
    <3> QED BY <1>3, <3>1, <3>2, <3>3, <3>4
  <2> HIDE DEF m
  <2>5. Ordered(t, m)
    BY <1>0, <1>1, <2>1, <2>2, <2>3, <2>4, SendEffect
  <2>6. Pending(m) = Pending(r)
    BY <2>1 DEF Pending
  <2> QED BY <2>5, <2>6 DEF Ordered
<1> QED BY <1>2, <1>3

-----------------------------------------------------------------------------
(* Steps of one coroutine: the other one stays sound as long as, with      *)
(* nothing failing, no position disappears that was not ordered out.       *)
Frame ==
  /\ exited \subseteq exited' /\ exited' \subseteq Legs
  /\ pos' \in [Legs -> Positions] /\ CallLong'
  /\ faults' \in 0..MaxFaults
  /\ Fine' => Fine /\ \A s \in Legs : pos[s].qty # 0 => pos'[s].qty # 0 \/ s \in exited'

(* What is neither position, order nor coroutine.                          *)
Around == /\ class' = class /\ armed' \subseteq Legs /\ lost' \subseteq Legs
          /\ clock' \in Clocks /\ cuts' \in 0..MaxCuts

LEMMA SoundFrame ==
  ASSUME NEW r, Sound(r), Frame
  PROVE  Sound(r)'
<1>1. r \in Records /\ \A s \in Pending(r) : s \in Legs
  BY DEF Sound, Records, Pending
<1>2. Fine' => Captured(Pending(r))'
  BY <1>1 DEF Sound, Frame, Captured, Pending
<1> QED BY <1>1, <1>2 DEF Sound, Frame

LEMMA Moves ==
  ASSUME IInv, Frame, Around, NEW t \in Coroutines, NEW n,
         task' = [task EXCEPT ![t] = n], Sound(n)'
  PROVE  IInv'
<1>1. \A u \in Coroutines : Sound(task[u])'
  <2> SUFFICES ASSUME NEW u \in Coroutines PROVE Sound(task[u])'
    OBVIOUS
  <2>1. task'[u] = IF u = t THEN n ELSE task[u]
    BY DEF IInv, TypeOK, Coroutines
  <2>2. CASE u = t
    BY <2>1, <2>2 DEF Sound, Captured, Pending
  <2>3. CASE u # t
    <3> DEFINE m == task[u]
    <3>1. Sound(m)
      BY DEF IInv
    <3>2. task'[u] = m
      BY <2>1, <2>3
    <3> HIDE DEF m
    <3> QED BY <3>1, <3>2, SoundFrame DEF Sound, Captured, Pending, Frame, Fine
  <2> QED BY <2>2, <2>3
<1>2. task' \in [Coroutines -> Records]
  <2>1. n \in Records
    BY DEF Sound
  <2> QED BY <2>1 DEF IInv, TypeOK, Coroutines, Records
<1>3. \A u \in Coroutines : task'[u].first \subseteq task'[u].plan
  BY <1>1 DEF Sound
<1>4. TypeOK'
  BY <1>2, <1>3 DEF IInv, TypeOK, Frame, Around, Coroutines, Records, Clocks, Positions
<1> QED BY <1>1, <1>4 DEF IInv, Frame

(* A coroutine that was in r sends an order.                               *)
LEMMA OrderedStep ==
  ASSUME IInv, Frame, Around, NEW t \in Coroutines, NEW r \in Records,
         Fine => Captured(Pending(r)), Ordered(t, r)
  PROVE  IInv' /\ ~Naked
<1>1. PICK n \in Records :
        /\ task' = [task EXCEPT ![t] = n]
        /\ Pending(n) = Pending(r) /\ n.first \subseteq n.plan
        /\ n.out = {} => n.plan = {}
        /\ Fine' => /\ n.out \subseteq exited'
                    /\ n.out # {} => n.sent
                    /\ "call" \in n.plan => "put" \in exited'
  BY DEF Ordered
<1>2. \A s \in Pending(n) : s \in Legs
  BY DEF Records, Pending
<1>3. Fine' => Captured(Pending(n))'
  <2> SUFFICES ASSUME Fine' PROVE Captured(Pending(n))'
    OBVIOUS
  <2>1. Captured(Pending(n))
    BY <1>1 DEF Frame
  <2> QED BY <1>2, <2>1 DEF Captured, Frame, Pending
<1>4. Sound(n)'
  BY <1>1, <1>3 DEF Sound, Frame
<1>5. ~Naked
  BY DEF Ordered
<1> QED BY <1>1, <1>4, <1>5, Moves

(* A coroutine without an order out.                                       *)
Unburdened(n) ==
  n \in Records /\ n.out = {} /\ n.plan = {} /\ n.first = {} /\ (Fine => Captured(Pending(n)))

(* A coroutine turns to something else, with no order out.                 *)
LEMMA IdleStep ==
  ASSUME IInv, NEW t \in Coroutines, NEW n, Unburdened(n),
         Become(t, n), UNCHANGED exited, Frame, Around
  PROVE  IInv' /\ ~Naked
<1>1. \A s \in Pending(n) : s \in Legs
  BY DEF Records, Pending, Unburdened
<1>2. Fine' => Captured(Pending(n))'
  BY <1>1 DEF Captured, Frame, Pending, Unburdened
<1>3. Sound(n)'
  BY <1>2 DEF Sound, Unburdened
<1> QED BY <1>3, Moves DEF Naked, Become

(* No coroutine moves.                                                     *)
LEMMA StillStep ==
  ASSUME IInv, Frame, Around, UNCHANGED <<task, exited>>
  PROVE  IInv' /\ ~Naked
<1>1. ASSUME NEW u \in Coroutines PROVE Sound(task[u])'
  <2> DEFINE m == task[u]
  <2>1. Sound(m) /\ task'[u] = m
    BY DEF IInv
  <2> HIDE DEF m
  <2> QED BY <2>1, SoundFrame DEF Sound, Captured, Pending, Frame, Fine
<1>2. TypeOK'
  BY DEF IInv, TypeOK, Frame, Around, Clocks, Positions
<1> QED BY <1>1, <1>2 DEF IInv, Frame, Naked

(* Nothing of the positions changes.                                       *)
LEMMA SameFrame ==
  ASSUME IInv, UNCHANGED pos, exited \subseteq exited', exited' \subseteq Legs,
         faults' \in 0..MaxFaults, Fine' => Fine
  PROVE  Frame
BY DEF IInv, TypeOK, CallLong, Frame, Positions

(* What stays of a position, and whether it is a runner, changes; the      *)
(* position does not disappear.                                            *)
LEMMA KeptFrame ==
  ASSUME IInv, exited \subseteq exited', exited' \subseteq Legs,
         faults' \in 0..MaxFaults, Fine' => Fine,
         NEW s \in Legs, NEW p \in Positions, pos' = [pos EXCEPT ![s] = p],
         pos[s].qty # 0 => p.qty # 0, s = "call" => p.qty >= 0
  PROVE  Frame
<1>1. pos \in [Legs -> Positions]
  BY DEF IInv, TypeOK, Positions
<1>2. pos' \in [Legs -> Positions] /\ \A l \in Legs : pos'[l] = IF l = s THEN p ELSE pos[l]
  BY <1>1
<1>3. CallLong'
  BY <1>2 DEF IInv, CallLong, Legs
<1> QED BY <1>2, <1>3 DEF Frame

(* The bounds: a step that fails, and one that does not.                   *)
LEMMA FaultBound ==
  ASSUME IInv, UNCHANGED faults \/ Faulty
  PROVE  faults' \in 0..MaxFaults /\ (Fine' => Fine) /\ (Faulty => ~Fine')
BY BoundAssumption DEF IInv, TypeOK, Faulty, Fine

LEMMA CutBound ==
  ASSUME IInv, UNCHANGED cuts \/ Cutting
  PROVE  cuts' \in 0..MaxCuts
BY BoundAssumption DEF IInv, TypeOK, Cutting

LEMMA Begin ==
  ASSUME IInv
  PROVE  /\ exited \subseteq Legs /\ lost \subseteq Legs /\ armed \subseteq Legs
         /\ clock \in Clocks /\ cuts \in 0..MaxCuts /\ faults \in 0..MaxFaults
         /\ pos \in [Legs -> Positions] /\ Held \subseteq Legs
         /\ "monitor" \in Coroutines /\ "risk" \in Coroutines
BY DEF IInv, TypeOK, Clocks, Positions, Held, Coroutines

(* A coroutine orders a position out, and no position changes.             *)
LEMMA ExitStep ==
  ASSUME IInv, Around, UNCHANGED pos, NEW t \in Coroutines, NEW r, Unburdened(r),
         NEW s \in Legs, Fine => Captured({s}), Exit(t, r, s)
  PROVE  IInv' /\ ~Naked
<1>1. Ordered(t, r)
  BY ExitEffect DEF Unburdened
<1>2. Frame
  BY <1>1, SameFrame DEF Ordered
<1> QED BY <1>1, <1>2, OrderedStep DEF Unburdened

(* A partial exit.                                                         *)
LEMMA PortionStep ==
  ASSUME IInv, NEW t \in Coroutines, NEW r, Unburdened(r), NEW s \in Legs,
         Fine => Captured({s}), NEW pct \in {25, 50, 70},
         NEW p \in Positions, p.qty = pos[s].qty, NEW mem, mem = [pos EXCEPT ![s] = p],
         Portion(t, r, s, pct, mem), UNCHANGED <<class, armed, clock, lost>>
  PROVE  IInv' /\ ~Naked
<1>1. cuts' \in 0..MaxCuts /\ Around
  <2>1. UNCHANGED cuts \/ Cutting
    BY DEF Portion
  <2> QED BY <2>1, CutBound, Begin DEF Around
<1>2. s = "call" => p.qty >= 0
  BY DEF IInv, CallLong
<1>3. CASE Exit(t, r, s) /\ pos' = mem
  <2>1. Ordered(t, r)
    BY <1>3, ExitEffect DEF Unburdened
  <2>2. Frame
    BY <1>2, <1>3, <2>1, KeptFrame DEF Ordered
  <2> QED BY <1>1, <2>1, <2>2, OrderedStep DEF Unburdened
<1>4. CASE Become(t, r) /\ UNCHANGED <<exited, faults>> /\ pos' = mem
  <2>1. Frame
    BY <1>2, <1>4, KeptFrame, FaultBound, Begin
  <2> QED BY <1>1, <1>4, <2>1, IdleStep
<1>5. CASE /\ Become(t, r) /\ UNCHANGED <<exited, faults>> /\ ~Whole(pos[s].qty, pct)
           /\ pos' = [mem EXCEPT ![s] = Cut(@, pct)]
  <2>1. /\ Cut(p, pct) \in Positions /\ Cut(p, pct).qty # 0 /\ Cut(p, pct).qty >= 0
    BY <1>5, CutLeaves
  <2>2. pos' = [pos EXCEPT ![s] = Cut(p, pct)]
    BY <1>5, Begin
  <2>3. faults' \in 0..MaxFaults /\ (Fine' => Fine)
    BY <1>5, FaultBound
  <2>4. exited \subseteq exited' /\ exited' \subseteq Legs
    BY <1>5, Begin
  <2> DEFINE q == Cut(p, pct)
  <2>5. q \in Positions /\ q.qty # 0 /\ q.qty >= 0 /\ pos' = [pos EXCEPT ![s] = q]
    BY <2>1, <2>2
  <2> HIDE DEF q
  <2>6. Frame
    BY <2>3, <2>4, <2>5, KeptFrame
  <2> QED BY <1>1, <1>5, <2>6, IdleStep
<1> QED BY <1>3, <1>4, <1>5 DEF Portion

-----------------------------------------------------------------------------
(* The market monitor.                                                     *)

LEMMA BarrierRange ==
  ASSUME IInv, class # "POSITIONAL",
         NEW reading \in Readings, NEW s \in Legs, NEW index \in BOOLEAN
  PROVE  Barrier(reading, s, index) \in {Hold, Full, Some(70)}
<1>1. Kinetic(reading, pos[s].runner, index) \in {Hold, Full, Some(70)}
  BY DEF Kinetic
<1>2. ZeroDte(reading, index) \in {Hold, Full}
  BY DEF ZeroDte
<1>3. class = "KINETIC" \/ class = "ZERO_DTE"
  BY ClassAssumption DEF IInv, TypeOK
<1>4. CASE class = "KINETIC"
  <2>1. Barrier(reading, s, index) = Kinetic(reading, pos[s].runner, index)
    BY <1>4 DEF Barrier
  <2> QED BY <1>1, <2>1
<1>5. CASE class = "ZERO_DTE"
  <2>1. Barrier(reading, s, index) = ZeroDte(reading, index)
    BY <1>5, Zenon DEF Barrier
  <2> QED BY <1>2, <2>1
<1> QED BY <1>3, <1>4, <1>5

(* The waterfall exits the position, takes a quarter of it, or nothing.    *)
LEMMA WaterfallStep ==
  ASSUME IInv, UNCHANGED <<class, armed, clock, lost>>, NEW r, Unburdened(r),
         NEW s \in Legs, Fine => Captured({s}), Waterfall(r, s)
  PROVE  IInv' /\ ~Naked
<1>1. CASE Exit("monitor", r, s) /\ UNCHANGED <<pos, cuts>>
  <2>1. Around
    BY <1>1, Begin DEF Around
  <2> QED BY <1>1, <2>1, Begin, ExitStep
<1>2. CASE Portion("monitor", r, s, 25, pos)
  <2> DEFINE p == pos[s]
  <2>1. p \in Positions /\ p.qty = pos[s].qty /\ pos = [pos EXCEPT ![s] = p]
    BY Begin
  <2>2. 25 \in {25, 50, 70} /\ "monitor" \in Coroutines
    BY DEF Coroutines
  <2> HIDE DEF p
  <2> QED BY <1>2, <2>1, <2>2, PortionStep
<1> QED BY <1>1, <1>2 DEF Waterfall

(* The gates and the barriers, for the monitor in r with nothing out.      *)
LEMMA JudgeStep ==
  ASSUME IInv, UNCHANGED <<class, armed, clock, lost>>, NEW r, Unburdened(r),
         NEW s \in Legs, Fine => Captured({s}), NEW reading \in Readings, Judge(s, r, reading)
  PROVE  IInv' /\ ~Naked
<1> DEFINE verdict == Barrier(reading, s, r.index)
           runner  == IF s \in Held /\ class = "KINETIC" THEN [pos EXCEPT ![s].runner = TRUE]
                      ELSE pos
<1>1. CASE Exit("monitor", r, s) /\ UNCHANGED <<pos, cuts>>
  <2>1. Around
    BY <1>1, Begin DEF Around
  <2> QED BY <1>1, <2>1, Begin, ExitStep
<1>2. CASE Become("monitor", r) /\ UNCHANGED <<pos, exited, cuts, faults>>
  <2>1. Around
    BY <1>2, Begin DEF Around
  <2>2. Frame
    BY <1>2, Begin, FaultBound, SameFrame
  <2> QED BY <1>2, <2>1, <2>2, Begin, IdleStep
<1>3. CASE Waterfall(r, s)
  BY <1>3, WaterfallStep
<1>4. CASE verdict = Some(70) /\ Portion("monitor", r, s, 70, runner)
  <2>1. \E p \in Positions : p.qty = pos[s].qty /\ runner = [pos EXCEPT ![s] = p]
    <3>1. CASE s \in Held /\ class = "KINETIC"
      <4> DEFINE p == [pos[s] EXCEPT !.runner = TRUE]
      <4>1. p \in Positions /\ p.qty = pos[s].qty /\ runner = [pos EXCEPT ![s] = p]
        BY <3>1, Begin DEF Positions
      <4> QED BY <4>1
    <3>2. CASE ~(s \in Held /\ class = "KINETIC")
      BY <3>2, Begin DEF Positions
    <3> QED BY <3>1, <3>2
  <2>2. 70 \in {25, 50, 70} /\ "monitor" \in Coroutines
    BY DEF Coroutines
  <2> HIDE DEF runner
  <2> QED BY <1>4, <2>1, <2>2, PortionStep
<1>5. class # "POSITIONAL" => verdict \in {Hold, Full, Some(70)}
  BY BarrierRange DEF Records, Unburdened
<1>6. Some(70).pct = 70
  BY DEF Some
<1> HIDE DEF verdict, runner
<1>7. \/ Exit("monitor", r, s) /\ UNCHANGED <<pos, cuts>>
      \/ Become("monitor", r) /\ UNCHANGED <<pos, exited, cuts, faults>>
      \/ Waterfall(r, s)
      \/ /\ class # "POSITIONAL" /\ verdict # Full /\ verdict # Hold
         /\ Portion("monitor", r, s, verdict.pct, runner)
  BY Zenon DEF Judge, verdict, runner
<1>8. CASE /\ class # "POSITIONAL" /\ verdict # Full /\ verdict # Hold
           /\ Portion("monitor", r, s, verdict.pct, runner)
  <2>1. verdict = Some(70) /\ verdict.pct = 70
    BY <1>5, <1>6, <1>8
  <2>2. Portion("monitor", r, s, 70, runner)
    BY <1>8, <2>1
  <2> QED BY <1>4, <2>1, <2>2
<1> QED BY <1>1, <1>2, <1>3, <1>7, <1>8

(* What the invariant says of a coroutine without an order out.            *)
LEMMA FreeCoroutine ==
  ASSUME IInv, NEW t \in Coroutines, task[t].out = {}
  PROVE  Unburdened(task[t])
<1>1. Sound(task[t])
  BY DEF IInv
<1> QED BY <1>1 DEF Sound, Unburdened

(* It stays so when what it has to handle was pending or is in memory.     *)
LEMMA StaysFree ==
  ASSUME NEW r, Unburdened(r), NEW n \in Records,
         n.out = r.out, n.plan = r.plan, n.first = r.first,
         \A s \in Pending(n) : s \in Pending(r) \/ s \in Held
  PROVE  Unburdened(n)
BY DEF Unburdened, Captured, Held

(* The position s is taken out of what is still to be judged or exited.    *)
LEMMA WithoutOne ==
  ASSUME NEW r, Unburdened(r), NEW s
  PROVE  Unburdened([r EXCEPT !.todo = @ \ {s}])
<1> DEFINE n == [r EXCEPT !.todo = @ \ {s}]
<1>1. r \in Records
  BY DEF Unburdened
<1>2. /\ n \in Records /\ n.out = r.out /\ n.plan = r.plan /\ n.first = r.first
      /\ n.todo = r.todo \ {s} /\ n.cut = r.cut /\ n.hedged = r.hedged
  BY <1>1 DEF Records
<1> HIDE DEF n
<1>3. \A l \in Pending(n) : l \in Pending(r)
  BY <1>2 DEF Pending
<1>4. Unburdened(n)
  BY <1>2, <1>3, StaysFree
<1> QED BY <1>4 DEF n

(* Gate 2: both legs are to be reduced.                                    *)
LEMMA ReduceStep ==
  ASSUME IInv, Around, NEW s \in Legs, Unburdened(task["monitor"]), Reduce(s)
  PROVE  IInv' /\ ~Naked
<1> DEFINE r == task["monitor"]
           n == [r EXCEPT !.todo = @ \ {s}, !.cut = Held]
<1>1. r \in Records /\ Held \in SUBSET Legs
  BY Begin DEF Unburdened
<1>2. /\ n \in Records /\ n.out = r.out /\ n.plan = r.plan /\ n.first = r.first
      /\ n.todo = r.todo \ {s} /\ n.cut = Held /\ n.hedged = r.hedged
  BY <1>1 DEF Records
<1>3. Become("monitor", n) /\ UNCHANGED <<pos, exited, cuts, faults>>
  BY DEF Reduce
<1> HIDE DEF n
<1>4. \A l \in Pending(n) : l \in Pending(r) \/ l \in Held
  BY <1>2 DEF Pending
<1>5. Unburdened(n)
  BY <1>2, <1>4, StaysFree
<1>6. Frame
  BY <1>3, Begin, FaultBound, SameFrame
<1> QED BY <1>3, <1>5, <1>6, Begin, IdleStep

(* The waterfall, after which the gates go on with the position.           *)
LEMMA HedgeStep ==
  ASSUME IInv, UNCHANGED <<class, armed, clock, lost>>, NEW s \in Legs,
         Unburdened(task["monitor"]), Hedge(s)
  PROVE  IInv' /\ ~Naked
<1> DEFINE r == task["monitor"]
           n == [r EXCEPT !.hedged = {s}, !.todo = @ \ {s}]
<1>1. r \in Records /\ {s} \in SUBSET Legs
  BY DEF Unburdened
<1>2. /\ n \in Records /\ n.out = r.out /\ n.plan = r.plan /\ n.first = r.first
      /\ n.todo = r.todo \ {s} /\ n.cut = r.cut /\ n.hedged = {s}
  BY <1>1 DEF Records
<1>3. s \in Held /\ Waterfall(n, s)
  BY DEF Hedge
<1> HIDE DEF n
<1>4. \A l \in Pending(n) : l \in Pending(r) \/ l \in Held
  BY <1>2, <1>3 DEF Pending
<1>5. Unburdened(n)
  BY <1>2, <1>4, StaysFree
<1>6. Captured({s})
  BY <1>3 DEF Captured, Held
<1> QED BY <1>3, <1>5, <1>6, WaterfallStep

(* A coroutine that begins anew, with positions that are in memory.        *)
Begun(n) == /\ n \in Records /\ n.out = {} /\ n.plan = {} /\ n.first = {} /\ n.hedged = {}
            /\ n.todo \subseteq Held /\ n.cut \subseteq Held

LEMMA RestingBegun ==
  /\ Begun(Resting)
  /\ \A c \in {"rest", "slash", "gate", "draw", "eval"}, x \in BOOLEAN, legs \in SUBSET Held :
       /\ Begun([Resting EXCEPT !.pc = c, !.todo = legs])
       /\ Begun([Resting EXCEPT !.pc = c, !.cut = legs])
       /\ Begun([Resting EXCEPT !.pc = c, !.index = x, !.todo = legs])
<1>1. Begun(Resting)
  BY DEF Begun, Resting, Records
<1>2. SUBSET Held \subseteq SUBSET Legs
  BY DEF Held
<1> HIDE DEF Resting
<1>3. ASSUME NEW c \in {"rest", "slash", "gate", "draw", "eval"}, NEW x \in BOOLEAN,
             NEW legs \in SUBSET Held
      PROVE  /\ Begun([Resting EXCEPT !.pc = c, !.todo = legs])
             /\ Begun([Resting EXCEPT !.pc = c, !.cut = legs])
             /\ Begun([Resting EXCEPT !.pc = c, !.index = x, !.todo = legs])
  <2>1. legs \in SUBSET Legs /\ Resting \in Records
    BY <1>1, <1>2 DEF Begun
  <2>2. Begun([Resting EXCEPT !.pc = c, !.todo = legs])
    BY <1>1, <2>1 DEF Begun, Records
  <2>3. Begun([Resting EXCEPT !.pc = c, !.cut = legs])
    BY <1>1, <2>1 DEF Begun, Records
  <2>4. Begun([Resting EXCEPT !.pc = c, !.index = x, !.todo = legs])
    BY <1>1, <2>1 DEF Begun, Records
  <2> QED BY <2>2, <2>3, <2>4
<1> QED BY <1>1, <1>3

LEMMA BeginStep ==
  ASSUME IInv, NEW t \in Coroutines, NEW n, Begun(n), Become(t, n),
         UNCHANGED <<pos, exited>>, UNCHANGED faults \/ Faulty, Around
  PROVE  IInv' /\ ~Naked
<1>1. Unburdened(n)
  BY DEF Begun, Captured, Held, Unburdened, Pending
<1>2. Frame
  BY Begin, FaultBound, SameFrame
<1> QED BY <1>1, <1>2, IdleStep

LEMMA TickStep == ASSUME IInv, (\E s \in Legs : Tick(s)) \/ IndexTick \/ Turn
                  PROVE  IInv' /\ ~Naked
<1>1. UNCHANGED <<class, armed, pos, exited, lost, clock, cuts, faults>>
  BY DEF Tick, IndexTick, Turn
<1>2. \/ \E legs \in SUBSET Held : Become("monitor", [Resting EXCEPT !.pc = "eval", !.todo = legs])
      \/ \E c \in {"draw", "eval"}, legs \in SUBSET Held :
           Become("monitor", [Resting EXCEPT !.pc = c, !.index = TRUE, !.todo = legs])
  BY DEF Tick, IndexTick, Turn, Held
<1>3. \E n : Begun(n) /\ Become("monitor", n)
  BY <1>2, RestingBegun
<1>4. Around
  BY <1>1, Begin DEF Around
<1> QED BY <1>1, <1>3, <1>4, Begin, BeginStep

LEMMA CheckStep == ASSUME IInv, Check PROVE IInv' /\ ~Naked
<1>1. /\ UNCHANGED <<class, armed, pos, exited, lost, cuts, faults>>
      /\ Swept \in SUBSET Held
  BY DEF Check, Swept
<1>2. clock' \in Clocks
  BY Begin DEF Clocks, Check
<1>3. \/ \E c \in {"gate", "draw"}, legs \in SUBSET Held :
           Become("risk", [Resting EXCEPT !.pc = c, !.todo = legs])
      \/ \E legs \in SUBSET Held : Become("risk", [Resting EXCEPT !.pc = "slash", !.cut = legs])
      \/ Become("risk", Resting)
  BY <1>1 DEF Check
<1>4. \E n : Begun(n) /\ Become("risk", n)
  BY <1>3, RestingBegun
<1>5. Around
  BY <1>1, <1>2, Begin DEF Around
<1> QED BY <1>1, <1>4, <1>5, Begin, BeginStep

LEMMA TakeStep == ASSUME IInv, NEW t \in Coroutines, Take(t) PROVE IInv' /\ ~Naked
<1>1. PICK s \in task[t].todo : Exit(t, [task[t] EXCEPT !.todo = @ \ {s}], s)
  BY DEF Take
<1>2. task[t].out = {} /\ UNCHANGED <<class, armed, pos, clock, lost, cuts>>
  BY DEF Take, Free
<1>3. Unburdened(task[t]) /\ Unburdened([task[t] EXCEPT !.todo = @ \ {s}])
  BY <1>2, FreeCoroutine, WithoutOne
<1>4. s \in Legs /\ (Fine => Captured({s}))
  BY <1>3 DEF Captured, Records, Unburdened, Pending
<1>5. Around
  BY <1>2, Begin DEF Around
<1> QED BY <1>1, <1>2, <1>3, <1>4, <1>5, ExitStep

LEMMA TrimStep == ASSUME IInv, NEW t \in Coroutines, Trim(t) PROVE IInv' /\ ~Naked
<1> DEFINE pct == IF t = "risk" THEN 25 ELSE 50
<1>1. PICK s \in task[t].cut : Portion(t, [task[t] EXCEPT !.cut = @ \ {s}], s, pct, pos)
  BY DEF Trim
<1>2. task[t].out = {} /\ UNCHANGED <<class, armed, clock, lost>>
  BY DEF Trim
<1> DEFINE r == task[t]
           n == [r EXCEPT !.cut = @ \ {s}]
<1>3. Unburdened(r)
  BY <1>2, FreeCoroutine
<1>4. /\ n \in Records /\ n.out = r.out /\ n.plan = r.plan /\ n.first = r.first
      /\ n.todo = r.todo /\ n.cut = r.cut \ {s} /\ n.hedged = r.hedged
  BY <1>3 DEF Records, Unburdened
<1>5. s \in Legs /\ (Fine => Captured({s}))
  BY <1>3 DEF Captured, Records, Unburdened, Pending
<1>6. pct \in {25, 50, 70} /\ Portion(t, n, s, pct, pos)
  BY <1>1
<1> HIDE DEF n, pct, r
<1>7. \A l \in Pending(n) : l \in Pending(r)
  BY <1>4 DEF Pending
<1>8. Unburdened(n)
  BY <1>3, <1>4, <1>7, StaysFree
<1> DEFINE p == pos[s]
<1>9. p \in Positions /\ p.qty = pos[s].qty /\ pos = [pos EXCEPT ![s] = p]
  BY <1>5, Begin
<1> HIDE DEF p
<1> QED BY <1>2, <1>5, <1>6, <1>8, <1>9, PortionStep

LEMMA EvaluateStep == ASSUME IInv, Evaluate PROVE IInv' /\ ~Naked
<1> DEFINE r == task["monitor"]
<1>1. r.out = {} /\ UNCHANGED <<class, armed, clock, lost>>
  BY DEF Evaluate, Free
<1>2. Unburdened(r)
  BY <1>1, Begin, FreeCoroutine
<1>3. r \in Records /\ r.todo \subseteq Legs /\ r.hedged \subseteq Legs
  BY <1>2 DEF Records, Unburdened
<1>4. ASSUME NEW s \in r.todo, Become("monitor", [r EXCEPT !.todo = @ \ {s}]),
             UNCHANGED <<pos, exited, cuts, faults>>
      PROVE  IInv' /\ ~Naked
  <2>1. Unburdened([r EXCEPT !.todo = @ \ {s}])
    BY <1>2, WithoutOne
  <2>2. Frame
    BY <1>4, Begin, FaultBound, SameFrame
  <2>3. Around
    BY <1>1, <1>4, Begin DEF Around
  <2> QED BY <1>4, <2>1, <2>2, <2>3, Begin, IdleStep
<1>5. ASSUME NEW s \in r.todo, Reduce(s) PROVE IInv' /\ ~Naked
  <2>1. Around
    BY <1>1, <1>5, Begin DEF Around, Reduce
  <2> QED BY <1>2, <1>3, <1>5, <2>1, ReduceStep
<1>6. ASSUME NEW s \in r.todo, Hedge(s) PROVE IInv' /\ ~Naked
  BY <1>1, <1>2, <1>3, <1>6, HedgeStep
<1>7. ASSUME NEW s \in r.todo, s \in Held, NEW reading \in Readings,
             Judge(s, [r EXCEPT !.todo = @ \ {s}], reading)
      PROVE  IInv' /\ ~Naked
  <2>1. Unburdened([r EXCEPT !.todo = @ \ {s}])
    BY <1>2, WithoutOne
  <2>2. s \in Legs /\ Captured({s})
    BY <1>7 DEF Held, Captured
  <2> QED BY <1>1, <1>7, <2>1, <2>2, JudgeStep
<1>8. ASSUME NEW s \in r.hedged, NEW reading \in Readings,
             Judge(s, [r EXCEPT !.hedged = {}], reading)
      PROVE  IInv' /\ ~Naked
  <2> DEFINE n == [r EXCEPT !.hedged = {}]
  <2>1. {} \in SUBSET Legs
    OBVIOUS
  <2>2. /\ n \in Records /\ n.out = r.out /\ n.plan = r.plan /\ n.first = r.first
        /\ n.todo = r.todo /\ n.cut = r.cut /\ n.hedged = {}
    BY <1>3, <2>1 DEF Records
  <2>3. Judge(s, n, reading)
    BY <1>8
  <2> HIDE DEF n
  <2>4. \A l \in Pending(n) : l \in Pending(r)
    BY <2>2 DEF Pending
  <2>5. Unburdened(n)
    BY <1>2, <2>2, <2>4, StaysFree
  <2>6. s \in Legs /\ (Fine => Captured({s}))
    BY <1>2, <1>3 DEF Unburdened, Captured, Pending
  <2> QED BY <1>1, <2>3, <2>5, <2>6, JudgeStep
<1>9. CASE Become("monitor", Resting) /\ UNCHANGED <<pos, exited, cuts>> /\ (UNCHANGED faults \/ Faulty)
  <2>1. Around
    BY <1>1, <1>9, Begin DEF Around
  <2> QED BY <1>9, <2>1, Begin, RestingBegun, BeginStep
<1>10. \/ \E s \in r.todo :
            \/ /\ Become("monitor", [r EXCEPT !.todo = @ \ {s}])
               /\ UNCHANGED <<pos, exited, cuts, faults>>
            \/ Reduce(s)
            \/ Hedge(s)
            \/ /\ s \in Held
               /\ \E reading \in Readings : Judge(s, [r EXCEPT !.todo = @ \ {s}], reading)
       \/ \E s \in r.hedged, reading \in Readings : Judge(s, [r EXCEPT !.hedged = {}], reading)
       \/ Become("monitor", Resting) /\ UNCHANGED <<pos, exited, cuts>> /\ Faulty
       \/ Become("monitor", Resting) /\ UNCHANGED <<pos, exited, cuts, faults>>
  BY Zenon DEF Evaluate
<1> HIDE DEF r
<1> QED BY <1>4, <1>5, <1>6, <1>7, <1>8, <1>9, <1>10

-----------------------------------------------------------------------------
(* The order under way.                                                    *)

(* It is over, and its leg leaves memory if it belongs to a basket.        *)
LEMMA DoneStep ==
  ASSUME IInv, UNCHANGED <<class, armed, clock, cuts>>,
         NEW t \in Coroutines, NEW l \in task[t].out, Done(t, l)
  PROVE  IInv' /\ ~Naked
<1> DEFINE r == task[t]
<1>1. Sound(r)
  BY DEF IInv
<1>2. r \in Records /\ r.first \subseteq r.plan /\ l \in Legs /\ (Fine => l \in exited)
  BY <1>1 DEF Sound, Records
<1>3. pos["put"].qty \in Int
  BY Begin, LotAssumption DEF Positions, Legs
<1>4. Ordered(t, r)
  BY <1>1, <1>2, <1>3, Begin, SendEffect DEF Done, Sound
<1>5. Around
  BY <1>2, Begin DEF Around, Done
<1>6. pos' = [pos EXCEPT ![l] = Nobody] \/ UNCHANGED pos
  BY DEF Done
<1>7. /\ pos' \in [Legs -> Positions]
      /\ \A s \in Legs : pos'[s] = pos[s] \/ (s = l /\ pos'[s] = Nobody)
  BY <1>2, <1>6, Begin, NobodyType
<1>8. CallLong'
  BY <1>7, NobodyType DEF IInv, CallLong, Legs
<1>9. Fine' => Fine /\ \A s \in Legs : pos[s].qty # 0 => pos'[s].qty # 0 \/ s \in exited'
  BY <1>2, <1>4, <1>7 DEF Ordered
<1>10. Frame
  BY <1>4, <1>7, <1>8, <1>9 DEF Frame, Ordered
<1> QED BY <1>1, <1>2, <1>4, <1>5, <1>10, OrderedStep DEF Sound

LEMMA FireStep == ASSUME IInv, NEW t \in Coroutines, Fire(t) PROVE IInv' /\ ~Naked
<1> DEFINE r == task[t]
<1>0. PICK l \in r.out :
        \/ r.sent /\ Done(t, l)
        \/ /\ r.sent /\ Faulty
           /\ Become(t, [r EXCEPT !.sent = FALSE])
           /\ UNCHANGED <<pos, exited, lost>>
        \/ /\ ~r.sent /\ r.tries < 3
           /\ Attempt(t, [r EXCEPT !.tries = @ + 1], l)
           /\ UNCHANGED <<pos, lost>>
        \/ ~r.sent /\ Done(t, l)
  BY DEF Fire
<1>1. Sound(r) /\ UNCHANGED <<class, armed, clock, cuts>>
  BY DEF IInv, Fire
<1>2. r \in Records /\ r.first \subseteq r.plan /\ l \in Legs
  BY <1>1 DEF Sound, Records
<1>3. CASE Done(t, l)
  BY <1>1, <1>3, DoneStep
<1>4. CASE /\ r.sent /\ Faulty
           /\ Become(t, [r EXCEPT !.sent = FALSE])
           /\ UNCHANGED <<pos, exited, lost>>
  <2> PICK n : n = [r EXCEPT !.sent = FALSE]
    OBVIOUS
  <2>1. FALSE \in BOOLEAN
    OBVIOUS
  <2>2. n \in Records /\ n.first = r.first /\ n.plan = r.plan /\ n.out = r.out
    BY <1>2, <2>1 DEF Records
  <2>3. task' = [task EXCEPT ![t] = n]
    BY <1>4 DEF Become
  <2>4. faults' \in 0..MaxFaults /\ ~Fine' /\ (Fine' => Fine)
    BY <1>4, FaultBound
  <2>5. Frame
    BY <1>4, <2>4, Begin, SameFrame
  <2>6. Sound(n)'
    BY <1>1, <2>2, <2>4 DEF Sound
  <2>7. Around
    BY <1>1, <1>4, Begin DEF Around
  <2> QED BY <1>4, <2>3, <2>5, <2>6, <2>7, Moves DEF Naked
<1>5. CASE /\ ~r.sent /\ r.tries < 3
           /\ Attempt(t, [r EXCEPT !.tries = @ + 1], l)
           /\ UNCHANGED <<pos, lost>>
  <2> DEFINE n == [r EXCEPT !.tries = @ + 1]
  <2>1. r.tries + 1 \in 1..3
    BY <1>2, <1>5 DEF Records
  <2>2. /\ n \in Records /\ n.first = r.first /\ n.plan = r.plan /\ n.out = r.out
        /\ n.todo = r.todo /\ n.cut = r.cut /\ n.hedged = r.hedged
    BY <1>2, <2>1 DEF Records
  <2>3. Attempt(t, n, l)
    BY <1>5
  <2> HIDE DEF n
  <2>4. ~Fine
    BY <1>1, <1>5 DEF Sound
  <2>5. Ordered(t, n)
    BY <1>2, <2>2, <2>3, <2>4, Begin, AttemptEffect
  <2>6. Frame
    BY <1>5, <2>5, SameFrame DEF Ordered
  <2>7. Around
    BY <1>1, <1>5, Begin DEF Around
  <2> QED BY <2>2, <2>4, <2>5, <2>6, <2>7, OrderedStep
<1> QED BY <1>0, <1>3, <1>4, <1>5

-----------------------------------------------------------------------------
(* The alerts, the clock, the crash.                                       *)

LEMMA ArmStep == ASSUME IInv, NEW s \in Legs, Arm(s) PROVE IInv' /\ ~Naked
<1>1. PICK signed \in Signed :
        pos' = [pos EXCEPT ![s] = [qty |-> IF signed THEN Side(s) ELSE Lot, runner |-> FALSE]]
  BY DEF Arm
<1> DEFINE q == IF signed THEN Side(s) ELSE Lot
           p == [qty |-> q, runner |-> FALSE]
<1>2. q \in (-Lot)..Lot /\ q # 0
  BY SideType, LotAssumption
<1>3. s = "call" => q >= 0
  BY SideType, LotAssumption DEF Side, Sold
<1>4. p \in Positions /\ p.qty = q /\ pos' = [pos EXCEPT ![s] = p]
  BY <1>1, <1>2 DEF Positions
<1> HIDE DEF p, q
<1>5. UNCHANGED <<class, task, clock, exited, lost, cuts, faults>> /\ armed' \subseteq Legs
  BY Begin DEF Arm
<1>6. Around
  BY <1>5, Begin DEF Around
<1>7. faults' \in 0..MaxFaults /\ (Fine' => Fine)
  BY <1>5, FaultBound
<1>8. Frame
  BY <1>2, <1>3, <1>4, <1>5, <1>7, Begin, KeptFrame
<1> QED BY <1>5, <1>6, <1>8, StillStep

LEMMA QuietStep == ASSUME IInv, NextMinute \/ UNCHANGED vars PROVE IInv' /\ ~Naked
<1>1. UNCHANGED <<class, armed, pos, task, exited, lost, cuts, faults>>
  BY DEF NextMinute, vars
<1>2. clock' \in Clocks
  <2>1. CASE NextMinute
    BY <2>1 DEF NextMinute, Clocks
  <2>2. CASE UNCHANGED vars
    BY <2>2, Begin DEF vars
  <2> QED BY <2>1, <2>2
<1>3. Around
  BY <1>1, <1>2, Begin DEF Around
<1>4. Frame
  BY <1>1, Begin, FaultBound, SameFrame
<1> QED BY <1>1, <1>3, <1>4, StillStep

LEMMA LostStep == ASSUME IInv, Crash \/ Restart PROVE IInv' /\ ~Naked
<1>1. /\ UNCHANGED <<class, armed, clock, cuts, exited>> /\ lost' \subseteq Legs
      /\ faults' \in 0..MaxFaults
  BY Begin, FaultBound DEF Crash, Restart
<1>2. PICK n \in Records : /\ n.out = {} /\ n.plan = {} /\ n.first = {}
                           /\ n.todo = {} /\ n.cut = {} /\ n.hedged = {}
                           /\ task' = [t \in Coroutines |-> n]
  <2>1. /\ Resting \in Records /\ Resting.out = {} /\ Resting.plan = {} /\ Resting.cut = {}
        /\ Resting.first = {} /\ Resting.todo = {} /\ Resting.hedged = {}
    BY DEF Resting, Records
  <2>2. CASE Crash
    <3> DEFINE n == [Resting EXCEPT !.pc = "down"]
    <3>1. n \in Records /\ n.out = {} /\ n.plan = {} /\ n.first = {} /\ n.todo = {}
          /\ n.cut = {} /\ n.hedged = {}
      BY <2>1 DEF Records
    <3>2. task' = [t \in Coroutines |-> n]
      BY <2>2 DEF Crash, Coroutines
    <3> HIDE DEF n
    <3> QED BY <3>1, <3>2
  <2>3. CASE Restart
    <3>1. task' = [t \in Coroutines |-> Resting]
      BY <2>3 DEF Restart, Coroutines
    <3> QED BY <2>1, <3>1
  <2> QED BY <2>2, <2>3
<1>3. pos' \in [Legs -> Positions] /\ CallLong'
  <2>1. CASE UNCHANGED pos
    BY <2>1, Begin DEF IInv, CallLong
  <2>2. CASE pos' = [s \in Legs |-> Nobody]
    BY <2>2, NobodyType DEF CallLong, Legs
  <2> QED BY <2>1, <2>2 DEF Crash, Restart
<1>4. \A t \in Coroutines : Sound(task[t])'
  <2> SUFFICES ASSUME NEW t \in Coroutines PROVE Sound(task[t])'
    OBVIOUS
  <2>1. task'[t] = n
    BY <1>2
  <2> QED BY <1>2, <2>1 DEF Sound, Captured, Pending
<1>5. task' \in [Coroutines -> Records] /\ \A t \in Coroutines : task'[t].first \subseteq task'[t].plan
  BY <1>2
<1>6. TypeOK'
  BY <1>1, <1>3, <1>5, Begin DEF IInv, TypeOK, Coroutines, Records, Positions, Clocks
<1> QED BY <1>1, <1>3, <1>4, <1>6 DEF IInv, Naked

-----------------------------------------------------------------------------
LEMMA Start == Init => IInv
<1> SUFFICES ASSUME Init PROVE IInv
  OBVIOUS
<1>1. /\ Resting \in Records /\ Resting.first = {} /\ Resting.plan = {} /\ Resting.out = {}
      /\ Resting.todo = {} /\ Resting.cut = {} /\ Resting.hedged = {}
  BY DEF Resting, Records
<1>2. \A t \in Coroutines : task[t] = Resting
  BY DEF Init, Coroutines
<1>3. task \in [Coroutines -> Records] /\ pos \in [Legs -> Positions] /\ CallLong
  BY <1>1, NobodyType DEF Init, Coroutines, CallLong, Legs
<1>4. cuts \in 0..MaxCuts /\ faults \in 0..MaxFaults
  BY BoundAssumption DEF Init
<1>5. TypeOK
  BY <1>1, <1>2, <1>3, <1>4 DEF Init, TypeOK, Coroutines, Records, Positions
<1>6. \A t \in Coroutines : Sound(task[t])
  BY <1>1, <1>2 DEF Sound, Captured, Pending
<1> QED BY <1>3, <1>5, <1>6 DEF IInv

LEMMA Step == ASSUME IInv, [Next]_vars PROVE IInv' /\ ~Naked
<1>1. "monitor" \in Coroutines /\ "risk" \in Coroutines
  BY DEF Coroutines
<1> QED BY <1>1, ArmStep, QuietStep, TickStep, CheckStep, EvaluateStep, TakeStep, TrimStep,
           FireStep, LostStep
        DEF Next, Monitor, Risk

LEMMA Invariant == Spec => []IInv
<1>1. IInv /\ [Next]_vars => IInv'
  BY Step
<1> QED BY <1>1, Start, PTL DEF Spec

(* Positions in memory, coroutines and clock keep their shape; no quantity *)
(* exceeds the lot it was armed with, whatever partial exits leave.        *)
THEOREM TypesTheorem == Spec => []TypeOK
<1>1. IInv => TypeOK
  BY DEF IInv
<1> QED BY <1>1, Invariant, PTL

(* As long as nothing failed, the protective call is ordered out for the   *)
(* first time only after a put that memory knows as sold, whichever of the *)
(* two coroutines, gates, alerts and partial exits come in between.        *)
THEOREM ShortsTheorem == Spec => ShortsFirst
<1>1. IInv /\ [Next]_vars =>
        [faults = MaxFaults /\ pos["put"].qty < 0 /\ "call" \in exited' \ exited
           => "put" \in exited]_vars
  BY Step DEF Naked, Fine
<1> QED BY <1>1, Invariant, PTL DEF Spec, ShortsFirst

=============================================================================
