------------------------- MODULE Reconciler_proofs -------------------------
(***************************************************************************)
(* The life of a basket, for any number of legs, announcements, crashes    *)
(* and failing passes: nothing is closed without a refusal, at most three  *)
(* times before the dead letter, and nothing is filled once it was closed. *)
(* The invariants behind it: a refusal at the broker or in Redis is final, *)
(* and what the pass, its cached book and its verdicts rest on is such a   *)
(* refusal (Grounded); the closes of a leg are counted by the retries      *)
(* (Counted); without a book, the leg whose hash caused a rollback is seen *)
(* rejected by every later pass (Remembered).                              *)
(***************************************************************************)
EXTENDS Reconciler, TLAPS

States  == {"none", "open", "complete", "rejected"}
Entries == [state : States, filled : 0..Qty]
Views   == [status : Statuses \cup {"none"}, left : 0..Qty]
Orders  == [fill : Nat, close : Nat]
Passes  == [pc : {"idle", "scan", "roll"}, at : 1..(N + 1)]

Counts  == [originations : Nat, crashes : Nat, faults : Nat, misreads : Nat]

Shape ==
  /\ setup \in Setups
  /\ order \in [Leg -> Entries] /\ book \in [Leg -> Entries]
  /\ call \in [Leg -> {"new", "sent", "refused", "done"}]
  /\ hash \in [Leg -> {"none", "COMPLETE", "REJECTED"}]
  /\ seen \in [Leg -> Views]
  /\ pass \in Passes
  /\ retries \in 0..3
  /\ cmd \in [Leg -> Orders]
  /\ dead \in Nat
  /\ count \in Counts

AnyRefused == \E l \in Leg : Refused(l)
AnyClosed  == \E l \in Leg : cmd[l].close > 0

Grounded ==
  /\ \A l \in Leg : call[l] \in {"new", "refused"} => order[l].state = "none"
  /\ \A l \in Leg : hash[l] # "none" => call[l] = "done"
  /\ \A l \in Leg : book[l].state = "rejected" => order[l].state = "rejected"
  /\ \A l \in Leg : seen[l].status = "REJECTED" => AnyRefused
  /\ pass.pc = "roll" => AnyRefused
  /\ AnyClosed => AnyRefused

-----------------------------------------------------------------------------
Fold(n) == Qty * n

Spent == 3 * count.crashes + retries

Counted ==
  /\ pass.pc = "roll" => retries > 0
  /\ dead = 0 => \A l \in Leg :
       /\ cmd[l].close <= Fold(Spent)
       /\ pass.pc = "roll" /\ pass.at <= l => cmd[l].close <= Fold(Spent - 1)

Witnessed(l) ==
  /\ hash[l] = "REJECTED"
  /\ pass.pc = "scan" /\ pass.at > l => seen[l].status = "REJECTED"

Remembered ==
  ~BookAnswers /\ count.misreads = 0 =>
    /\ \A l \in Leg : seen[l].status = "REJECTED" => l \in Tagged /\ hash[l] = "REJECTED"
    /\ AnyClosed \/ pass.pc = "roll" => \E l \in Tagged : Witnessed(l)

-----------------------------------------------------------------------------
LEMMA NoBookShape == NoBook \in [Leg -> Entries] /\ \A l \in Leg : NoBook[l].state = "none"
BY SizeAssumption DEF NoBook, Entries, States

(* What a pass may be told about a leg.                                    *)
LEMMA LookupFacts ==
  ASSUME Shape, NEW l \in Leg, NEW r \in Lookups(l) \cup Unhashed
  PROVE  /\ r.status \in Statuses
         /\ r.filled \in 0..Qty /\ r.left \in 0..Qty
         /\ r.book = book \/ r.book = order
         /\ r.status = "REJECTED" =>
              \/ hash[l] = "REJECTED"
              \/ \E m \in Leg : book[m].state = "rejected" \/ order[m].state = "rejected"
         /\ ~BookAnswers /\ r.status = "REJECTED" => hash[l] = "REJECTED"
         /\ hash[l] = "REJECTED" /\ r \in Lookups(l) => r.status = "REJECTED"
<1>1. CASE hash[l] # "none" /\ r = Hashed(l)
  BY <1>1, SizeAssumption DEF Hashed, Shape, Statuses
<1>2. CASE r \in Unhashed
  <2>0. r \in Lookups(l) /\ hash[l] # "none" => r = Hashed(l)
    BY DEF Lookups
  <2>1. CASE r = [status |-> "PENDING", book |-> book, filled |-> 0, left |-> Qty]
    <3>1. hash[l] = "REJECTED" => r # Hashed(l)
      BY <2>1 DEF Hashed
    <3> QED BY <2>0, <2>1, <3>1, SizeAssumption DEF Statuses
  <2>2. CASE \E b \in {book, order} : \E m \in Listed(b) : r = Told(b, m)
    <3>1. PICK b \in {book, order}, m \in Leg :
            BookAnswers /\ r = Told(b, m) /\ b[m].state # "none"
      BY <2>2 DEF Listed
    <3>2. b[m] \in Entries
      BY DEF Shape
    <3>3. b[m].filled \in 0..Qty /\ b[m].state \in States
      BY <3>2 DEF Entries
    <3>4. /\ Mapped(b[m]) = "REJECTED" => b[m].state = "rejected"
          /\ Mapped(b[m]) \in Statuses
      BY <3>1, <3>3 DEF Mapped, States, Statuses
    <3>5. Qty - b[m].filled \in 0..Qty
      BY <3>3, SizeAssumption
    <3>6. hash[l] = "REJECTED" /\ r = Hashed(l) => r.status = "REJECTED"
      BY DEF Hashed
    <3> QED BY <2>0, <3>1, <3>3, <3>4, <3>5, <3>6 DEF Told
  <2> QED BY <1>2, <2>1, <2>2 DEF Unhashed
<1> QED BY <1>1, <1>2 DEF Lookups

(* What a look at a leg does to the counters.                              *)
LEMMA LookedFacts ==
  ASSUME Shape, NEW l \in Leg, NEW r, Looked(l, r)
  PROVE  /\ count' \in Counts /\ count'.crashes = count.crashes
         /\ count'.misreads >= count.misreads
         /\ count'.misreads = 0 => r \in Lookups(l)
<1>1. count \in Counts
  BY DEF Shape
<1>2. CASE r \in Lookups(l) /\ UNCHANGED count
  BY <1>1, <1>2 DEF Counts
<1>3. CASE count' = [count EXCEPT !.faults = @ + 1, !.misreads = @ + 1]
  <2>1. count'.misreads = count.misreads + 1 /\ count'.crashes = count.crashes
    BY <1>1, <1>3 DEF Counts
  <2>2. count.misreads \in Nat /\ count.faults \in Nat
    BY <1>1 DEF Counts
  <2>3. count' = [count EXCEPT !.faults = count.faults + 1, !.misreads = count.misreads + 1]
    BY <1>3
  <2>4. count' = [originations |-> count.originations, crashes |-> count.crashes,
                  faults |-> count.faults + 1, misreads |-> count.misreads + 1]
    BY <1>1, <2>3 DEF Counts
  <2>5. count' \in Counts
    BY <1>1, <2>2, <2>4 DEF Counts
  <2> QED BY <2>1, <2>2, <2>5, <1>3, <1>1 DEF Looked
<1> QED BY <1>2, <1>3 DEF Looked

LEMMA LooksCounted ==
  ASSUME Shape, Scan \/ Roll
  PROVE  /\ count' \in Counts /\ count'.crashes = count.crashes
         /\ count'.misreads >= count.misreads
<1>1. CASE pass.at \in Tagged
  <2>1. \E r : Looked(pass.at, r)
    BY <1>1 DEF Scan, Roll
  <2> QED BY <1>1, <2>1, LookedFacts, TaggedAssumption
<1>2. CASE pass.at \notin Tagged
  BY <1>2 DEF Scan, Roll, Shape, Counts
<1> QED BY <1>1, <1>2

LEMMA UnseenShape == Unseen \in Views /\ Unseen.status = "none"
BY SizeAssumption DEF Unseen, Views

LEMMA InitGrounded == Init => Shape /\ Grounded
<1> SUFFICES ASSUME Init PROVE Shape /\ Grounded
  OBVIOUS
<1>1. Shape
  BY NoBookShape, SizeAssumption, UnseenShape DEF Init, Shape, Passes, Orders, Counts
<1>2. Grounded
  BY NoBookShape DEF Init, Grounded, Unseen, AnyRefused, AnyClosed
<1> QED BY <1>1, <1>2

(* Every step keeps the shape of the state.                                *)
LEMMA StepShape == Shape /\ [Next]_vars => Shape'
<1> SUFFICES ASSUME Shape, [Next]_vars PROVE Shape'
  OBVIOUS
<1> USE SizeAssumption
<1>1. CASE Originate
  BY <1>1 DEF Originate, Shape, Counts, broker
<1>2. CASE Pick
  <2>1. pass' \in Passes
    BY <1>2 DEF Pick, Passes
  <2>2. seen' \in [Leg -> Views] /\ book' \in [Leg -> Entries]
    BY <1>2, NoBookShape, UnseenShape DEF Pick
  <2> QED BY <1>2, <2>1, <2>2 DEF Pick, Shape, broker
<1>3. CASE Scan
  <2>1. pass' \in Passes
    BY <1>3 DEF Scan, NextLeg, Shape, Passes
  <2>2. seen' \in [Leg -> Views] /\ book' \in [Leg -> Entries]
    <3>1. CASE pass.at \in Tagged
      <4>1. PICK r \in Lookups(pass.at) \cup Unhashed :
              /\ seen' = [seen EXCEPT ![pass.at] = [status |-> r.status, left |-> r.left]]
              /\ book' = r.book
        BY <1>3, <3>1 DEF Scan
      <4>2. pass.at \in Leg
        BY <3>1, TaggedAssumption
      <4>3. [status |-> r.status, left |-> r.left] \in Views
        BY <4>2, LookupFacts DEF Views
      <4>4. book' \in [Leg -> Entries]
        BY <4>1, <4>2, LookupFacts DEF Shape
      <4> QED BY <4>1, <4>2, <4>3, <4>4 DEF Shape
    <3>2. CASE pass.at \notin Tagged
      BY <1>3, <3>2 DEF Scan, Shape
    <3> QED BY <3>1, <3>2
  <2> QED BY <1>3, <2>1, <2>2, LooksCounted DEF Scan, Shape, broker
<1>4. CASE Rollback
  <2>1. pass' \in Passes
    BY <1>4 DEF Rollback, Passes
  <2>2. retries' \in 0..3 /\ dead' \in Nat
    BY <1>4 DEF Rollback, Shape
  <2> QED BY <1>4, <2>1, <2>2 DEF Rollback, Shape, broker
<1>5. CASE Roll
  <2>1. pass' \in Passes
    BY <1>5 DEF Roll, NextLeg, Shape, Passes
  <2>2. cmd' \in [Leg -> Orders] /\ book' \in [Leg -> Entries]
    <3>1. CASE pass.at \in Tagged
      <4>1. PICK r \in Lookups(pass.at) \cup Unhashed :
              /\ book' = r.book
              /\ cmd' = IF r.status \in {"COMPLETE", "PARTIAL_FILL"}
                        THEN [cmd EXCEPT ![pass.at].close = @ + r.filled]
                        ELSE cmd
        BY <1>5, <3>1 DEF Roll
      <4>2. pass.at \in Leg
        BY <3>1, TaggedAssumption
      <4>3. cmd[pass.at] \in Orders /\ r.filled \in Nat
        BY <4>2, LookupFacts DEF Shape
      <4>4. [cmd[pass.at] EXCEPT !.close = @ + r.filled] \in Orders
        BY <4>3 DEF Orders
      <4>5. book' \in [Leg -> Entries]
        BY <4>1, <4>2, LookupFacts DEF Shape
      <4> QED BY <4>1, <4>2, <4>4, <4>5 DEF Shape
    <3>2. CASE pass.at \notin Tagged
      BY <1>5, <3>2 DEF Roll, Shape
    <3> QED BY <3>1, <3>2
  <2> QED BY <1>5, <2>1, <2>2, LooksCounted DEF Roll, Shape, broker
<1>6. CASE RollDone
  BY <1>6 DEF RollDone, Shape, broker, Passes
<1>7. CASE ForceFill
  <2>1. ASSUME NEW l \in Leg
        PROVE  [cmd[l] EXCEPT !.fill = @ + IF FullKey THEN Qty ELSE seen[l].left] \in Orders
    <3>1. cmd[l] \in Orders /\ seen[l] \in Views
      BY DEF Shape
    <3>2. seen[l].left \in Nat
      BY <3>1 DEF Views
    <3> QED BY <3>1, <3>2 DEF Orders
  <2>2. cmd' \in [Leg -> Orders]
    BY <1>7, <2>1 DEF ForceFill, Shape
  <2> QED BY <1>7, <2>2 DEF ForceFill, Shape, broker, Passes
<1>8. CASE AllFilled
  BY <1>8 DEF AllFilled, Shape, broker, Passes
<1>9. CASE Fail
  BY <1>9 DEF Fail, Shape, broker, Passes, Counts
<1>10. CASE Crash
  BY <1>10, NoBookShape DEF Crash, Shape, broker, Passes, Counts
<1>11. ASSUME NEW l \in Leg, NEW k \in States, order[l].filled \in 0..Qty
       PROVE  [order EXCEPT ![l].state = k] \in [Leg -> Entries]
  BY <1>11 DEF Shape, Entries
<1>12. ASSUME NEW l \in Leg PROVE order[l].filled \in 0..Qty
  BY DEF Shape, Entries
<1>13. ASSUME NEW l \in Leg, Place(l) PROVE Shape'
  <2>1. order' \in [Leg -> Entries]
    <3>1. order' = [order EXCEPT ![l].state = "open"] \/ order' = order
      BY <1>13 DEF Place
    <3>2. "open" \in States
      BY DEF States
    <3> QED BY <1>11, <1>12, <3>1, <3>2 DEF Shape
  <2> QED BY <1>13, <2>1 DEF Place, Shape, recon
<1>14. ASSUME NEW l \in Leg, Nudge(l) PROVE Shape'
  <2>1. order' \in [Leg -> Entries]
    BY <1>11, <1>12, <1>14 DEF Nudge, States
  <2> QED BY <1>14, <2>1 DEF Nudge, Shape, recon
<1>15. ASSUME NEW l \in Leg, Answer(l) PROVE Shape'
  BY <1>15 DEF Answer, Shape, recon
<1>16. ASSUME NEW l \in Leg, Fill(l) PROVE Shape'
  <2>1. PICK n \in (order[l].filled + 1)..Qty :
          order' = [order EXCEPT ![l] =
                      [state |-> IF n = Qty THEN "complete" ELSE "open", filled |-> n]]
    BY <1>16 DEF Fill
  <2>2. n \in 0..Qty
    BY <1>12
  <2>3. [state |-> IF n = Qty THEN "complete" ELSE "open", filled |-> n] \in Entries
    BY <2>2 DEF Entries, States
  <2>4. order' \in [Leg -> Entries]
    BY <2>1, <2>3 DEF Shape
  <2> QED BY <1>16, <2>4 DEF Fill, Shape, recon
<1>17. ASSUME NEW l \in Leg, Kill(l) PROVE Shape'
  <2>1. order' \in [Leg -> Entries]
    BY <1>11, <1>12, <1>17 DEF Kill, States
  <2> QED BY <1>17, <2>1 DEF Kill, Shape, recon
<1>18. CASE UNCHANGED vars
  BY <1>18 DEF vars, broker, recon, Shape
<1> QED BY <1>1, <1>2, <1>3, <1>4, <1>5, <1>6, <1>7, <1>8, <1>9, <1>10, <1>13, <1>14,
           <1>15, <1>16, <1>17, <1>18 DEF Next, Watch

Kept ==
  /\ \A l \in Leg : order[l].state = "rejected" => order'[l].state = "rejected"
  /\ \A l \in Leg : hash[l] # "none" => hash'[l] = hash[l]
  /\ \A l \in Leg : call'[l] \in {"new", "refused"} => order'[l].state = "none"
  /\ \A l \in Leg : hash'[l] # "none" => call'[l] = "done"

(* What the bridge and the broker do to an order leaves refusals alone and *)
(* the order and the hash in step with the call.                           *)
LEMMA OrderSteps ==
  ASSUME Shape, Grounded, [Next]_vars
  PROVE  Kept
<1>0. ASSUME NEW l \in Leg
      PROVE  /\ order[l] \in Entries
             /\ call[l] \in {"new", "refused"} => order[l].state = "none"
             /\ hash[l] # "none" => call[l] = "done"
  BY DEF Shape, Grounded
<1>1. ASSUME NEW k \in Leg, Place(k) PROVE Kept
  <2>1. \/ /\ order' = [order EXCEPT ![k].state = "open"]
           /\ call' = [call EXCEPT ![k] = "sent"]
        \/ /\ order' = order
           /\ \E c \in {"refused", "done"} : call' = [call EXCEPT ![k] = c]
    BY <1>1 DEF Place
  <2>2. call[k] = "new" /\ hash' = hash
    BY <1>1 DEF Place
  <2> QED BY <1>0, <2>1, <2>2 DEF Kept, Shape
<1>2. ASSUME NEW k \in Leg, Nudge(k) PROVE Kept
  BY <1>0, <1>2 DEF Nudge, Kept, Shape
<1>3. ASSUME NEW k \in Leg, Answer(k) PROVE Kept
  <2>1. call[k] \in {"sent", "refused"} /\ call' = [call EXCEPT ![k] = "done"] /\ order' = order
    BY <1>3 DEF Answer
  <2>2. \E h \in {"COMPLETE", "REJECTED"} : hash' = [hash EXCEPT ![k] = h] \/ hash' = hash
    BY <1>3 DEF Answer
  <2> QED BY <1>0, <2>1, <2>2 DEF Kept, Shape
<1>4. ASSUME NEW k \in Leg, Fill(k) PROVE Kept
  <2>1. PICK e : order' = [order EXCEPT ![k] = e]
    BY <1>4 DEF Fill
  <2>2. order[k].state = "open" /\ UNCHANGED <<call, hash>>
    BY <1>4 DEF Fill
  <2> QED BY <1>0, <2>1, <2>2 DEF Kept, Shape
<1>5. ASSUME NEW k \in Leg, Kill(k) PROVE Kept
  BY <1>0, <1>5 DEF Kill, Kept, Shape
<1>6. CASE UNCHANGED broker
  BY <1>0, <1>6 DEF broker, Kept
<1> QED BY <1>1, <1>2, <1>3, <1>4, <1>5, <1>6
        DEF Next, Watch, Originate, Pick, Scan, Rollback, Roll, RollDone, ForceFill, AllFilled,
            Fail, Crash, vars

(* Every step keeps what the reconciler does grounded in a refusal.        *)
LEMMA StepGrounded == Shape /\ Grounded /\ [Next]_vars => Grounded'
<1> SUFFICES ASSUME Shape, Grounded, [Next]_vars PROVE Grounded'
  OBVIOUS
<1>0. Kept
  BY OrderSteps
<1>1. AnyRefused => AnyRefused'
  BY <1>0 DEF AnyRefused, Refused, Kept
<1>2. ASSUME \A l \in Leg : book'[l].state = "rejected" =>
               book[l].state = "rejected" \/ order[l].state = "rejected"
      PROVE  \A l \in Leg : book'[l].state = "rejected" => order'[l].state = "rejected"
  BY <1>0, <1>2 DEF Grounded, Kept
<1>3. ASSUME NEW l \in Leg, NEW r \in Lookups(l) \cup Unhashed, r.status = "REJECTED" PROVE AnyRefused
  BY <1>3, LookupFacts DEF Grounded, AnyRefused, Refused
<1>4. ASSUME UNCHANGED <<book, seen, cmd>>, pass'.pc = "roll" => pass.pc = "roll"
      PROVE  Grounded'
  BY <1>0, <1>1, <1>2, <1>4 DEF Grounded, Kept, AnyClosed
<1>5. CASE Pick
  <2>1. /\ \A l \in Leg : book'[l].state = "none" /\ seen'[l].status = "none"
        /\ UNCHANGED cmd /\ pass'.pc = "scan"
    BY <1>5, NoBookShape, UnseenShape DEF Pick
  <2> QED BY <1>0, <1>1, <2>1 DEF Grounded, Kept, AnyClosed
<1>6. CASE Scan
  <2>1. UNCHANGED cmd /\ pass'.pc = pass.pc
    BY <1>6 DEF Scan, NextLeg, Shape, Passes
  <2>2. CASE pass.at \in Tagged
    <3>1. PICK r \in Lookups(pass.at) \cup Unhashed :
            /\ seen' = [seen EXCEPT ![pass.at] = [status |-> r.status, left |-> r.left]]
            /\ book' = r.book
      BY <1>6, <2>2 DEF Scan
    <3>2. pass.at \in Leg /\ (r.book = book \/ r.book = order)
      BY <2>2, TaggedAssumption, LookupFacts
    <3>3. \A l \in Leg : seen'[l].status = "REJECTED" => AnyRefused
      BY <1>3, <3>1, <3>2 DEF Shape, Grounded
    <3> QED BY <1>0, <1>1, <1>2, <2>1, <3>1, <3>2, <3>3 DEF Grounded, Kept, AnyClosed
  <2>3. CASE pass.at \notin Tagged
    BY <1>4, <1>6, <2>1, <2>3 DEF Scan
  <2> QED BY <2>2, <2>3
<1>7. CASE Roll
  <2>1. UNCHANGED seen /\ pass.pc = "roll"
    BY <1>7 DEF Roll
  <2>2. book' = book \/ book' = order
    <3>1. CASE pass.at \in Tagged
      BY <1>7, <3>1, TaggedAssumption, LookupFacts DEF Roll
    <3>2. CASE pass.at \notin Tagged
      BY <1>7, <3>2 DEF Roll
    <3> QED BY <3>1, <3>2
  <2>3. AnyRefused
    BY <2>1 DEF Grounded
  <2> QED BY <1>0, <1>1, <1>2, <2>1, <2>2, <2>3 DEF Grounded, Kept
<1>8. CASE Rollback
  <2>1. AnyRefused
    BY <1>8 DEF Rollback, Rejection, Grounded
  <2>2. UNCHANGED <<book, seen, cmd>>
    BY <1>8 DEF Rollback
  <2> QED BY <1>0, <1>1, <1>2, <2>1, <2>2 DEF Grounded, Kept, AnyClosed
<1>9. CASE ForceFill
  <2>1. UNCHANGED <<book, seen>> /\ pass'.pc = "idle"
    BY <1>9 DEF ForceFill
  <2>2. \A l \in Leg : cmd'[l].close = cmd[l].close
    BY <1>9 DEF ForceFill, Shape, Orders
  <2>3. AnyClosed' => AnyClosed
    BY <2>2 DEF AnyClosed
  <2> QED BY <1>0, <1>1, <1>2, <2>1, <2>3 DEF Grounded, Kept
<1>10. CASE Crash
  <2>1. /\ \A l \in Leg : book'[l].state = "none"
        /\ UNCHANGED <<seen, cmd>> /\ pass'.pc = "idle"
    BY <1>10, NoBookShape DEF Crash
  <2> QED BY <1>0, <1>1, <2>1 DEF Grounded, Kept, AnyClosed
<1>11. CASE Originate \/ RollDone \/ AllFilled \/ Fail \/ UNCHANGED vars
  BY <1>4, <1>11 DEF Originate, RollDone, AllFilled, Fail, vars, recon
<1>12. CASE \E l \in Leg : Place(l) \/ Nudge(l) \/ Answer(l) \/ Fill(l) \/ Kill(l)
  BY <1>4, <1>12 DEF Place, Nudge, Answer, Fill, Kill, recon
<1> QED BY <1>5, <1>6, <1>7, <1>8, <1>9, <1>10, <1>11, <1>12 DEF Next, Watch

(* Nothing is closed unless a leg of the basket really was refused: the    *)
(* rollback of order_reconciler.py never starts from a lost answer or from *)
(* a stale entry of the order book, however many legs there are.           *)
THEOREM NoCloseTheorem == Spec => []NoCloseWithoutRefusal
<1>1. Shape /\ Grounded /\ [Next]_vars => (Shape /\ Grounded)'
  BY StepShape, StepGrounded
<1>2. Grounded => NoCloseWithoutRefusal
  BY DEF Grounded, NoCloseWithoutRefusal, AnyRefused, AnyClosed
<1> QED BY InitGrounded, <1>1, <1>2, PTL DEF Spec

-----------------------------------------------------------------------------
LEMMA FoldFacts == \A n \in Int : Fold(n) \in Int /\ Fold(n + 1) = Fold(n) + Qty
BY SizeAssumption DEF Fold

LEMMA FoldGrows == \A m, n \in Int : m <= n => Fold(m) <= Fold(n)
BY SizeAssumption DEF Fold

LEMMA SpentShape == Shape => Spent \in Nat /\ \A l \in Leg : cmd[l].close \in Nat
BY DEF Shape, Spent, Counts, Orders

(* One rollback closes a leg once, and counts as a retry before it begins. *)
LEMMA StepCounted == Shape /\ Counted /\ [Next]_vars => Counted'
<1> SUFFICES ASSUME Shape, Counted, [Next]_vars PROVE Counted'
  OBVIOUS
<1>0. Shape' /\ Spent \in Nat /\ Spent' \in Nat /\ \A l \in Leg : cmd[l].close \in Nat
  <2>1. Shape'
    BY StepShape
  <2>2. Spent' \in Nat
    BY <2>1 DEF Shape, Spent, Counts
  <2> QED BY <2>1, <2>2, SpentShape
<1>1. ASSUME dead' = 0 => dead = 0, Spent' >= Spent,
             pass'.pc = "roll" => pass'.pc = pass.pc /\ pass'.at >= pass.at /\ retries' = retries,
             pass'.pc = "roll" => Spent' = Spent,
             \A l \in Leg : cmd'[l].close = cmd[l].close
      PROVE  Counted'
  <2>1. Fold(Spent) <= Fold(Spent')
    <3>1. Spent \in Int /\ Spent' \in Int /\ Spent <= Spent'
      BY <1>0, <1>1
    <3> QED BY <3>1, FoldGrows
  <2>2. pass.at \in Int /\ pass'.at \in Int
    BY <1>0 DEF Shape, Passes
  <2>3. Fold(Spent) \in Int /\ Fold(Spent') \in Int
    BY <1>0, FoldFacts
  <2>4. ASSUME NEW l \in Leg, dead' = 0
        PROVE  /\ cmd'[l].close <= Fold(Spent')
               /\ pass'.pc = "roll" /\ pass'.at <= l => cmd'[l].close <= Fold(Spent' - 1)
    <3>1. cmd[l].close <= Fold(Spent)
      BY <1>1, <2>4 DEF Counted
    <3>2. CASE pass'.pc = "roll" /\ pass'.at <= l
      <4>1. pass.at <= l
        BY <1>1, <2>2, <3>2 DEF Leg
      <4> QED BY <1>0, <1>1, <2>1, <2>3, <2>4, <3>1, <3>2, <4>1 DEF Counted
    <3> QED BY <1>0, <1>1, <2>1, <2>3, <3>1, <3>2
  <2> QED BY <1>1, <2>4 DEF Counted
<1>2. CASE Pick
  BY <1>0, <1>1, <1>2 DEF Pick, Spent
<1>3. CASE Scan
  <2>1. Spent' = Spent /\ UNCHANGED <<dead, retries, cmd>> /\ pass'.pc # "roll"
    BY <1>3, LooksCounted DEF Scan, NextLeg, Shape, Passes, Spent
  <2> QED BY <1>0, <1>1, <2>1
<1>4. CASE Rollback
  <2>1. CASE retries + 1 > 3
    BY <1>4, <2>1 DEF Rollback, Counted, Shape
  <2>2. CASE ~(retries + 1 > 3)
    <3>1. UNCHANGED <<cmd, dead, count>> /\ retries' = retries + 1
      BY <1>4, <2>2 DEF Rollback
    <3>2. Spent' = Spent + 1 /\ retries' > 0
      BY <1>0, <3>1 DEF Spent, Shape, Counts
    <3>3. Fold(Spent) <= Fold(Spent') /\ Fold(Spent' - 1) = Fold(Spent)
      BY <1>0, <3>2, FoldGrows
    <3>4. Fold(Spent) \in Int /\ Fold(Spent') \in Int
      BY <1>0, FoldFacts
    <3> QED BY <1>0, <3>1, <3>2, <3>3, <3>4 DEF Counted
  <2> QED BY <2>1, <2>2
<1>5. CASE Roll
  <2>1. /\ UNCHANGED <<dead, retries>> /\ pass.pc = "roll" /\ pass'.pc = "roll"
        /\ pass'.at = pass.at + 1 /\ pass.at \in Leg
    BY <1>5 DEF Roll, NextLeg, Shape, Passes, Leg
  <2>2. Spent' = Spent
    BY <1>5, <2>1, LooksCounted DEF Spent
  <2>3. /\ \A l \in Leg : l # pass.at => cmd'[l].close = cmd[l].close
        /\ cmd'[pass.at].close <= cmd[pass.at].close + Qty
    <3>1. CASE pass.at \in Tagged
      <4>1. PICK r \in Lookups(pass.at) \cup Unhashed :
              cmd' = IF r.status \in {"COMPLETE", "PARTIAL_FILL"}
                     THEN [cmd EXCEPT ![pass.at].close = @ + r.filled]
                     ELSE cmd
        BY <1>5, <3>1 DEF Roll
      <4>2. r.filled \in 0..Qty
        BY <2>1, LookupFacts
      <4>3. CASE cmd' = cmd
        BY <1>0, <2>1, <4>3, SizeAssumption
      <4>4. CASE cmd' = [cmd EXCEPT ![pass.at].close = @ + r.filled]
        <5>1. cmd'[pass.at].close = cmd[pass.at].close + r.filled
          BY <2>1, <4>4 DEF Shape, Orders
        <5>2. \A l \in Leg : l # pass.at => cmd'[l] = cmd[l]
          BY <4>4 DEF Shape
        <5> QED BY <1>0, <2>1, <4>2, <5>1, <5>2, SizeAssumption
      <4> QED BY <4>1, <4>3, <4>4
    <3>2. CASE pass.at \notin Tagged
      BY <1>0, <1>5, <2>1, <3>2, SizeAssumption DEF Roll
    <3> QED BY <3>1, <3>2
  <2>4. Fold(Spent - 1) + Qty = Fold(Spent) /\ Fold(Spent - 1) \in Int /\ Fold(Spent) \in Int
    <3>1. Spent - 1 \in Int /\ (Spent - 1) + 1 = Spent
      BY <1>0
    <3> QED BY <3>1, FoldFacts
  <2>5. ASSUME NEW l \in Leg, dead = 0
        PROVE  /\ cmd'[l].close <= Fold(Spent)
               /\ pass'.at <= l => cmd'[l].close <= Fold(Spent - 1)
    <3>1. cmd[l].close <= Fold(Spent) /\ (pass.at <= l => cmd[l].close <= Fold(Spent - 1))
      BY <2>1, <2>5 DEF Counted
    <3>2. CASE l = pass.at
      <4>1. cmd[l].close <= Fold(Spent - 1) /\ cmd'[l].close <= cmd[l].close + Qty
        BY <2>1, <2>3, <3>1, <3>2 DEF Leg
      <4>2. ~(pass'.at <= l)
        BY <2>1, <3>2 DEF Leg
      <4>3. cmd[l].close \in Int /\ cmd'[l].close \in Int /\ Qty \in Int
        BY <1>0, SizeAssumption DEF Shape, Orders
      <4> QED BY <2>4, <4>1, <4>2, <4>3
    <3>3. CASE l # pass.at
      BY <2>1, <2>3, <3>1, <3>3 DEF Leg
    <3> QED BY <3>2, <3>3
  <2> QED BY <2>1, <2>2, <2>5 DEF Counted
<1>6. CASE ForceFill
  <2>1. \A l \in Leg : cmd'[l].close = cmd[l].close
    BY <1>6 DEF ForceFill, Shape, Orders
  <2> QED BY <1>0, <1>1, <1>6, <2>1 DEF ForceFill, Spent
<1>7. CASE Crash
  <2>1. Spent' >= Spent
    BY <1>0, <1>7 DEF Crash, Spent, Shape, Counts
  <2> QED BY <1>1, <1>7, <2>1 DEF Crash
<1>8. CASE RollDone \/ AllFilled \/ Fail
  BY <1>0, <1>1, <1>8 DEF RollDone, AllFilled, Fail, Spent, Shape, Counts
<1>9. ASSUME UNCHANGED <<dead, pass, retries, cmd>>, count'.crashes = count.crashes PROVE Counted'
  <2>1. Spent' = Spent /\ pass.at \in Int
    BY <1>9 DEF Spent, Shape, Passes
  <2> QED BY <1>0, <1>1, <1>9, <2>1
<1>10. CASE Originate
  BY <1>9, <1>10 DEF Originate, Shape, Counts
<1>11. CASE UNCHANGED vars \/ \E l \in Leg : Place(l) \/ Nudge(l) \/ Answer(l) \/ Fill(l) \/ Kill(l)
  BY <1>9, <1>11 DEF vars, Place, Nudge, Answer, Fill, Kill, recon
<1> QED BY <1>2, <1>3, <1>4, <1>5, <1>6, <1>7, <1>8, <1>10, <1>11 DEF Next, Watch

(* However often a basket is announced again, each life of the reconciler  *)
(* closes it at most three times: rollback_retries in trigger_rollback.    *)
THEOREM StrikesTheorem == Spec => []ThreeStrikes
<1>1. Init => Shape /\ Counted
  <2> SUFFICES ASSUME Init PROVE Counted
    BY InitGrounded
  <2>1. Spent = 0 /\ pass.pc = "idle" /\ \A l \in Leg : cmd[l].close = 0
    BY DEF Init, Spent
  <2>2. Fold(Spent) = 0
    BY <2>1, SizeAssumption DEF Fold
  <2> QED BY <2>1, <2>2 DEF Counted
<1>2. Shape /\ Counted /\ [Next]_vars => (Shape /\ Counted)'
  BY StepShape, StepCounted
<1>3. Shape /\ Counted => ThreeStrikes
  <2> SUFFICES ASSUME Shape, Counted, dead = 0, NEW l \in Leg
               PROVE  cmd[l].close <= 3 * Qty * (count.crashes + 1)
    BY DEF ThreeStrikes
  <2>1. count.crashes \in Nat /\ retries \in 0..3
    BY DEF Shape, Counts
  <2>2. Spent \in Int /\ Spent <= 3 * (count.crashes + 1) /\ 3 * (count.crashes + 1) \in Int
    BY <2>1 DEF Spent
  <2>3. Fold(Spent) <= Fold(3 * (count.crashes + 1))
    BY <2>2, FoldGrows
  <2>4. Fold(3 * (count.crashes + 1)) = 3 * Qty * (count.crashes + 1)
    BY <2>1, SizeAssumption DEF Fold
  <2>5. cmd[l].close <= Fold(Spent) /\ cmd[l].close \in Int
    BY SpentShape DEF Counted
  <2>6. Fold(Spent) \in Int /\ Fold(3 * (count.crashes + 1)) \in Int
    BY <2>2, FoldFacts
  <2> QED BY <2>3, <2>4, <2>5, <2>6
<1> QED BY <1>1, <1>2, <1>3, PTL DEF Spec

-----------------------------------------------------------------------------
LEMMA SetupKept == [Next]_vars => UNCHANGED setup
BY DEF Next, Watch, vars, Originate, Pick, Scan, Rollback, Roll, RollDone, ForceFill,
       AllFilled, Fail, Crash, Place, Nudge, Answer, Fill, Kill

LEMMA MisreadsKept == Shape /\ [Next]_vars /\ count'.misreads = 0 => count.misreads = 0
<1> SUFFICES ASSUME Shape, [Next]_vars, count'.misreads = 0 PROVE count.misreads = 0
  OBVIOUS
<1>1. count.misreads \in Nat
  BY DEF Shape, Counts
<1>2. CASE Scan \/ Roll
  BY <1>1, <1>2, LooksCounted
<1>3. CASE Originate \/ Crash \/ Fail
  BY <1>3 DEF Originate, Crash, Fail, Shape, Counts
<1>4. CASE UNCHANGED count
  BY <1>4
<1> QED BY <1>2, <1>3, <1>4
        DEF Next, Watch, vars, Pick, Rollback, RollDone, ForceFill, AllFilled,
            Place, Nudge, Answer, Fill, Kill

(* A leg with a rejected hash is seen rejected by every pass that gets     *)
(* beyond it, and stays the reason why nothing is filled.                  *)
LEMMA StepRemembered == Shape /\ Grounded /\ Remembered /\ [Next]_vars => Remembered'
<1> SUFFICES ASSUME Shape, Grounded, Remembered, [Next]_vars, ~BookAnswers, count'.misreads = 0
             PROVE  Remembered'
  BY SetupKept DEF Remembered, BookAnswers
<1> USE TaggedAssumption
<1>0. \A l \in Leg : hash[l] = "REJECTED" => hash'[l] = "REJECTED"
  BY OrderSteps DEF Kept
<1>1. ~BookAnswers'
  BY SetupKept DEF BookAnswers
<1>2. /\ \A l \in Leg : seen[l].status = "REJECTED" => l \in Tagged /\ hash[l] = "REJECTED"
      /\ AnyClosed \/ pass.pc = "roll" => \E l \in Tagged : Witnessed(l)
  BY MisreadsKept DEF Remembered
<1>3. ASSUME \A l \in Leg : seen'[l].status = "REJECTED" => l \in Tagged /\ hash[l] = "REJECTED",
             pass'.pc # "scan",
             AnyClosed' \/ pass'.pc = "roll" => \E l \in Tagged : hash[l] = "REJECTED"
      PROVE  Remembered'
  BY <1>0, <1>1, <1>3 DEF Remembered, Witnessed
<1>4. ASSUME UNCHANGED <<seen, pass>>, AnyClosed' => AnyClosed PROVE Remembered'
  BY <1>0, <1>1, <1>2, <1>4 DEF Remembered, Witnessed
<1>5. CASE Pick
  <2>1. \A l \in Leg : seen'[l].status # "REJECTED" /\ ~(pass'.at > l)
    BY <1>5, UnseenShape DEF Pick, Leg
  <2>2. pass'.pc = "scan" /\ UNCHANGED cmd
    BY <1>5 DEF Pick
  <2> QED BY <1>0, <1>1, <1>2, <2>1, <2>2 DEF Remembered, Witnessed, AnyClosed
<1>6. CASE Scan
  <2>1. /\ UNCHANGED cmd /\ pass.pc = "scan" /\ pass'.pc = "scan"
        /\ pass'.at = pass.at + 1 /\ pass.at \in Leg
    BY <1>6 DEF Scan, NextLeg, Shape, Passes, Leg
  <2>2. ASSUME NEW l \in Leg
        PROVE  /\ seen'[l].status = "REJECTED" => l \in Tagged /\ hash[l] = "REJECTED"
               /\ l # pass.at => seen'[l] = seen[l]
               /\ l = pass.at /\ l \in Tagged /\ hash[l] = "REJECTED" =>
                    seen'[l].status = "REJECTED"
    <3>1. CASE pass.at \in Tagged
      <4>1. PICK r \in Lookups(pass.at) \cup Unhashed :
              /\ Looked(pass.at, r)
              /\ seen' = [seen EXCEPT ![pass.at] = [status |-> r.status, left |-> r.left]]
        BY <1>6, <3>1 DEF Scan
      <4>2. r.status = "REJECTED" <=> hash[pass.at] = "REJECTED"
        BY <2>1, <4>1, LookupFacts, LookedFacts
      <4> QED BY <1>2, <2>1, <3>1, <4>1, <4>2 DEF Shape
    <3>2. CASE pass.at \notin Tagged
      BY <1>2, <1>6, <3>2 DEF Scan
    <3> QED BY <3>1, <3>2
  <2>3. ASSUME NEW l \in Tagged, Witnessed(l) PROVE Witnessed(l)'
    <3>1. CASE l = pass.at
      BY <1>0, <2>2, <2>3, <3>1 DEF Witnessed
    <3>2. CASE l # pass.at /\ pass'.at > l
      <4>1. pass.at > l
        BY <2>1, <3>2 DEF Leg
      <4> QED BY <1>0, <2>1, <2>2, <2>3, <3>2, <4>1 DEF Witnessed
    <3>3. CASE ~(pass'.at > l)
      BY <1>0, <2>3, <3>3 DEF Witnessed
    <3> QED BY <3>1, <3>2, <3>3
  <2>4. AnyClosed' => AnyClosed
    BY <2>1 DEF AnyClosed
  <2> QED BY <1>0, <1>1, <1>2, <2>1, <2>2, <2>3, <2>4 DEF Remembered
<1>7. CASE Rollback
  <2>1. UNCHANGED <<seen, cmd>> /\ pass'.pc # "scan" /\ Rejection
    BY <1>7 DEF Rollback
  <2>2. \E l \in Tagged : hash[l] = "REJECTED"
    BY <1>2, <2>1 DEF Rejection
  <2> QED BY <1>2, <1>3, <2>1, <2>2
<1>8. CASE Roll
  <2>1. UNCHANGED seen /\ pass.pc = "roll" /\ pass'.pc = "roll"
    BY <1>8 DEF Roll, NextLeg, Shape, Passes
  <2> QED BY <1>2, <1>3, <2>1 DEF Witnessed
<1>9. CASE ForceFill
  <2>1. UNCHANGED seen /\ pass'.pc = "idle"
    BY <1>9 DEF ForceFill
  <2>2. \A l \in Leg : cmd'[l].close = cmd[l].close
    BY <1>9 DEF ForceFill, Shape, Orders
  <2>3. AnyClosed' => AnyClosed
    BY <2>2 DEF AnyClosed
  <2> QED BY <1>2, <1>3, <2>1, <2>3 DEF Witnessed
<1>10. CASE RollDone \/ AllFilled \/ Fail \/ Crash
  <2>1. UNCHANGED <<seen, cmd>> /\ pass'.pc = "idle"
    BY <1>10 DEF RollDone, AllFilled, Fail, Crash
  <2>2. AnyClosed' => AnyClosed
    BY <2>1 DEF AnyClosed
  <2> QED BY <1>2, <1>3, <2>1, <2>2 DEF Witnessed
<1>11. CASE \/ Originate \/ UNCHANGED vars
            \/ \E l \in Leg : Place(l) \/ Nudge(l) \/ Answer(l) \/ Fill(l) \/ Kill(l)
  <2>1. UNCHANGED <<seen, pass, cmd>>
    BY <1>11 DEF Originate, vars, Place, Nudge, Answer, Fill, Kill, recon
  <2> QED BY <1>4, <2>1 DEF AnyClosed
<1> QED BY <1>5, <1>6, <1>7, <1>8, <1>9, <1>10, <1>11 DEF Next, Watch

(* A basket that was rolled back is never force-filled: force_fill asks    *)
(* for a pass without a rejection, and without a broker session the status *)
(* hash that caused the rollback is the one every later pass reads.        *)
THEOREM NoFillTheorem == Spec => NoFillAfterRollback
<1> DEFINE Inv == Shape /\ Grounded /\ Remembered
<1>1. Init => Inv
  <2>1. Init => \A l \in Leg : seen[l].status = "none" /\ cmd[l].close = 0
    BY UnseenShape DEF Init
  <2>2. Init => pass.pc = "idle"
    BY DEF Init
  <2> QED BY InitGrounded, <2>1, <2>2 DEF Remembered, AnyClosed
<1>2. Inv /\ [Next]_vars => Inv'
  BY StepShape, StepGrounded, StepRemembered
<1>3. Inv /\ [Next]_vars =>
        [~BookAnswers /\ count.misreads = 0 /\ (\E l \in Leg : cmd[l].close > 0) =>
           \A l \in Leg : cmd'[l].fill = cmd[l].fill]_vars
  <2> SUFFICES ASSUME Inv, [Next]_vars, ~BookAnswers, count.misreads = 0, AnyClosed, NEW l \in Leg
               PROVE  cmd'[l].fill = cmd[l].fill
    BY DEF AnyClosed
  <2>1. CASE ForceFill
    <3>1. PICK k \in Tagged : Witnessed(k)
      BY DEF Remembered
    <3>2. pass.pc = "scan" /\ pass.at > k
      BY <2>1, SizeAssumption, TaggedAssumption DEF ForceFill, ScanDone, Leg
    <3> QED BY <2>1, <3>1, <3>2, TaggedAssumption DEF Witnessed, ForceFill, Rejection
  <2>2. CASE Roll
    <3>1. CASE cmd' = cmd
      BY <3>1
    <3>2. CASE cmd' # cmd
      <4>1. PICK n : cmd' = [cmd EXCEPT ![pass.at].close = n]
        BY <2>2, <3>2 DEF Roll
      <4> QED BY <4>1 DEF Shape, Orders
    <3> QED BY <3>1, <3>2
  <2>3. CASE UNCHANGED cmd
    BY <2>3
  <2> QED BY <2>1, <2>2, <2>3
          DEF Next, Watch, vars, recon, Originate, Pick, Scan, Rollback, RollDone, AllFilled,
              Fail, Crash, Place, Nudge, Answer, Fill, Kill
<1> QED BY <1>1, <1>2, <1>3, PTL DEF Spec, NoFillAfterRollback
=============================================================================
