-------------------------------- MODULE Flow --------------------------------
(***************************************************************************)
(* The volumes MarketSensor keeps of one index (daemons/market_sensor.py): *)
(* the side of a trade, the cumulative delta, the buckets of the VPIN, and *)
(* the average price weighted by volume, which it writes to Redis in two   *)
(* calls, each of which may fail, and reads back when it starts.  Prices   *)
(* and volumes are whole numbers; what a bucket holds of each side is a    *)
(* fraction of one common denominator, as draining a bucket divides it.    *)
(***************************************************************************)
EXTENDS Integers

CONSTANTS
  Bucket,     \* volume of a bucket (5000)
  Volumes,    \* volumes of a tick
  Prices,     \* prices
  MaxTicks,   \* bound of the model: ticks
  MaxCrashes, \* bound of the model: restarts of the sensor
  MaxFaults   \* bound of the model: writes to Redis that fail

(* What the parameters may be; the modules that compose this one assume it.*)
(* Ticks differ in size and price, but there is a largest and a smallest.  *)
(* A sum of volumes that is zero would divide by zero at the start.        *)
Parameters ==
  /\ Bucket \in Nat \ {0} /\ Volumes \subseteq Nat \ {0} /\ Prices \subseteq Nat \ {0}
  /\ \E v \in Volumes : \A x \in Volumes : x <= v
  /\ \E p \in Prices : \A x \in Prices : x <= p
  /\ \E p \in Prices : \A x \in Prices : p <= x
  /\ {MaxTicks, MaxCrashes, MaxFaults} \subseteq Nat

VARIABLES
  lastSign, \* last_sign of the symbol
  cvd,      \* the cumulative delta
  bucket,   \* vpin_current_vol, buy and sell over den
  vpin,     \* the last VPIN: a numerator and a denominator
  vwap,     \* vwap_cum_pv and vwap_cum_vol
  keys,     \* VWAP_PV and VWAP_VOL in Redis, -1 when absent
  owes,     \* the keys this publication has still to write
  ticks, restarts, failed
vars == <<lastSign, cvd, bucket, vpin, vwap, keys, owes, ticks, restarts, failed>>
memory == <<lastSign, cvd, bucket, vpin>>

Empty == [vol |-> 0, buy |-> 0, sell |-> 0, den |-> 1]
Zero  == [pv |-> 0, vol |-> 0]

Init ==
  /\ lastSign = 0 /\ cvd = 0 /\ bucket = Empty /\ vpin = [num |-> 0, den |-> 1]
  /\ vwap = Zero /\ keys = [pv |-> -1, vol |-> -1] /\ owes = {}
  /\ ticks = 0 /\ restarts = 0 /\ failed = 0

-----------------------------------------------------------------------------
(* Above the mid a buy, below a sell, at the mid as the trade before;      *)
(* nothing when the tick carries no quotes (_classify_trade).              *)
Side(at) ==
  CASE at = "above" -> 1 [] at = "below" -> -1 [] at = "mid" -> lastSign [] at = "noquote" -> 0

Filled(b, sign, volume) ==
  [b EXCEPT !.vol  = @ + volume,
            !.buy  = IF sign > 0 THEN @ + volume * b.den ELSE @,
            !.sell = IF sign < 0 THEN @ + volume * b.den ELSE @]

(* Every full bucket takes the same share of both sides: what is left of   *)
(* them is the share of the volume that is left.                           *)
Drained(b) ==
  IF b.vol < Bucket THEN b
  ELSE IF b.vol % Bucket = 0 THEN Empty
  ELSE [vol |-> b.vol % Bucket, buy |-> b.buy * (b.vol % Bucket),
        sell |-> b.sell * (b.vol % Bucket), den |-> b.den * b.vol]

Gap(a, b) == IF a > b THEN a - b ELSE b - a

(* A tick.  One in fifty is published, if Redis answers what comes before, *)
(* and counts for the average.                                             *)
Tick ==
  /\ ticks < MaxTicks /\ owes = {}
  /\ ticks' = ticks + 1
  /\ \E at \in {"above", "below", "mid", "noquote"}, v \in Volumes :
       LET sign == Side(at)
           b    == Filled(bucket, sign, v)
       IN  /\ lastSign' = IF sign # 0 THEN sign ELSE lastSign
           /\ cvd' = cvd + sign * v
           /\ bucket' = Drained(b)
           /\ vpin' = IF b.vol < Bucket THEN vpin
                      ELSE [num |-> Gap(b.buy, b.sell), den |-> b.den * b.vol]
           /\ \/ /\ \E p \in Prices : vwap' = [pv |-> vwap.pv + p * v, vol |-> vwap.vol + v]
                 /\ owes' = {"pv", "vol"}
              \/ UNCHANGED <<vwap, owes>>
  /\ UNCHANGED <<keys, restarts, failed>>

(* A gateway that restarted makes the sensor forget the last side.         *)
Reset ==
  /\ lastSign' = 0
  /\ UNCHANGED <<cvd, bucket, vpin, vwap, keys, owes, ticks, restarts, failed>>

(* Two calls of Redis, the first key first.                                *)
(* Fault: the volume is written before the sum.                            *)
First_Vol == "vol"
First == "pv"

Persist ==
  /\ owes # {}
  /\ LET k == IF First \in owes THEN First ELSE CHOOSE k \in owes : TRUE
     IN  keys' = [keys EXCEPT ![k] = vwap[k]] /\ owes' = owes \ {k}
  /\ UNCHANGED <<memory, vwap, ticks, restarts, failed>>

(* A write fails: the loop logs the exception and goes on with the next    *)
(* tick; what was not written stays as it was.                             *)
Fail ==
  /\ owes # {} /\ failed < MaxFaults
  /\ failed' = failed + 1 /\ owes' = {}
  /\ UNCHANGED <<memory, vwap, keys, ticks, restarts>>

(* A crash; the sensor that starts reads the two keys when both are there. *)
Hydrated == IF keys.pv # -1 /\ keys.vol # -1 THEN keys ELSE Zero

Crash ==
  /\ restarts < MaxCrashes /\ restarts' = restarts + 1
  /\ lastSign' = 0 /\ cvd' = 0 /\ bucket' = Empty /\ vpin' = [num |-> 0, den |-> 1]
  /\ vwap' = Hydrated /\ owes' = {}
  /\ UNCHANGED <<keys, ticks, failed>>

Next == Tick \/ Reset \/ Persist \/ Fail \/ Crash

Spec == Init /\ [][Next]_vars

-----------------------------------------------------------------------------
Most(S)  == CHOOSE x \in S : \A y \in S : y <= x
Least(S) == CHOOSE x \in S : \A y \in S : x <= y

(* No full bucket stays, no bucket holds more of the two sides than its    *)
(* volume, and a VPIN is between 0 and 1, however large a tick is against  *)
(* what the buckets before it left over (_update_vpin).                    *)
BucketsDrained ==
  /\ bucket.vol < Bucket
  /\ bucket.buy >= 0 /\ bucket.sell >= 0
  /\ bucket.buy + bucket.sell <= bucket.vol * bucket.den
  /\ vpin.num <= vpin.den

(* The average never falls below the lowest price, and exceeds the highest *)
(* by no more than one trade for each crash and one for each failed write: *)
(* between the two calls the sum can get ahead of the volume, stay ahead   *)
(* while the second call fails, and is read back so.                       *)
VwapDrift ==
  /\ Least(Prices) * vwap.vol <= vwap.pv
  /\ vwap.pv <= Most(Prices) * (vwap.vol + (restarts + failed) * Most(Volumes))

(* What the sensor says of volume stays within what the ticks were.        *)
FlowBounded == BucketsDrained /\ VwapDrift
=============================================================================
