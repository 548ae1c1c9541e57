---------------------------- MODULE Engine_proofs ----------------------------
(***************************************************************************)
(* What the engine sends, for every set of knights, commands, bans, halts, *)
(* exceptions and restarts: baskets that met nothing go out whole, knights *)
(* told to stop are silent, and so is everybody under a ban.               *)
(* The invariants behind it: each leg of an unmarred basket is either sent *)
(* and recorded or still in the list (Pending); the list is empty while    *)
(* the engine listens (Sending); what was told to stop is off, and a ban   *)
(* that stood when the cache expired stands in Redis, and in the cache as  *)
(* soon as that is fresh again (Obeyed).                                   *)
(***************************************************************************)
EXTENDS Engine, TLAPS

Shape ==
  /\ DOMAIN loop = {"pc", "orders", "now", "config"}
  /\ DOMAIN redis = {"config", "ban"} /\ DOMAIN ghost = {"muted", "banned"}
  /\ DOMAIN cache = {"banned", "vwap", "fresh"}
  /\ DOMAIN basket = Knights
  /\ \A k \in Knights : /\ DOMAIN basket[k] = {"legs", "sent", "noted", "marred"}
                        /\ basket[k].marred \in BOOLEAN

Sending ==
  /\ loop.pc \in {"wait", "config", "cache"} => loop.orders = {}
  /\ loop.now \subseteq loop.orders /\ \A o, p \in loop.now : o = p
  /\ loop.pc = "note" => \A o \in loop.now : o.n \in basket[o.k].sent

Listed == \A o \in loop.orders : o.k \in Knights /\ o.n \in DOMAIN basket[o.k].legs

Recorded ==
  \A k \in Knights : /\ basket[k].sent \subseteq DOMAIN basket[k].legs
                     /\ basket[k].noted \subseteq DOMAIN basket[k].legs

Pending ==
  \A k \in Knights : ~basket[k].marred =>
    \A n \in DOMAIN basket[k].legs :
      \/ n \in basket[k].sent /\ n \in basket[k].noted
      \/ \E o \in loop.orders : o.k = k /\ o.n = n

Obeyed ==
  /\ ghost.muted \subseteq off
  /\ ghost.banned => redis.ban /\ (cache.fresh => cache.banned)

IInv == Shape /\ Sending /\ Listed /\ Recorded /\ Pending /\ Obeyed

-----------------------------------------------------------------------------
(* Steps that leave the list and the baskets alone.                        *)
LEMMA ListFrame ==
  ASSUME IInv, UNCHANGED <<basket, loop>>
  PROVE  Sending' /\ Listed' /\ Recorded' /\ Pending'
BY DEF IInv, Sending, Listed, Recorded, Pending

LEMMA ListeningStep ==
  ASSUME IInv,
         \/ \E k \in Knights, c \in {"absent", "on", "off"} : Configure(k, c)
         \/ Ban \/ CacheAges
         \/ \E t \in Knights \cup {"ALL"}, a \in BOOLEAN : Command(t, a)
         \/ UNCHANGED vars
  PROVE  IInv'
<1>1. UNCHANGED <<basket, loop>>
  BY DEF Configure, Ban, CacheAges, Command, vars
<1>2. Shape'
  BY <1>1 DEF IInv, Shape, Configure, Ban, CacheAges, Command, vars
<1>3. Obeyed'
  BY DEF IInv, Shape, Obeyed, Configure, Ban, CacheAges, Command, vars
<1> QED BY <1>1, <1>2, <1>3, ListFrame DEF IInv

(* Steps on the way from one tick to the evaluation of the next.           *)
LEMMA WaitingStep ==
  ASSUME IInv, ConfigAges \/ SyncConfig \/ Tick
  PROVE  IInv'
<1>1. UNCHANGED <<redis, off, cache, ghost>>
  BY DEF ConfigAges, SyncConfig, Tick
<1>2. /\ loop'.orders = loop.orders /\ loop'.now = loop.now /\ loop.orders = {}
      /\ DOMAIN loop' = DOMAIN loop /\ loop'.pc # "note"
      /\ loop'.pc \in {"wait", "config", "cache"}
  BY DEF ConfigAges, SyncConfig, Tick, Listening, IInv, Shape, Sending
<1>3. CASE UNCHANGED basket
  BY <1>1, <1>2, <1>3 DEF IInv, Shape, Sending, Listed, Recorded, Pending, Obeyed
<1>4. CASE basket' = [k \in Knights |-> NoBasket]
  <2>1. /\ DOMAIN NoBasket = {"legs", "sent", "noted", "marred"}
        /\ NoBasket.marred = FALSE /\ NoBasket.sent = {} /\ NoBasket.noted = {}
        /\ DOMAIN NoBasket.legs = {}
    BY DEF NoBasket
  <2> QED BY <1>1, <1>2, <1>4, <2>1
          DEF IInv, Shape, Sending, Listed, Recorded, Pending, Obeyed
<1> QED BY <1>3, <1>4 DEF ConfigAges, SyncConfig, Tick

-----------------------------------------------------------------------------
(* The evaluation.                                                         *)

(* A knight asks for no leg twice, and only for legs of its basket.        *)
LEMMA AnswerLegs ==
  ASSUME NEW k, NEW s, NEW alpha, NEW a \in Answers(k, s, alpha) \cup {Silence}
  PROVE  a.passed \subseteq DOMAIN a.legs
<1>1. CASE a = Silence
  BY <1>1 DEF Silence
<1>2. CASE a \in Answers(k, s, alpha)
  <2>1. CASE a = [legs |-> Single("SELL"), passed |-> {1}]
    BY <2>1 DEF Single
  <2>2. CASE \E legs \in Whole(Kind[k]) : a = Said(legs, alpha)
    BY <2>2 DEF Said
  <2> QED BY <1>2, <2>1, <2>2 DEF Answers
<1> QED BY <1>1, <1>2

(* What an evaluation does, with the list taken apart.                     *)
LEMMA EvaluateEffect ==
  ASSUME IInv, Evaluate
  PROVE  \E said, s, alpha :
           /\ \A k \in Knights : /\ said[k] \in Answers(k, s, alpha) \cup {Silence}
                                 /\ k \in off \/ cache'.banned => said[k] = Silence
           /\ cache' = Refreshed(s)
           /\ loop'.orders = UNION {Orders(k, said[k]) : k \in Knights}
           /\ loop'.now = loop.now /\ DOMAIN loop' = DOMAIN loop
           /\ loop'.pc \in {"wait", "guard"} /\ (loop'.pc = "wait" => loop'.orders = {})
           /\ basket' = [k \in Knights |->
                           [legs |-> said[k].legs, sent |-> {}, noted |-> {},
                            marred |-> said[k].passed # DOMAIN said[k].legs]]
<1>1. PICK alpha \in Alphas, s \in Symbols :
        /\ cache' = Refreshed(s)
        /\ \E said \in [Knights -> UNION {Answers(k, s, alpha) : k \in Knights} \cup {Silence}] :
             /\ \A k \in Knights : said[k] \in IF k \in Asked /\ ~cache'.banned
                                               THEN Answers(k, s, alpha) \cup {Silence}
                                               ELSE {Silence}
             /\ LET list == UNION {Orders(k, said[k]) : k \in Knights} IN
                loop' = [loop EXCEPT !.orders = list,
                                     !.pc = IF list = {} THEN "wait" ELSE "guard"]
             /\ basket' = [k \in Knights |->
                             [legs |-> said[k].legs, sent |-> {}, noted |-> {},
                              marred |-> said[k].passed # DOMAIN said[k].legs]]
  BY DEF Evaluate
<1>2. PICK said :
        /\ \A k \in Knights : said[k] \in IF k \in Asked /\ ~cache'.banned
                                          THEN Answers(k, s, alpha) \cup {Silence}
                                          ELSE {Silence}
        /\ LET list == UNION {Orders(k, said[k]) : k \in Knights} IN
           loop' = [loop EXCEPT !.orders = list,
                                !.pc = IF list = {} THEN "wait" ELSE "guard"]
        /\ basket' = [k \in Knights |->
                        [legs |-> said[k].legs, sent |-> {}, noted |-> {},
                         marred |-> said[k].passed # DOMAIN said[k].legs]]
  BY <1>1
<1>3. \A k \in Knights : /\ said[k] \in Answers(k, s, alpha) \cup {Silence}
                         /\ k \in off \/ cache'.banned => said[k] = Silence
  BY <1>2 DEF Asked
<1> DEFINE list == UNION {Orders(k, said[k]) : k \in Knights}
<1>4. loop' = [loop EXCEPT !.orders = list, !.pc = IF list = {} THEN "wait" ELSE "guard"]
  BY <1>2
<1> HIDE DEF list
<1>5. /\ loop'.orders = list /\ loop'.now = loop.now /\ DOMAIN loop' = DOMAIN loop
      /\ loop'.pc \in {"wait", "guard"} /\ (loop'.pc = "wait" => list = {})
  BY <1>4 DEF IInv, Shape
<1>6. cache' = Refreshed(s)
  BY <1>1
<1>7. basket' = [k \in Knights |-> [legs |-> said[k].legs, sent |-> {}, noted |-> {},
                                   marred |-> said[k].passed # DOMAIN said[k].legs]]
  BY <1>2
<1>8. /\ loop'.orders = UNION {Orders(k, said[k]) : k \in Knights}
      /\ loop'.pc = "wait" => loop'.orders = {}
  BY <1>5 DEF list
<1> WITNESS said, s, alpha
<1> QED BY <1>3, <1>5, <1>6, <1>7, <1>8

LEMMA EvaluateStep ==
  ASSUME IInv, Evaluate
  PROVE  /\ IInv'
         /\ ghost.banned => loop'.orders = {}
         /\ Wants(loop'.orders) \cap ghost.muted = {}
<1>1. PICK said, s, alpha :
           /\ \A k \in Knights : /\ said[k] \in Answers(k, s, alpha) \cup {Silence}
                                 /\ k \in off \/ cache'.banned => said[k] = Silence
           /\ cache' = Refreshed(s)
           /\ loop'.orders = UNION {Orders(k, said[k]) : k \in Knights}
           /\ loop'.now = loop.now /\ DOMAIN loop' = DOMAIN loop
           /\ loop'.pc \in {"wait", "guard"} /\ (loop'.pc = "wait" => loop'.orders = {})
           /\ basket' = [k \in Knights |->
                           [legs |-> said[k].legs, sent |-> {}, noted |-> {},
                            marred |-> said[k].passed # DOMAIN said[k].legs]]
  BY EvaluateEffect
<1>2. \A k \in Knights : said[k].passed \subseteq DOMAIN said[k].legs
  BY <1>1, AnswerLegs
<1>3. /\ UNCHANGED <<redis, off, ghost>> /\ loop.pc = "cache"
  BY DEF Evaluate
<1>4. \A o \in loop'.orders : o.k \in Knights /\ o.n \in said[o.k].passed
  BY <1>1 DEF Orders
<1>5. \A k \in Knights : \A n \in said[k].passed : \E o \in loop'.orders : o.k = k /\ o.n = n
  <2> SUFFICES ASSUME NEW k \in Knights, NEW n \in said[k].passed
               PROVE  \E o \in loop'.orders : o.k = k /\ o.n = n
    OBVIOUS
  <2>1. [k |-> k, n |-> n] \in loop'.orders
    BY <1>1 DEF Orders
  <2> QED BY <2>1
<1>6. DOMAIN cache' = {"banned", "vwap", "fresh"}
  BY <1>1 DEF Refreshed, IInv, Shape
<1>7. Shape'
  BY <1>1, <1>3, <1>6 DEF IInv, Shape
<1>8. Sending'
  <2>1. loop.now = {}
    BY <1>3 DEF IInv, Sending
  <2> QED BY <1>1, <2>1 DEF Sending
<1>9. Listed' /\ Recorded'
  BY <1>1, <1>2, <1>4 DEF Listed, Recorded
<1>10. Pending'
  BY <1>1, <1>5 DEF Pending
<1>11. ghost.banned => cache'.banned
  BY <1>1 DEF IInv, Obeyed, Refreshed
<1>12. Obeyed'
  BY <1>3, <1>11 DEF IInv, Obeyed
<1>13. ghost.banned => loop'.orders = {}
  BY <1>1, <1>4, <1>11 DEF Silence
<1>14. Wants(loop'.orders) \cap off = {}
  BY <1>1, <1>4 DEF Silence, Wants
<1> QED BY <1>7, <1>8, <1>9, <1>10, <1>12, <1>13, <1>14 DEF IInv, Obeyed

-----------------------------------------------------------------------------
(* One order after the other.                                              *)

(* The order o leaves the list, and of the basket of its knight at most    *)
(* what was sent and recorded of it changes, or it is marred.              *)
LEMMA OrderLeaves ==
  ASSUME IInv, NEW o \in loop.orders, loop' = Advanced(o),
         UNCHANGED <<redis, off, cache, ghost>>,
         DOMAIN basket' = Knights,
         \A k \in Knights \ {o.k} : basket'[k] = basket[k],
         DOMAIN basket'[o.k] = DOMAIN basket[o.k],
         basket'[o.k].legs = basket[o.k].legs,
         basket'[o.k].marred \in BOOLEAN,
         basket[o.k].marred => basket'[o.k].marred,
         basket'[o.k].sent \in {basket[o.k].sent, basket[o.k].sent \cup {o.n}},
         basket'[o.k].noted \in {basket[o.k].noted, basket[o.k].noted \cup {o.n}},
         \/ basket'[o.k].marred
         \/ o.n \in basket'[o.k].sent /\ o.n \in basket'[o.k].noted
  PROVE  IInv'
<1>1. /\ loop'.orders = loop.orders \ {o} /\ loop'.now = {}
      /\ loop'.pc = (IF loop.orders = {o} THEN "wait" ELSE "guard")
      /\ DOMAIN loop' = DOMAIN loop
  BY DEF Advanced, IInv, Shape
<1>2. o.k \in Knights /\ o.n \in DOMAIN basket[o.k].legs
  BY DEF IInv, Listed
<1>3. \A k \in Knights : /\ basket'[k].legs = basket[k].legs
                         /\ basket'[k].marred \in BOOLEAN
                         /\ DOMAIN basket'[k] = DOMAIN basket[k]
                         /\ basket[k].marred => basket'[k].marred
                         /\ basket[k].sent \subseteq basket'[k].sent
                         /\ basket[k].noted \subseteq basket'[k].noted
  BY DEF IInv, Shape
<1>4. Shape'
  BY <1>1, <1>3 DEF IInv, Shape
<1>5. Sending'
  BY <1>1 DEF Sending
<1>6. Listed'
  BY <1>1, <1>3 DEF IInv, Listed
<1>7. Recorded'
  BY <1>2, <1>3 DEF IInv, Recorded
<1>8. Pending'
  <2> SUFFICES ASSUME NEW k \in Knights, ~basket'[k].marred, NEW n \in DOMAIN basket[k].legs,
                      ~(n \in basket'[k].sent /\ n \in basket'[k].noted)
               PROVE  \E p \in loop'.orders : p.k = k /\ p.n = n
    BY <1>3 DEF Pending
  <2>1. PICK p \in loop.orders : p.k = k /\ p.n = n
    BY <1>3 DEF IInv, Pending
  <2>2. p # o
    BY <2>1
  <2> QED BY <1>1, <2>1, <2>2
<1>9. Obeyed'
  BY DEF IInv, Obeyed
<1> QED BY <1>4, <1>5, <1>6, <1>7, <1>8, <1>9 DEF IInv

LEMMA SpecialStep == ASSUME IInv, Special PROVE IInv'
<1>1. PICK o \in loop.orders :
        /\ loop' = Advanced(o)
        /\ basket' = [basket EXCEPT ![o.k].sent = @ \cup {o.n}, ![o.k].noted = @ \cup {o.n}]
  BY DEF Special, Foremost
<1>2. o.k \in Knights /\ Shape
  BY DEF IInv, Listed
<1>3. /\ DOMAIN basket' = Knights
      /\ \A k \in Knights \ {o.k} : basket'[k] = basket[k]
      /\ DOMAIN basket'[o.k] = DOMAIN basket[o.k]
      /\ basket'[o.k].legs = basket[o.k].legs
      /\ basket'[o.k].marred = basket[o.k].marred
      /\ basket'[o.k].sent = basket[o.k].sent \cup {o.n}
      /\ basket'[o.k].noted = basket[o.k].noted \cup {o.n}
  BY <1>1, <1>2 DEF Shape
<1>4. UNCHANGED <<redis, off, cache, ghost>>
  BY DEF Special
<1> QED BY <1>1, <1>2, <1>3, <1>4, OrderLeaves DEF Shape

LEMMA GuardStep == ASSUME IInv, Guard PROVE IInv'
<1>1. PICK o \in loop.orders :
        \/ loop' = Advanced(o) /\ basket' = [basket EXCEPT ![o.k].marred = TRUE]
        \/ loop' = [loop EXCEPT !.pc = "send", !.now = {o}] /\ UNCHANGED basket
  BY DEF Guard, Foremost, Blocked, Mar
<1>2. o.k \in Knights /\ Shape
  BY DEF IInv, Listed
<1>3. UNCHANGED <<redis, off, cache, ghost>>
  BY DEF Guard
<1>4. CASE loop' = Advanced(o) /\ basket' = [basket EXCEPT ![o.k].marred = TRUE]
  <2>1. /\ DOMAIN basket' = Knights
        /\ \A k \in Knights \ {o.k} : basket'[k] = basket[k]
        /\ DOMAIN basket'[o.k] = DOMAIN basket[o.k]
        /\ basket'[o.k].legs = basket[o.k].legs
        /\ basket'[o.k].marred = TRUE
        /\ basket'[o.k].sent = basket[o.k].sent
        /\ basket'[o.k].noted = basket[o.k].noted
    BY <1>2, <1>4 DEF Shape
  <2> QED BY <1>2, <1>3, <1>4, <2>1, OrderLeaves
<1>5. CASE loop' = [loop EXCEPT !.pc = "send", !.now = {o}] /\ UNCHANGED basket
  <2>1. /\ loop'.pc = "send" /\ loop'.now = {o} /\ loop'.orders = loop.orders
        /\ DOMAIN loop' = DOMAIN loop
    BY <1>2, <1>5 DEF Shape
  <2> QED BY <1>3, <1>5, <2>1
          DEF IInv, Shape, Sending, Listed, Recorded, Pending, Obeyed
<1> QED BY <1>1, <1>4, <1>5

LEMMA SendStep == ASSUME IInv, Send PROVE IInv'
<1>1. PICK o \in loop.now : basket' = [basket EXCEPT ![o.k].sent = @ \cup {o.n}]
  BY DEF Send
<1>2. /\ o \in loop.orders /\ o.k \in Knights /\ o.n \in DOMAIN basket[o.k].legs /\ Shape
  BY DEF IInv, Sending, Listed
<1>3. /\ DOMAIN basket' = Knights
      /\ \A k \in Knights : /\ DOMAIN basket'[k] = DOMAIN basket[k]
                             /\ basket'[k].legs = basket[k].legs
                             /\ basket'[k].marred = basket[k].marred
                             /\ basket'[k].noted = basket[k].noted
                             /\ basket'[k].sent = IF k = o.k THEN basket[k].sent \cup {o.n}
                                                 ELSE basket[k].sent
  BY <1>1, <1>2 DEF Shape
<1>4. /\ loop'.pc = "note" /\ loop'.now = loop.now /\ loop'.orders = loop.orders
      /\ DOMAIN loop' = DOMAIN loop /\ loop.pc = "send"
      /\ UNCHANGED <<redis, off, cache, ghost>>
  BY <1>2 DEF Send, Shape
<1>5. \A p \in loop.now : p = o
  BY <1>4 DEF IInv, Sending
<1>6. Shape' /\ Obeyed'
  BY <1>3, <1>4 DEF IInv, Shape, Obeyed
<1>7. Sending'
  BY <1>2, <1>3, <1>4, <1>5 DEF IInv, Sending
<1>8. Listed'
  BY <1>3, <1>4 DEF IInv, Listed
<1>9. Recorded'
  <2> SUFFICES ASSUME NEW k \in Knights
               PROVE  /\ basket'[k].sent \subseteq DOMAIN basket[k].legs
                      /\ basket'[k].noted \subseteq DOMAIN basket[k].legs
    BY <1>3 DEF Recorded
  <2>1. /\ basket[k].sent \subseteq DOMAIN basket[k].legs
        /\ basket[k].noted \subseteq DOMAIN basket[k].legs
    BY DEF IInv, Recorded
  <2>2. basket'[k].noted = basket[k].noted
    BY <1>3
  <2>3. CASE k = o.k
    <3>1. basket'[k].sent = basket[k].sent \cup {o.n} /\ o.n \in DOMAIN basket[k].legs
      BY <1>2, <1>3, <2>3
    <3> QED BY <2>1, <2>2, <3>1
  <2>4. CASE k # o.k
    <3>1. basket'[k].sent = basket[k].sent
      BY <1>3, <2>4
    <3> QED BY <2>1, <2>2, <3>1
  <2> QED BY <2>3, <2>4
<1>10. Pending'
  <2> SUFFICES ASSUME NEW k \in Knights, ~basket'[k].marred, NEW n \in DOMAIN basket'[k].legs,
                      ~(n \in basket'[k].sent /\ n \in basket'[k].noted)
               PROVE  \E p \in loop'.orders : p.k = k /\ p.n = n
    BY DEF Pending
  <2>1. /\ n \in DOMAIN basket[k].legs /\ ~basket[k].marred
        /\ ~(n \in basket[k].sent /\ n \in basket[k].noted)
    BY <1>3
  <2> QED BY <1>4, <2>1 DEF IInv, Pending
<1> QED BY <1>6, <1>7, <1>8, <1>9, <1>10 DEF IInv

LEMMA NoteStep == ASSUME IInv, Note PROVE IInv'
<1>1. PICK o \in loop.now : /\ loop' = Advanced(o)
                           /\ basket' = [basket EXCEPT ![o.k].noted = @ \cup {o.n}]
  BY DEF Note
<1>2. /\ o \in loop.orders /\ o.k \in Knights /\ Shape
      /\ o.n \in basket[o.k].sent
  BY DEF Note, IInv, Sending, Listed
<1>3. /\ DOMAIN basket' = Knights
      /\ \A k \in Knights \ {o.k} : basket'[k] = basket[k]
      /\ DOMAIN basket'[o.k] = DOMAIN basket[o.k]
      /\ basket'[o.k].legs = basket[o.k].legs
      /\ basket'[o.k].marred = basket[o.k].marred
      /\ basket'[o.k].sent = basket[o.k].sent
      /\ basket'[o.k].noted = basket[o.k].noted \cup {o.n}
  BY <1>1, <1>2 DEF Shape
<1>4. UNCHANGED <<redis, off, cache, ghost>>
  BY DEF Note
<1> QED BY <1>1, <1>2, <1>3, <1>4, OrderLeaves DEF Shape

(* An exception, or a restart: what was still in the list mars its basket. *)
LEMMA LostStep == ASSUME IInv, Fail \/ Crash PROVE IInv'
<1>1. /\ basket' = Marred /\ UNCHANGED redis
      /\ loop' = [Resting EXCEPT !.config = loop.config] \/ loop' = Resting
  BY DEF Fail, Crash
<1>2. /\ loop'.pc = "wait" /\ loop'.orders = {} /\ loop'.now = {}
      /\ DOMAIN loop' = {"pc", "orders", "now", "config"}
  BY <1>1 DEF Resting
<1>3. /\ DOMAIN basket' = Knights
      /\ \A k \in Knights : /\ DOMAIN basket'[k] = DOMAIN basket[k]
                             /\ basket'[k].legs = basket[k].legs
                             /\ basket'[k].sent = basket[k].sent
                             /\ basket'[k].noted = basket[k].noted
                             /\ basket'[k].marred =
                                  (basket[k].marred \/ k \in Wants(loop.orders))
  BY <1>1 DEF Marred, IInv, Shape
<1>4. Shape'
  BY <1>1, <1>2, <1>3 DEF Fail, Crash, IInv, Shape
<1>5. Sending' /\ Listed'
  BY <1>2 DEF Sending, Listed
<1>6. Recorded'
  BY <1>3 DEF IInv, Recorded
<1>7. Pending'
  <2> SUFFICES ASSUME NEW k \in Knights, ~basket'[k].marred, NEW n \in DOMAIN basket[k].legs
               PROVE  n \in basket[k].sent /\ n \in basket[k].noted
    BY <1>3 DEF Pending
  <2>1. ~basket[k].marred /\ k \notin Wants(loop.orders)
    BY <1>3
  <2>2. ~ \E o \in loop.orders : o.k = k
    BY <2>1 DEF Wants
  <2> QED BY <2>1, <2>2 DEF IInv, Pending
<1>8. Obeyed'
  BY <1>1 DEF Fail, Crash, IInv, Obeyed, Shape
<1> QED BY <1>4, <1>5, <1>6, <1>7, <1>8 DEF IInv

-----------------------------------------------------------------------------
LEMMA Invariant == Spec => []IInv
<1>1. ASSUME Init PROVE IInv
  <2>1. Shape
    BY <1>1 DEF Init, Shape, Resting, NoBasket
  <2>2. Sending /\ Listed /\ Obeyed
    BY <1>1 DEF Init, Sending, Listed, Obeyed, Resting
  <2>3. \A k \in Knights : DOMAIN basket[k].legs = {} /\ basket[k].sent = {} /\ basket[k].noted = {}
    BY <1>1 DEF Init, NoBasket
  <2> QED BY <2>1, <2>2, <2>3 DEF IInv, Recorded, Pending
<1>2. IInv /\ [Next]_vars => IInv'
  BY ListeningStep, WaitingStep, EvaluateStep, SpecialStep, GuardStep, SendStep, NoteStep,
     LostStep DEF Next, Loop
<1> QED BY <1>1, <1>2, PTL DEF Spec

(* A basket of which every leg passed the veto, and that met neither a     *)
(* slippage halt nor an exception nor a restart, is out completely, and    *)
(* every leg is recorded in pending_orders, once no order of it is left in *)
(* the list: the vetoes, halts and exceptions of other knights' baskets do *)
(* not take a leg out of it.                                               *)
THEOREM WholeTheorem == Spec => []BasketsWhole
<1>1. IInv => BasketsWhole
  <2> SUFFICES ASSUME IInv, NEW k \in Knights, k \notin Wants(loop.orders), ~basket[k].marred
               PROVE  /\ basket[k].sent = DOMAIN basket[k].legs
                      /\ basket[k].noted = DOMAIN basket[k].legs
    BY DEF BasketsWhole
  <2>1. ~ \E o \in loop.orders : o.k = k
    BY DEF Wants
  <2>2. \A n \in DOMAIN basket[k].legs : n \in basket[k].sent /\ n \in basket[k].noted
    BY <2>1 DEF IInv, Pending
  <2> QED BY <2>2 DEF IInv, Recorded
<1> QED BY <1>1, Invariant, PTL

(* Only the evaluation puts orders into the list.                          *)
LEMMA OnlyEvaluation ==
  ASSUME IInv, [Next]_vars, ~Evaluate
  PROVE  loop'.orders \subseteq loop.orders
<1>1. CASE \/ \E k \in Knights, c \in {"absent", "on", "off"} : Configure(k, c)
           \/ Ban \/ CacheAges
           \/ \E t \in Knights \cup {"ALL"}, a \in BOOLEAN : Command(t, a)
           \/ UNCHANGED vars
  BY <1>1 DEF Configure, Ban, CacheAges, Command, vars
<1>2. CASE ConfigAges \/ SyncConfig \/ Tick
  BY <1>2 DEF ConfigAges, SyncConfig, Tick, IInv, Shape
<1>3. CASE Special \/ Guard \/ Send \/ Note
  <2>1. DOMAIN loop = {"pc", "orders", "now", "config"}
    BY DEF IInv, Shape
  <2>2. \A o : Advanced(o).orders = loop.orders \ {o}
    BY <2>1 DEF Advanced
  <2>3. CASE Special \/ Note
    BY <2>2, <2>3 DEF Special, Note
  <2>4. CASE Guard
    BY <2>1, <2>2, <2>4 DEF Guard, Blocked
  <2>5. CASE Send
    BY <2>1, <2>5 DEF Send
  <2> QED BY <1>3, <2>3, <2>4, <2>5
<1>4. CASE Fail \/ Crash
  BY <1>4 DEF Fail, Crash, Resting
<1> QED BY <1>1, <1>2, <1>3, <1>4 DEF Next, Loop

(* A knight that was told to stop asks for nothing more until it is told   *)
(* to start, whatever is unloaded and loaded again in between.             *)
THEOREM SilenceTheorem == Spec => Silenced
<1>1. IInv /\ [Next]_vars =>
        [Wants(loop'.orders) \cap ghost.muted \subseteq Wants(loop.orders)]_vars
  BY OnlyEvaluation, EvaluateStep DEF Wants
<1> QED BY <1>1, Invariant, PTL DEF Spec, Silenced

(* A ban that stood when the cache last expired, and still stands, keeps   *)
(* every knight silent at the next tick.                                   *)
THEOREM BanTheorem == Spec => BanHonoured
<1>1. IInv /\ [Next]_vars =>
        [loop.pc = "cache" /\ ghost.banned => loop'.orders = {}]_vars
  BY OnlyEvaluation, EvaluateStep DEF IInv, Sending
<1> QED BY <1>1, Invariant, PTL DEF Spec, BanHonoured

=============================================================================
