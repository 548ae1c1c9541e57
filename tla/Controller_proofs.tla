------------------------- MODULE Controller_proofs -------------------------
(***************************************************************************)
(* What the system controller does in an emergency (SquareOff), and the    *)
(* switches it shares with the other daemons (Halt).                       *)
(*                                                                         *)
(* The lock outlives the work: whatever the number of looks, their pace    *)
(* and the life of the lock, as long as the loop fits into it, no square-  *)
(* off starts from its own echo and two of them never overlap.             *)
(* The invariant behind it: the lock has longer to live than the execution *)
(* that holds it can still wait (LockLasts), and it lives as long as an    *)
(* echo of the order is on its way to the listener (EchoLasts).  Time      *)
(* passes only when the listener has nothing to read.                      *)
(***************************************************************************)
EXTENDS SquareOff, SystemHalt, SequenceTheorems, TLAPS

Pace == Sleep + Slow

Shape == lock \in Nat /\ run \in [Callers -> Runs] /\ inbox \in Seq(Messages)

LockLasts ==
  \A c \in Callers :
    /\ run[c].pc = "publish" => Slow + Polls * Pace < lock
    /\ run[c].pc = "ack"     => run[c].wait + run[c].left * Pace < lock
    /\ run[c].pc = "flush"   => run[c].wait < lock

EchoLasts ==
  /\ \A i \in 1..Len(inbox) : inbox[i].echo => lock > 0
  /\ run["listener"].pc = "claim" /\ run["listener"].echo => lock > 0
  /\ Striking("listener") => ~run["listener"].echo

Alone == ~(Striking("poller") /\ Striking("listener"))

IInv == Shape /\ LockLasts /\ EchoLasts /\ Alone

-----------------------------------------------------------------------------
(* Arithmetic of the loop: a look less is a pace less.                     *)
LEMMA OnePace ==
  ASSUME NEW n \in Nat, NEW s \in Nat
  PROVE  /\ n * s \in Nat
         /\ n > 0 => (n - 1) * s + s = n * s
OBVIOUS

(* Who strikes holds the lock.                                             *)
LEMMA StrikingHolds ==
  ASSUME IInv, NEW c \in Callers, Striking(c)
  PROVE  lock > 0
<1>1. /\ lock \in Nat /\ Slow \in Nat /\ Pace \in Nat /\ Polls \in Nat
      /\ run[c].wait \in Nat /\ run[c].left \in Nat
  BY TimeAssumption, CountAssumption DEF IInv, Shape, Runs, Pace
<1>2. Polls * Pace \in Nat /\ run[c].left * Pace \in Nat
  BY <1>1, OnePace
<1> QED BY <1>1, <1>2 DEF IInv, LockLasts, Striking

(* A step of one caller that leaves the lock and the messages alone, and   *)
(* starts nothing: the invariant asks only for what the caller may wait.   *)
LEMMA OneCaller ==
  ASSUME IInv, NEW c \in Callers, NEW r \in Runs,
         run' = [run EXCEPT ![c] = r], lock' = lock, inbox' = inbox,
         r.pc \in {"idle", "halt", "claim", "final", "ack", "flush"},
         r.pc \in {"ack", "flush"} => Striking(c) /\ r.echo = run[c].echo,
         r.pc = "ack"   => r.wait + r.left * Pace < lock,
         r.pc = "flush" => r.wait < lock,
         c = "listener" /\ r.pc = "claim" /\ r.echo => lock > 0
  PROVE  IInv'
<1>1. /\ run' \in [Callers -> Runs] /\ run'[c] = r
      /\ \A d \in Callers \ {c} : run'[d] = run[d]
  BY DEF IInv, Shape
<1>2. Shape'
  BY <1>1 DEF IInv, Shape
<1>3. LockLasts'
  BY <1>1 DEF IInv, LockLasts
<1>4. \A d \in Callers : Striking(d)' => Striking(d)
  BY <1>1 DEF Striking
<1>5. Alone'
  BY <1>4 DEF IInv, Alone, Callers
<1>6. EchoLasts'
  <2>1. CASE c = "listener"
    BY <1>1, <2>1 DEF IInv, EchoLasts, Striking
  <2>2. CASE c # "listener"
    <3>1. run'["listener"] = run["listener"]
      BY <1>1, <2>2 DEF Callers
    <3> QED BY <3>1 DEF IInv, EchoLasts, Striking
  <2> QED BY <2>1, <2>2
<1> QED BY <1>2, <1>3, <1>5, <1>6 DEF IInv

LEMMA InitIInv == Init => IInv
<1> SUFFICES ASSUME Init PROVE IInv
  OBVIOUS
<1>1. Idle \in Runs
  BY TimeAssumption, CountAssumption DEF Idle, Runs
<1>2. run = [c \in Callers |-> Idle] /\ inbox = << >> /\ lock = 0
  BY DEF Init
<1>3. Shape
  BY <1>1, <1>2 DEF Shape
<1>4. \A c \in Callers : run[c].pc = "idle"
  BY <1>2 DEF Idle
<1>5. "listener" \in Callers /\ "poller" \in Callers
  BY DEF Callers
<1>6. LockLasts /\ Alone
  BY <1>4, <1>5 DEF LockLasts, Alone, Striking
<1>7. EchoLasts
  BY <1>2, <1>4, <1>5 DEF EchoLasts, Striking
<1> QED BY <1>3, <1>6, <1>7 DEF IInv

-----------------------------------------------------------------------------
(* The lock is granted when nobody strikes, for longer than the loop.      *)
LEMMA ClaimKeeps ==
  ASSUME LoopFits, IInv, NEW c \in Callers, Claim(c)
  PROVE  IInv'
<1>1. run[c] \in Runs /\ run[c].pc = "claim" /\ inbox' = inbox
  BY DEF IInv, Shape, Claim
<1>2. CASE lock > 0
  <2>1. run' = [run EXCEPT ![c] = Idle] /\ lock' = lock
    BY <1>2 DEF Claim, Refused
  <2>2. Idle \in Runs /\ Idle.pc = "idle"
    BY TimeAssumption, CountAssumption DEF Idle, Runs
  <2> QED BY <1>1, <2>1, <2>2, OneCaller
<1>3. CASE ~(lock > 0)
  <2> DEFINE r == [run[c] EXCEPT !.pc = "publish"]
  <2>1. run' = [run EXCEPT ![c] = r] /\ lock' = Ttl
    BY <1>3 DEF Claim, Granted
  <2>2. r \in Runs /\ r.pc = "publish" /\ r.echo = run[c].echo
    BY <1>1 DEF Runs
  <2>3. \A d \in Callers : ~Striking(d)
    BY <1>3, StrikingHolds
  <2> HIDE DEF r
  <2>4. /\ run' \in [Callers -> Runs] /\ run'[c] = r
        /\ \A d \in Callers \ {c} : run'[d] = run[d]
    BY <2>1, <2>2 DEF IInv, Shape
  <2>5. Slow + Polls * Pace < lock' /\ lock' \in Nat /\ lock' > 0
    BY <2>1, TimeAssumption DEF LoopFits, Pace
  <2>6. Shape' /\ LockLasts'
    BY <1>1, <2>2, <2>3, <2>4, <2>5 DEF IInv, Shape, LockLasts, Striking
  <2>7. Alone'
    BY <2>3, <2>4 DEF Alone, Callers, Striking
  <2>8. c = "listener" => ~run[c].echo
    BY <1>1, <1>3 DEF IInv, EchoLasts
  <2>9. Striking("listener")' => ~run'["listener"].echo
    BY <2>2, <2>3, <2>4, <2>8 DEF Striking, Callers
  <2>10. EchoLasts'
    BY <1>1, <2>5, <2>9 DEF IInv, EchoLasts
  <2> QED BY <2>6, <2>7, <2>10 DEF IInv
<1> QED BY <1>2, <1>3

(* The order goes out, and its echo with it, while the lock is held.       *)
LEMMA PublishKeeps ==
  ASSUME IInv, NEW c \in Callers, Publish(c)
  PROVE  IInv'
<1>1. PICK q \in 0..Slow :
        run' = [run EXCEPT ![c] = [@ EXCEPT !.pc = "ack", !.left = Polls, !.wait = q]]
  BY DEF Publish
<1> DEFINE r == [run[c] EXCEPT !.pc = "ack", !.left = Polls, !.wait = q]
<1>2. run[c] \in Runs /\ run[c].pc = "publish" /\ lock' = lock
  BY DEF IInv, Shape, Publish
<1>3. /\ r \in Runs /\ r.pc = "ack" /\ r.wait = q /\ r.left = Polls
      /\ r.echo = run[c].echo
  <2>1. q \in 0..(Sleep + Slow) /\ Polls \in 0..Polls
    BY TimeAssumption, CountAssumption
  <2>2. r \in Runs
    BY <1>2, <2>1 DEF Runs
  <2>3. r.pc = "ack" /\ r.wait = q /\ r.left = Polls
    BY <1>2 DEF Runs
  <2>4. r.echo = run[c].echo
    BY <1>2 DEF Runs
  <2> QED BY <2>2, <2>3, <2>4
<1>4. run' = [run EXCEPT ![c] = r]
  BY <1>1
<1> HIDE DEF r
<1>5. /\ run' \in [Callers -> Runs] /\ run'[c] = r
      /\ \A d \in Callers \ {c} : run'[d] = run[d]
  BY <1>3, <1>4 DEF IInv, Shape
<1>6. lock > 0 /\ Striking(c)
  BY <1>2, StrikingHolds DEF Striking
<1>7. Message(run[c].reason, TRUE) \in Messages
  BY <1>2 DEF Message, Messages, Runs
<1>8. inbox' = Append(inbox, Message(run[c].reason, TRUE)) /\ inbox \in Seq(Messages)
  BY DEF Publish, IInv, Shape
<1>8a. inbox' \in Seq(Messages)
  BY <1>7, <1>8, AppendProperties
<1>9. q + Polls * Pace < lock
  <2>1. Polls * Pace \in Nat /\ Pace \in Nat
    BY TimeAssumption, CountAssumption, OnePace DEF Pace
  <2>2. Slow + Polls * Pace < lock
    BY <1>2 DEF IInv, LockLasts
  <2> QED BY <2>1, <2>2, TimeAssumption DEF IInv, Shape
<1>10. LockLasts' /\ Shape'
  BY <1>2, <1>3, <1>5, <1>8a, <1>9 DEF IInv, Shape, LockLasts
<1>11. \A d \in Callers : Striking(d)' => Striking(d)
  BY <1>3, <1>5, <1>6 DEF Striking
<1>12. Alone'
  BY <1>11 DEF IInv, Alone, Callers
<1>13. run'["listener"].echo = run["listener"].echo
  BY <1>3, <1>5 DEF Callers
<1>14. EchoLasts'
  BY <1>2, <1>6, <1>11, <1>13 DEF IInv, EchoLasts, Callers
<1> QED BY <1>10, <1>12, <1>14 DEF IInv

(* A look at the table takes its time and leaves one look less.            *)
LEMMA WaitingKeeps ==
  ASSUME IInv, NEW c \in Callers, Look(c) \/ LookFails(c) \/ GiveUp(c) \/ Flush(c) \/ Abort(c)
  PROVE  IInv'
<1>1. /\ run[c] \in Runs /\ lock' = lock /\ inbox' = inbox
      /\ lock \in Nat /\ Slow \in Nat /\ Sleep \in Nat \ {0} /\ Pace = Sleep + Slow
      /\ run[c].left \in Nat /\ run[c].wait \in Nat
      /\ run[c].left \in 0..Polls /\ Polls \in Nat
  <2>1. run[c] \in Runs /\ lock \in Nat
    BY DEF IInv, Shape
  <2>2. lock' = lock /\ inbox' = inbox
    BY DEF Look, LookFails, GiveUp, Flush, Abort
  <2>3. run[c].left \in 0..Polls /\ run[c].wait \in 0..(Sleep + Slow)
    BY <2>1 DEF Runs
  <2> QED BY <2>1, <2>2, <2>3, TimeAssumption, CountAssumption DEF Pace
<1>2. /\ Pace \in Nat /\ run[c].left * Pace \in Nat
      /\ run[c].left > 0 => (run[c].left - 1) * Pace + Pace = run[c].left * Pace
  BY <1>1, OnePace
<1>3. ASSUME NEW q \in 0..Slow, run[c].pc = "ack", run[c].wait = 0, run[c].left > 0
      PROVE  /\ run' = [run EXCEPT ![c] = [@ EXCEPT !.pc = "flush", !.wait = q]] => IInv'
             /\ run' = [run EXCEPT ![c] = [@ EXCEPT !.left = run[c].left - 1, !.wait = Sleep + q]] => IInv'
  <2> DEFINE f == [run[c] EXCEPT !.pc = "flush", !.wait = q]
             a == [run[c] EXCEPT !.left = run[c].left - 1, !.wait = Sleep + q]
  <2>0. /\ q \in 0..(Sleep + Slow) /\ Sleep + q \in 0..(Sleep + Slow)
        /\ run[c].left - 1 \in 0..Polls
    BY <1>1, <1>3
  <2>1. f \in Runs /\ f.pc = "flush" /\ f.wait = q /\ f.echo = run[c].echo
    <3>1. f \in Runs
      BY <1>1, <2>0 DEF Runs
    <3>2. f.pc = "flush" /\ f.wait = q
      BY <1>1 DEF Runs
    <3>3. f.echo = run[c].echo
      BY <1>1 DEF Runs
    <3> QED BY <3>1, <3>2, <3>3
  <2>2. /\ a \in Runs /\ a.pc = "ack" /\ a.wait = Sleep + q /\ a.left = run[c].left - 1
        /\ a.echo = run[c].echo
    <3>1. a \in Runs
      BY <1>1, <2>0 DEF Runs
    <3>2. a.pc = "ack" /\ a.wait = Sleep + q /\ a.left = run[c].left - 1
      BY <1>1, <1>3 DEF Runs
    <3>3. a.echo = run[c].echo
      BY <1>1 DEF Runs
    <3> QED BY <3>1, <3>2, <3>3
  <2>3. Striking(c)
    BY <1>3 DEF Striking
  <2>4. run[c].left * Pace < lock
    BY <1>1, <1>2, <1>3 DEF IInv, LockLasts
  <2>5. (run[c].left - 1) * Pace \in Nat
    BY <1>1, <1>2, <1>3, OnePace
  <2>6. q < lock /\ a.wait + a.left * Pace < lock
    BY <1>1, <1>2, <1>3, <2>2, <2>4, <2>5
  <2> HIDE DEF f, a
  <2>7. run' = [run EXCEPT ![c] = f] => IInv'
    BY <1>1, <2>1, <2>3, <2>6, OneCaller
  <2>8. run' = [run EXCEPT ![c] = a] => IInv'
    BY <1>1, <2>2, <2>3, <2>6, OneCaller
  <2>9. ASSUME run' = [run EXCEPT ![c] = [@ EXCEPT !.pc = "flush", !.wait = q]]
        PROVE  run' = [run EXCEPT ![c] = f]
    BY <2>9 DEF f
  <2>10. ASSUME run' = [run EXCEPT ![c] = [@ EXCEPT !.left = run[c].left - 1, !.wait = Sleep + q]]
         PROVE  run' = [run EXCEPT ![c] = a]
    BY <2>10 DEF a
  <2> QED BY <2>7, <2>8, <2>9, <2>10
<1>4. CASE Look(c)
  <2>1. run[c].pc = "ack" /\ run[c].wait = 0 /\ run[c].left > 0
    BY <1>4 DEF Look
  <2>2. PICK q \in 0..Slow :
          \/ run' = [run EXCEPT ![c] = [@ EXCEPT !.pc = "flush", !.wait = q]]
          \/ run' = [run EXCEPT ![c] = [@ EXCEPT !.left = run[c].left - 1, !.wait = Sleep + q]]
    BY <1>4 DEF Look
  <2> QED BY <1>3, <2>1, <2>2
<1>5. CASE LookFails(c)
  <2>1. run[c].pc = "ack" /\ run[c].wait = 0 /\ run[c].left > 0
    BY <1>5 DEF LookFails
  <2>2. PICK q \in 0..Slow : run' = [run EXCEPT ![c] = [@ EXCEPT !.left = run[c].left - 1, !.wait = Sleep + q]]
    BY <1>5 DEF LookFails
  <2> QED BY <1>3, <2>1, <2>2
<1>6. CASE GiveUp(c)
  <2> DEFINE r == [run[c] EXCEPT !.pc = "flush"]
  <2>1. run[c].pc = "ack" /\ run[c].wait = 0 /\ run' = [run EXCEPT ![c] = r]
    BY <1>6 DEF GiveUp
  <2>2. r \in Runs /\ r.pc = "flush" /\ r.wait = run[c].wait /\ r.echo = run[c].echo
    BY <1>1 DEF Runs
  <2>3. Striking(c) /\ r.wait < lock
    <3>1. run[c].wait + run[c].left * Pace < lock
      BY <2>1 DEF IInv, LockLasts
    <3> QED BY <1>1, <1>2, <2>1, <2>2, <3>1 DEF Striking
  <2> HIDE DEF r
  <2> QED BY <1>1, <2>1, <2>2, <2>3, OneCaller
<1>7. Idle \in Runs /\ Idle.pc = "idle"
  BY <1>1 DEF Idle, Runs
<1>8. CASE Flush(c)
  <2> DEFINE r == [run[c] EXCEPT !.pc = "final"]
  <2>1. run' = [run EXCEPT ![c] = r] \/ run' = [run EXCEPT ![c] = Idle]
    BY <1>8 DEF Flush
  <2>2. r \in Runs /\ r.pc = "final"
    BY <1>1 DEF Runs
  <2> HIDE DEF r
  <2> QED BY <1>1, <1>7, <2>1, <2>2, OneCaller
<1>9. CASE Abort(c)
  <2>1. run' = [run EXCEPT ![c] = Idle]
    BY <1>9 DEF Abort
  <2> QED BY <1>1, <1>7, <2>1, OneCaller
<1> QED BY <1>4, <1>5, <1>6, <1>8, <1>9

-----------------------------------------------------------------------------
(* The listener takes a message: its echo, if it is one, found the lock.   *)
LEMMA ListenKeeps ==
  ASSUME IInv, Listen
  PROVE  IInv'
<1>1. /\ inbox \in Seq(Messages) /\ inbox # << >> /\ inbox' = Tail(inbox) /\ lock' = lock
      /\ "listener" \in Callers /\ run["listener"].pc = "idle"
  BY DEF IInv, Shape, Listen, Callers
<1>2. /\ Head(inbox) \in Messages /\ inbox' \in Seq(Messages)
      /\ Len(inbox) \in Nat /\ Len(inbox) > 0 /\ Len(inbox') = Len(inbox) - 1
      /\ Head(inbox) = inbox[1]
      /\ \A i \in 1..Len(inbox') : inbox'[i] = inbox[i + 1]
  BY <1>1, HeadTailProperties
<1>3. /\ \A i \in 1..Len(inbox') : inbox'[i].echo => lock > 0
      /\ Head(inbox).echo => lock > 0
  <2>1. \A i \in 1..Len(inbox') : i + 1 \in 1..Len(inbox)
    BY <1>2
  <2>2. 1 \in 1..Len(inbox)
    BY <1>2
  <2> QED BY <1>2, <2>1, <2>2 DEF IInv, EchoLasts
<1> DEFINE r == [Idle EXCEPT !.pc = "claim", !.reason = Head(inbox).reason,
                             !.echo = Head(inbox).echo]
<1>4. \/ run' = run
      \/ run' = [run EXCEPT !["listener"] = r]
  BY DEF Listen
<1>5. r \in Runs /\ r.pc = "claim" /\ r.echo = Head(inbox).echo
  <2>1. r \in Runs
    <3>1. Idle \in Runs
      BY TimeAssumption, CountAssumption DEF Idle, Runs
    <3>2. /\ Head(inbox).reason \in {"NUCLEAR", "GCP_PREEMPTION", "OTHER"}
          /\ Head(inbox).echo \in BOOLEAN
      BY <1>2 DEF Messages
    <3> QED BY <3>1, <3>2 DEF Runs
  <2>2. r.pc = "claim"
    BY DEF Idle
  <2>3. r.echo = Head(inbox).echo
    BY DEF Idle
  <2> QED BY <2>1, <2>2, <2>3
<1> HIDE DEF r
<1>6. CASE run' = run
  BY <1>1, <1>2, <1>3, <1>6 DEF IInv, Shape, LockLasts, EchoLasts, Alone, Striking
<1>7. CASE run' = [run EXCEPT !["listener"] = r]
  <2>1. /\ run' \in [Callers -> Runs] /\ run'["listener"] = r
        /\ \A d \in Callers \ {"listener"} : run'[d] = run[d]
    BY <1>1, <1>5, <1>7 DEF IInv, Shape
  <2>2. Shape' /\ LockLasts' /\ Alone'
    BY <1>1, <1>2, <1>5, <2>1 DEF IInv, Shape, LockLasts, Alone, Striking
  <2>3. EchoLasts'
    BY <1>1, <1>3, <1>5, <2>1 DEF EchoLasts, Striking
  <2> QED BY <2>2, <2>3 DEF IInv
<1> QED BY <1>4, <1>6, <1>7

(* A message from outside is no echo.                                      *)
LEMMA MessageKeeps ==
  ASSUME IInv, NEW m \in Messages, ~m.echo, inbox' = Append(inbox, m), UNCHANGED <<lock, run>>
  PROVE  IInv'
<1>1. /\ inbox' \in Seq(Messages) /\ Len(inbox) \in Nat /\ Len(inbox') = Len(inbox) + 1
      /\ \A i \in 1..Len(inbox) : inbox'[i] = inbox[i]
      /\ inbox'[Len(inbox) + 1] = m
  BY AppendProperties DEF IInv, Shape
<1>2. \A i \in 1..Len(inbox') : inbox'[i].echo => lock' > 0
  <2>1. \A i \in 1..Len(inbox') : i \in 1..Len(inbox) \/ i = Len(inbox) + 1
    BY <1>1
  <2> QED BY <1>1, <2>1 DEF IInv, EchoLasts
<1> QED BY <1>1, <1>2 DEF IInv, Shape, LockLasts, EchoLasts, Alone, Striking

(* Time: nobody is ready, so the listener has nothing to read, and whoever *)
(* waits has waited for the lock as long as for himself.                   *)
LEMMA TickKeeps ==
  ASSUME IInv, Tick
  PROVE  IInv'
<1>1. /\ lock \in Nat /\ inbox' = inbox /\ inbox \in Seq(Messages) /\ lock' = Less(lock)
      /\ run' = [c \in Callers |-> [run[c] EXCEPT !.wait = Less(@)]]
      /\ run \in [Callers -> Runs]
  BY DEF IInv, Shape, Tick
<1>2. \A n \in Nat : Less(n) \in Nat /\ (n > 0 => Less(n) = n - 1) /\ (n = 0 => Less(n) = 0)
  BY DEF Less
<1>3. ASSUME NEW c \in Callers
      PROVE  /\ run'[c] \in Runs
             /\ run'[c].pc = run[c].pc /\ run'[c].left = run[c].left
             /\ run'[c].wait = Less(run[c].wait) /\ run'[c].echo = run[c].echo
             /\ run[c].wait \in Nat /\ run[c].left \in Nat
  <2>1. run[c] \in Runs /\ run'[c] = [run[c] EXCEPT !.wait = Less(run[c].wait)]
    BY <1>1
  <2>2. run[c].wait \in 0..(Sleep + Slow) /\ run[c].left \in 0..Polls
    BY <2>1 DEF Runs
  <2>3. Less(run[c].wait) \in 0..(Sleep + Slow)
    BY <1>2, <2>2, TimeAssumption
  <2>4. run'[c] \in Runs
    BY <2>1, <2>3 DEF Runs
  <2>5. /\ run'[c].pc = run[c].pc /\ run'[c].left = run[c].left
        /\ run'[c].wait = Less(run[c].wait)
    BY <2>1 DEF Runs
  <2>6. run'[c].echo = run[c].echo
    BY <2>1 DEF Runs
  <2> QED BY <2>2, <2>4, <2>5, <2>6, TimeAssumption, CountAssumption
<1>4. ASSUME NEW c \in Callers, run[c].pc # "idle"
      PROVE  run[c].pc \in {"ack", "flush"} /\ run[c].wait > 0
  <2>1. ~Ready(c)
    BY DEF Tick
  <2>2. run[c].pc \in {"ack", "flush"} /\ run[c].wait # 0
    BY <1>4, <2>1 DEF Ready
  <2> QED BY <1>3, <2>2
<1>5. ASSUME NEW c \in Callers, run[c].pc # "idle"
      PROVE  /\ lock > 1 /\ lock' = lock - 1 /\ run'[c].wait = run[c].wait - 1
             /\ run[c].left * Pace \in Nat
  <2>1. run[c].pc \in {"ack", "flush"} /\ run[c].wait > 0
    BY <1>4, <1>5
  <2>2. Pace \in Nat /\ run[c].left * Pace \in Nat
    BY <1>3, OnePace, TimeAssumption DEF Pace
  <2>3. /\ run[c].pc = "ack"   => run[c].wait + run[c].left * Pace < lock
        /\ run[c].pc = "flush" => run[c].wait < lock
    BY DEF IInv, LockLasts
  <2>4. run[c].wait \in Nat
    BY <1>3
  <2>5. run[c].wait < lock
    BY <1>1, <2>1, <2>2, <2>3, <2>4
  <2>6. run'[c].wait = run[c].wait - 1
    BY <1>2, <1>3, <2>1, <2>4
  <2>7. lock > 1 /\ lock' = lock - 1
    BY <1>1, <1>2, <2>1, <2>4, <2>5
  <2> QED BY <2>2, <2>6, <2>7
<1>6. Shape'
  <2>1. run' \in [Callers -> Runs]
    BY <1>1, <1>3
  <2> QED BY <1>1, <1>2, <2>1 DEF Shape
<1>7. LockLasts'
  <2> SUFFICES ASSUME NEW c \in Callers
               PROVE  /\ run'[c].pc = "publish" => Slow + Polls * Pace < lock'
                      /\ run'[c].pc = "ack"     => run'[c].wait + run'[c].left * Pace < lock'
                      /\ run'[c].pc = "flush"   => run'[c].wait < lock'
    BY DEF LockLasts, Pace
  <2>1. CASE run[c].pc = "idle"
    BY <1>3, <2>1
  <2>2. CASE run[c].pc # "idle"
    <3>1. /\ run[c].pc \in {"ack", "flush"}
          /\ lock' = lock - 1 /\ run'[c].wait = run[c].wait - 1
          /\ run'[c].pc = run[c].pc /\ run'[c].left = run[c].left
          /\ run[c].left * Pace \in Nat /\ run[c].wait \in Nat
      BY <1>3, <1>4, <1>5, <2>2
    <3>2. /\ run[c].pc = "ack"   => run[c].wait + run[c].left * Pace < lock
          /\ run[c].pc = "flush" => run[c].wait < lock
      BY DEF IInv, LockLasts
    <3> QED BY <1>1, <3>1, <3>2
  <2> QED BY <2>1, <2>2
<1>8. "listener" \in Callers /\ "poller" \in Callers
  BY DEF Callers
<1>9. \A c \in Callers : Striking(c)' <=> Striking(c)
  BY <1>3 DEF Striking
<1>10. Alone'
  BY <1>8, <1>9 DEF IInv, Alone
<1>11. EchoLasts'
  <2>1. CASE run["listener"].pc = "idle"
    <3>1. ~Ready("listener")
      BY <1>8 DEF Tick
    <3>2. inbox = << >>
      BY <2>1, <3>1 DEF Ready
    <3>3. \A i \in 1..Len(inbox') : FALSE
      BY <1>1, <3>2
    <3>4. ~Striking("listener")' /\ run'["listener"].pc = "idle"
      BY <1>3, <1>8, <1>9, <2>1 DEF Striking
    <3> QED BY <3>3, <3>4 DEF EchoLasts
  <2>2. CASE run["listener"].pc # "idle"
    <3>1. lock > 1 /\ lock' = lock - 1
      BY <1>5, <1>8, <2>2
    <3>1a. lock' > 0
      BY <1>1, <3>1
    <3>2. Striking("listener")' => ~run'["listener"].echo
      BY <1>3, <1>8, <1>9 DEF IInv, EchoLasts
    <3> QED BY <3>1a, <3>2 DEF EchoLasts
  <2> QED BY <2>1, <2>2
<1> QED BY <1>6, <1>7, <1>10, <1>11 DEF IInv

-----------------------------------------------------------------------------
LEMMA StepKeeps ==
  ASSUME LoopFits, IInv, [Next]_vars
  PROVE  IInv'
<1>1. ASSUME UNCHANGED <<lock, run, inbox>> PROVE IInv'
  BY <1>1 DEF IInv, Shape, LockLasts, EchoLasts, Alone, Striking
<1>2. CASE Notice \/ WipeEnds \/ BridgeFlips \/ \E r \in Rows : Fill(r) \/ Close(r)
  BY <1>1, <1>2 DEF Notice, WipeEnds, BridgeFlips, Fill, Close
<1>3. CASE \E reason \in {"NUCLEAR", "OTHER"} : Panic(reason)
  <2>1. PICK reason \in {"NUCLEAR", "OTHER"} : Panic(reason)
    BY <1>3
  <2>2. Message(reason, FALSE) \in Messages /\ ~Message(reason, FALSE).echo
    BY DEF Message, Messages
  <2>3. inbox' = Append(inbox, Message(reason, FALSE)) /\ UNCHANGED <<lock, run>>
    BY <2>1 DEF Panic
  <2> QED BY <2>2, <2>3, MessageKeeps
<1>4. CASE Selective
  <2>1. Message("OTHER", FALSE) \in Messages /\ ~Message("OTHER", FALSE).echo
    BY DEF Message, Messages
  <2>2. /\ UNCHANGED <<lock, run>>
        /\ inbox' = Append(inbox, Message("OTHER", FALSE)) \/ inbox' = inbox
    BY <1>4 DEF Selective
  <2> QED BY <1>1, <2>1, <2>2, MessageKeeps
<1>5. /\ Idle \in Runs /\ Idle.pc = "idle" /\ "poller" \in Callers
      /\ "poller" # "listener"
  BY TimeAssumption, CountAssumption DEF Idle, Runs, Callers
<1>6. CASE Detect
  <2> DEFINE r == [Idle EXCEPT !.pc = "halt", !.reason = "GCP_PREEMPTION"]
  <2>1. run' = [run EXCEPT !["poller"] = r] /\ UNCHANGED <<lock, inbox>>
    BY <1>6 DEF Detect
  <2>2. r \in Runs /\ r.pc = "halt"
    BY <1>5 DEF Runs
  <2> HIDE DEF r
  <2>4. Shape' /\ LockLasts' /\ Alone' /\ EchoLasts'
    <3>1. /\ run' \in [Callers -> Runs] /\ run'["poller"] = r
          /\ \A d \in Callers \ {"poller"} : run'[d] = run[d]
      BY <1>5, <2>1, <2>2 DEF IInv, Shape
    <3>2. run'["listener"] = run["listener"]
      BY <1>5, <3>1 DEF Callers
    <3>3. Shape' /\ LockLasts'
      BY <2>1, <2>2, <3>1 DEF IInv, Shape, LockLasts
    <3>4. Alone' /\ EchoLasts'
      BY <1>5, <2>1, <2>2, <3>1, <3>2 DEF IInv, Alone, EchoLasts, Striking
    <3> QED BY <3>3, <3>4
  <2> QED BY <2>4 DEF IInv
<1>7. CASE HaltFirst
  <2> DEFINE r == [run["poller"] EXCEPT !.pc = "claim"]
  <2>1. run' = [run EXCEPT !["poller"] = r] /\ UNCHANGED <<lock, inbox>>
    BY <1>7 DEF HaltFirst
  <2>2. r \in Runs /\ r.pc = "claim"
    BY <1>5 DEF IInv, Shape, Runs
  <2> HIDE DEF r
  <2> QED BY <1>5, <2>1, <2>2, OneCaller
<1>8. CASE Listen
  BY <1>8, ListenKeeps
<1>9. CASE Final
  BY <1>5, <1>9, OneCaller DEF Final
<1>10. CASE Tick
  BY <1>10, TickKeeps
<1>11. CASE \E c \in Callers : Work(c) \/ LookFails(c) \/ Abort(c)
  BY <1>11, ClaimKeeps, PublishKeeps, WaitingKeeps DEF Work
<1>12. CASE UNCHANGED vars
  BY <1>1, <1>12 DEF vars
<1> QED BY <1>2, <1>3, <1>4, <1>6, <1>7, <1>8, <1>9, <1>10, <1>11, <1>12 DEF Next

-----------------------------------------------------------------------------
LEMMA FitsHolds == Spec => [](LoopFits => IInv)
<1>1. Init => (LoopFits => IInv)
  BY InitIInv
<1>2. (LoopFits => IInv) /\ [Next]_vars => (LoopFits => IInv)'
  BY StepKeeps DEF LoopFits
<1> QED BY <1>1, <1>2, PTL DEF Spec

(* Whatever the pace, a square-off that fits into the life of its lock is  *)
(* never started by its own echo (_panic_subscriber_loop).                 *)
THEOREM NoEchoTheorem == Spec => []NoEcho
<1>1. (LoopFits => IInv) => NoEcho
  BY DEF IInv, EchoLasts, NoEcho
<1> QED BY <1>1, FitsHolds, PTL

(* And two of them never overlap (SET SQUARE_OFF_LOCK NX EX).              *)
THEOREM OneAtATimeTheorem == Spec => []OneAtATime
<1>1. (LoopFits => IInv) => OneAtATime
  BY DEF IInv, Alone, OneAtATime
<1> QED BY <1>1, FitsHolds, PTL

-----------------------------------------------------------------------------
(* The switches.  Any party may set and clear SYSTEM_HALT, and the ghosts  *)
(* of Halt say who still relies on it: the property is inductive as it     *)
(* stands, because whoever clears the key either ends every claim or       *)
(* leaves the overlap on record.                                           *)
CONSTANTS Minutes, Events, MaxSlips, MaxMoves, MaxOnce, MaxDays
VARIABLES kinetic, signals, clock, monitor, breaker, move, starting, bounds

Switches == INSTANCE Halt WITH count <- bounds

(* Who writes "True" or a level halts the system.                          *)
LEMMA WrittenHalts ==
  ASSUME flag' \in {"True", "LEVEL", "DAY_HALT"}
  PROVE  HaltHolds'
BY DEF HaltHolds, Halting

(* Who gives up a claim, or only records an overlap, harms nobody.         *)
LEMMA ClaimsShrink ==
  ASSUME HaltHolds, flag' = flag, holders' \subseteq holders, overlap => overlap'
  PROVE  HaltHolds'
BY DEF HaltHolds, Halting

(* While one party alone wants the system halted, SYSTEM_HALT says so,     *)
(* whatever the calendar, the minutes and the bounds: EndOfDay, Resume,    *)
(* Lift and Initialise, which alone clear the key, end all claims or leave *)
(* the overlap on record.                                                  *)
THEOREM HaltTheorem == Switches!Spec => []HaltHolds
<1>1. Switches!Init => HaltHolds
  BY DEF Switches!Init, HaltHolds
<1>2. HaltHolds /\ [Switches!Next]_(Switches!vars) => HaltHolds'
  <2> SUFFICES ASSUME HaltHolds, [Switches!Next]_(Switches!vars)
               PROVE  HaltHolds'
    OBVIOUS
  <2>1. CASE Switches!NextMinute
    BY <2>1, ClaimsShrink DEF Switches!NextMinute
  <2>2. CASE Switches!EndOfDay
    <3>1. CASE holders' = {}
      BY <3>1 DEF HaltHolds
    <3>2. CASE UNCHANGED <<flag, holders>>
      BY <2>2, <3>2, ClaimsShrink DEF Switches!EndOfDay
    <3> QED BY <2>2, <3>1, <3>2 DEF Switches!EndOfDay
  <2>3. CASE Switches!Settlement \/ Switches!Validate
    <3>1. CASE flag' = "True"
      BY <3>1, WrittenHalts
    <3>2. CASE UNCHANGED <<flag, holders, overlap>>
      BY <3>2, ClaimsShrink
    <3> QED BY <2>3, <3>1, <3>2 DEF Switches!Settlement, Switches!Validate
  <2>4. CASE Switches!HaltOnce("kill") \/ Switches!HaltOnce("preempt") \/ Switches!Suspend
    BY <2>4, WrittenHalts DEF Switches!HaltOnce, Switches!Suspend
  <2>5. CASE Switches!Resume
    BY <2>5 DEF Switches!Resume, HaltHolds
  <2>6. CASE Switches!Watch \/ Switches!Recover \/ Switches!Look
    BY <2>6, ClaimsShrink DEF Switches!Watch, Switches!Recover, Switches!Look
  <2>7. ASSUME NEW b \in Switches!Breakers, Switches!Trip(b) \/ Switches!DayHalt(b)
        PROVE  HaltHolds'
    BY <2>7, WrittenHalts DEF Switches!Trip, Switches!DayHalt
  <2>8. ASSUME NEW b \in Switches!Breakers, Switches!Wake(b)
        PROVE  HaltHolds'
    BY <2>8, ClaimsShrink DEF Switches!Wake
  <2>9. ASSUME NEW b \in Switches!Breakers, Switches!Lift(b)
        PROVE  HaltHolds'
    BY <2>9 DEF Switches!Lift, HaltHolds
  <2>10. ASSUME NEW bs \in (SUBSET Switches!Breakers) \ {{}}, NEW l \in Switches!Levels,
                Switches!Move(bs, l)
         PROVE  HaltHolds'
    BY <2>10, ClaimsShrink DEF Switches!Move
  <2>11. CASE Switches!Initialise
    <3>1. CASE flag' = "False" /\ overlap' = (overlap \/ holders # {})
      BY <2>11, <3>1 DEF Switches!Initialise, HaltHolds
    <3>2. CASE UNCHANGED <<flag, overlap>>
      BY <2>11, <3>2, ClaimsShrink DEF Switches!Initialise
    <3> QED BY <2>11, <3>1, <3>2 DEF Switches!Initialise
  <2>12. CASE UNCHANGED Switches!vars
    BY <2>12, ClaimsShrink DEF Switches!vars
  <2> QED BY <2>1, <2>2, <2>3, <2>4, <2>5, <2>6, <2>7, <2>8, <2>9, <2>10, <2>11, <2>12
          DEF Switches!Next
<1> QED BY <1>1, <1>2, PTL DEF Switches!Spec

=============================================================================
