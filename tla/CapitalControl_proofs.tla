------------------------ MODULE CapitalControl_proofs ------------------------
(***************************************************************************)
(* Theorems about the LIVE wallet for every set of limits, trades, broker  *)
(* answers and every bound of CapitalControl.                              *)
(***************************************************************************)
EXTENDS CapitalControl, TLAPS

(* What is allocated for a limit is never negative.                        *)
LEMMA PartType == \A l \in Nat : Part(l) \in Nat /\ Haircut(l) \in Nat
  BY DEF Part, Haircut

LEMMA LimitsType == Limits \subseteq Nat /\ BrokerCash \subseteq Nat
  BY LimitAssumption

LEMMA CoherentInit == Init => TrackingCoherent
  BY DEF Init, TrackingCoherent, Untracked

LEMMA CoherentStep == TrackingCoherent /\ [Next]_vars => TrackingCoherent'
<1> SUFFICES ASSUME TrackingCoherent, [Next]_vars PROVE TrackingCoherent'
  OBVIOUS
<1> USE DEF TrackingCoherent
<1>1. CASE BootRead
  BY <1>1 DEF BootRead, Untracked
<1>2. CASE BootCash
  BY <1>2 DEF BootCash
<1>3. CASE BootColl
  BY <1>3 DEF BootColl
<1>4. CASE BootLimit
  BY <1>4 DEF BootLimit
<1>5. CASE BootTrack
  BY <1>5 DEF BootTrack
<1>6. CASE Crash
  BY <1>6 DEF Crash, Untracked
<1>7. CASE SyncRead \/ SyncCompare \/ SyncCompute \/ SyncApply
  BY <1>7 DEF SyncRead, SyncCompare, SyncCompute, SyncApply
<1>8. CASE SyncTrack
  BY <1>8 DEF SyncTrack
<1>9. CASE \E l \in Limits : UpdateLimit(l)
  BY <1>9 DEF UpdateLimit
<1>10. CASE UpdateCash \/ UpdateColl \/ PollColl
  BY <1>10 DEF UpdateCash, UpdateColl, PollColl
<1>11. CASE \E c \in BrokerCash : PollCash(c)
  BY <1>11 DEF PollCash
<1>12. CASE \E t \in Trades, h \in Halves : RouterRequest(t, h) \/ EngineRequest(t, h)
  BY <1>12 DEF RouterRequest, EngineRequest, Request
<1>13. CASE \E t \in Trades : Close(t)
  BY <1>13 DEF Close
<1>14. CASE UNCHANGED vars
  BY <1>14 DEF vars
<1> QED
  BY <1>1, <1>2, <1>3, <1>4, <1>5, <1>6, <1>7, <1>8, <1>9, <1>10, <1>11,
     <1>12, <1>13, <1>14 DEF Next, Boot, Sync

(* The tracked values are always one allocation, and never the zeros the   *)
(* object was constructed with once the boot is through.                   *)
THEOREM TrackingTheorem == Spec => []TrackingCoherent
  BY CoherentInit, CoherentStep, PTL DEF Spec

LEMMA ReserveType ==
  ASSUME NEW v \in [cash : Int, coll : Int, limit : Known], NEW h \in Nat \ {0}
  PROVE  /\ AfterReserve(v, h) \in [cash : Int, coll : Int, limit : Known]
         /\ \/ AfterReserve(v, h) = v
            \/ AfterReserve(v, h).cash >= 0 /\ AfterReserve(v, h).coll >= 0
<1> DEFINE W == [cash : Int, coll : Int, limit : Known]
<1>1. v.cash \in Int /\ v.coll \in Int /\ v.limit \in Known
  OBVIOUS
<1>2. CASE ReserveCode(v, h) # Granted
  BY <1>2 DEF AfterReserve
<1>3. CASE ReserveCode(v, h) = Granted
  <2> DEFINE use == CollUse(v, h)
  <2>1. /\ v.cash >= h /\ v.cash + v.coll >= 2 * h
        /\ use \in Int /\ use <= v.coll /\ use <= h /\ (use = h \/ use = v.coll)
    BY <1>1, <1>3
       DEF ReserveCode, Granted, TotalBreach, CashBreach, Free, CollUse, Lesser
  <2> HIDE DEF use
  <2>2. v.cash - (2 * h - use) \in Nat /\ v.coll - use \in Nat
    BY <1>1, <2>1
  <2>3. AfterReserve(v, h) = [cash |-> v.cash - (2 * h - use), coll |-> v.coll - use,
                              limit |-> v.limit]
    BY <1>3 DEF AfterReserve, use
  <2>4. QED
    BY <1>1, <2>2, <2>3
<1>4. QED
  BY <1>2, <1>3

(* A step by the actions that may touch each variable.                     *)
LEMMA TypeInit == Init => TypeOK
  BY StartAssumption, BoundAssumption DEF Init, TypeOK, Untracked, Off, Known

LEMMA TypeBoot == TypeOK /\ Boot => TypeOK'
<1> SUFFICES ASSUME TypeOK, Boot PROVE TypeOK'
  OBVIOUS
<1> USE LimitsType, PartType DEF TypeOK, Known
<1>1. CASE BootRead
  BY <1>1 DEF BootRead, Untracked
<1>2. CASE BootCash
  <2>1. Part(boot.limit) \in Nat
    OBVIOUS
  <2>2. QED
    BY <1>2, <2>1 DEF BootCash
<1>3. CASE BootColl
  <2>1. Part(boot.limit) \in Nat
    OBVIOUS
  <2>2. QED
    BY <1>3, <2>1 DEF BootColl
<1>4. CASE BootLimit
  BY <1>4 DEF BootLimit
<1>5. CASE BootTrack
  <2>1. Part(boot.limit) \in Nat
    OBVIOUS
  <2>2. QED
    BY <1>5, <2>1 DEF BootTrack
<1> QED
  BY <1>1, <1>2, <1>3, <1>4, <1>5 DEF Boot

LEMMA TypeSync == TypeOK /\ Sync => TypeOK'
<1> SUFFICES ASSUME TypeOK, Sync PROVE TypeOK'
  OBVIOUS
<1> USE LimitsType, PartType DEF TypeOK, Known
<1>1. CASE SyncRead
  BY <1>1 DEF SyncRead
<1>2. CASE SyncCompare
  BY <1>2 DEF SyncCompare
<1>3. CASE SyncCompute
  <2>1. Part(sync.seen) \in Nat /\ Haircut(sync.seen) \in Nat
    OBVIOUS
  <2>2. QED
    BY <1>3, <2>1 DEF SyncCompute
<1>4. ASSUME SyncFault PROVE
        count' \in [updates : 0..MaxUpdates, polls : 0..MaxPolls,
                    crashes : 0..MaxCrashes, faults : 0..MaxFaults]
  BY <1>4, BoundAssumption DEF SyncFault
<1>5. CASE SyncApply
  BY <1>4, <1>5 DEF SyncApply, AfterSync
<1>6. CASE SyncTrack
  <2>1. Part(sync.seen) \in Nat /\ Haircut(sync.seen) \in Nat
    OBVIOUS
  <2>2. QED
    BY <1>4, <1>6, <2>1 DEF SyncTrack
<1> QED
  BY <1>1, <1>2, <1>3, <1>5, <1>6 DEF Sync

LEMMA TypeStep == TypeOK /\ [Next]_vars => TypeOK'
<1> SUFFICES ASSUME TypeOK, [Next]_vars PROVE TypeOK'
  OBVIOUS
<1> USE LimitsType, PartType, BoundAssumption DEF TypeOK, Known
<1>1. CASE Boot
  BY <1>1, TypeBoot
<1>2. CASE Sync
  BY <1>2, TypeSync
<1>3. CASE Crash
  BY <1>3 DEF Crash, Untracked, Off
<1>4. CASE \E l \in Limits : UpdateLimit(l)
  BY <1>4 DEF UpdateLimit
<1>5. CASE UpdateCash \/ UpdateColl
  <2>1. Part(ui.limit) \in Nat
    OBVIOUS
  <2>2. QED
    BY <1>5, <2>1 DEF UpdateCash, UpdateColl
<1>6. CASE \E c \in BrokerCash : PollCash(c)
  BY <1>6 DEF PollCash
<1>7. CASE PollColl
  <2>1. Part(poll.cash) \in Nat
    OBVIOUS
  <2>2. QED
    BY <1>7, <2>1 DEF PollColl
<1>8. ASSUME NEW t \in Trades, NEW h \in Halves, NEW other \in {"open", "vetoed"},
             Request(t, h, other)
      PROVE  TypeOK'
  <2>1. h \in Nat \ {0}
    BY HalfAssumption
  <2>2. AfterReserve(vault, h) \in [cash : Int, coll : Int, limit : Known]
    BY <2>1, ReserveType
  <2>3. QED
    BY <1>8, <2>2 DEF Request
<1>9. CASE \E t \in Trades : Close(t)
  BY <1>9 DEF Close
<1>10. CASE UNCHANGED vars
  BY <1>10 DEF vars
<1> QED
  BY <1>1, <1>2, <1>3, <1>4, <1>5, <1>6, <1>7, <1>8, <1>9, <1>10
     DEF Next, RouterRequest, EngineRequest

(* The types of the wallet, the tracked values and every task's locals.    *)
THEOREM TypeTheorem == Spec => []TypeOK
  BY TypeInit, TypeStep, PTL DEF Spec

(* Nobody but the delta of a sync drives a component below zero, whoever   *)
(* else writes the wallet and at whatever point of the sync it happens.    *)
THEOREM OverdraftTheorem == Spec => OverdraftOnlyByDelta
<1> DEFINE Kept == /\ vault'.cash >= 0 \/ vault'.cash = vault.cash
                   /\ vault'.coll >= 0 \/ vault'.coll = vault.coll
<1>1. TypeOK /\ [Next]_vars => [sync.pc # "apply" \/ sync' = sync => Kept]_vars
  <2> SUFFICES ASSUME TypeOK, Next, sync.pc # "apply" \/ sync' = sync
               PROVE  Kept
    OBVIOUS
  <2> USE LimitsType, PartType DEF TypeOK, Known
  <2>1. CASE Boot
    <3>1. Part(boot.limit) \in Nat
      OBVIOUS
    <3>2. QED
      BY <2>1, <3>1 DEF Boot, BootRead, BootCash, BootColl, BootLimit, BootTrack
  <2>2. CASE Sync
    BY <2>2 DEF Sync, SyncRead, SyncCompare, SyncCompute, SyncApply, SyncTrack
  <2>3. CASE Crash
    BY <2>3 DEF Crash
  <2>4. CASE \E l \in Limits : UpdateLimit(l)
    BY <2>4 DEF UpdateLimit
  <2>5. CASE UpdateCash \/ UpdateColl
    <3>1. Part(ui.limit) \in Nat
      OBVIOUS
    <3>2. QED
      BY <2>5, <3>1 DEF UpdateCash, UpdateColl
  <2>6. CASE \E c \in BrokerCash : PollCash(c)
    BY <2>6 DEF PollCash
  <2>7. CASE PollColl
    <3>1. Part(poll.cash) \in Nat
      OBVIOUS
    <3>2. QED
      BY <2>7, <3>1 DEF PollColl
  <2>8. ASSUME NEW t \in Trades, NEW h \in Halves, NEW other, Request(t, h, other)
        PROVE  Kept
    <3>1. h \in Nat \ {0}
      BY HalfAssumption
    <3>2. \/ AfterReserve(vault, h) = vault
          \/ AfterReserve(vault, h).cash >= 0 /\ AfterReserve(vault, h).coll >= 0
      BY <3>1, ReserveType
    <3>3. QED
      BY <2>8, <3>2 DEF Request
  <2>9. CASE \E t \in Trades : Close(t)
    BY <2>9 DEF Close
  <2> QED
    BY <2>1, <2>2, <2>3, <2>4, <2>5, <2>6, <2>7, <2>8, <2>9
       DEF Next, RouterRequest, EngineRequest
<1>2. QED
  BY <1>1, TypeTheorem, PTL DEF Spec, OverdraftOnlyByDelta
==============================================================================
