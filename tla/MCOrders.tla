------------------------------ MODULE MCOrders ------------------------------
(***************************************************************************)
(* The bridge for TLC, and the switches it reads and writes (Halt).  A     *)
(* behaviour is one of the two, chosen at the start; the other keeps still.*)
(***************************************************************************)
EXTENDS MCBridge, SystemHalt

CONSTANTS MaxSlips, MaxMoves, MaxOnce, MaxDays

VARIABLES which, kinetic, signals, clock, monitor, breaker, move, starting, bounds

(* Before the open, in the session, the end of the day; an event of the    *)
(* first tier.                                                             *)
Minutes == {60 * h : h \in {0, 9, 15, 16}}
Events  == {60 * 10 + 15}

H == INSTANCE Halt WITH count <- bounds

ASSUME SwitchAssumption == H!Parameters

switches ==
  <<flag, kinetic, signals, clock, monitor, breaker, move, starting, holders, overlap, bounds>>
all == <<which, vars, switches>>

InitOrders == which \in {"bridge", "switches"} /\ Init /\ H!Init

NextOrders ==
  \/ which = "bridge"   /\ Next   /\ UNCHANGED <<which, switches>>
  \/ which = "switches" /\ H!Next /\ UNCHANGED <<which, vars>>

Orders == InitOrders /\ [][NextOrders]_all
=============================================================================
