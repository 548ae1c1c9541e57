----------------------------- MODULE MCPipeline -----------------------------
(***************************************************************************)
(* The way of a tick to an order, for TLC: the broadcast of a tick, the    *)
(* memory shared with the readers, the volumes of the sensor, the router.  *)
(* A behaviour is one of the component chosen at the start; the others     *)
(* keep still.                                                             *)
(***************************************************************************)
EXTENDS Integers, Sequences, FiniteSets

CONSTANTS
  Keep, MaxTicks, MaxCrashes, MaxFailures,
  Figures, Tries, MaxWrites, MaxStarts,
  Bucket, Volumes, Prices, FlowTicks, FlowFaults,
  Signals, Early, Lots, Unit, Cash, Others, RouterFaults

VARIABLES
  which,
  sequence_id, scheduled, tasks, slot, latest, buffer, wire, lastSeq, acted, crashes, failures,
  kind, mem, written, writer, reader, result, starts,
  lastSign, cvd, bucket, vpin, vwap, keys, owes, ticks, restarts, failed,
  redis, cache, pulse, worker, held, sent, ghost, left

B == INSTANCE Broadcast
H == INSTANCE SharedMemory
W == INSTANCE Flow WITH MaxTicks <- FlowTicks, MaxFaults <- FlowFaults
R == INSTANCE Router WITH MaxFaults <- RouterFaults

ASSUME PipelineAssumption == B!Parameters /\ H!Parameters /\ W!Parameters /\ R!Parameters

broadcastVars ==
  <<sequence_id, scheduled, tasks, slot, latest, buffer, wire, lastSeq, acted, crashes, failures>>
memoryVars    == <<kind, mem, written, writer, reader, result, starts>>
flowVars      == <<lastSign, cvd, bucket, vpin, vwap, keys, owes, ticks, restarts, failed>>
routerVars    == <<redis, cache, pulse, worker, held, sent, ghost, left>>
all           == <<which, broadcastVars, memoryVars, flowVars, routerVars>>

Init ==
  /\ which \in {"broadcast", "memory", "flow", "router"}
  /\ B!Init /\ W!Init /\ R!Init
  /\ H!Init /\ (which # "memory" => kind = "tick")

Next ==
  \/ which = "broadcast" /\ B!Next /\ UNCHANGED <<which, memoryVars, flowVars, routerVars>>
  \/ which = "memory"    /\ H!Next /\ UNCHANGED <<which, broadcastVars, flowVars, routerVars>>
  \/ which = "flow"      /\ W!Next /\ UNCHANGED <<which, broadcastVars, memoryVars, routerVars>>
  \/ which = "router"    /\ R!Next /\ UNCHANGED <<which, broadcastVars, memoryVars, flowVars>>

Spec == Init /\ [][Next]_all

-----------------------------------------------------------------------------
(* The properties of Broadcast, SharedMemory, Flow and Router (see there): *)
(* they hold of the initial states of those that keep still.               *)

(* No tick anywhere is newer than the one in shared memory.                *)
SlotLeads == B!SlotLeads

(* No torn tick passes the CRC; a torn vector still adds up.               *)
ReadsSound == H!ReadsSound

(* Buckets are drained; the average drifts by a trade for a crash or fault.*)
FlowBounded == W!FlowBounded

(* Margin taken is margin sent, and live orders are paid for.              *)
MarginAccounted == R!MarginAccounted

(* A signal that stood bad through a pulse, and stands, keeps from live.   *)
VetoHolds == R!VetoHolds
=============================================================================
