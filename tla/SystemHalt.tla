------------------------------ MODULE SystemHalt ------------------------------
(***************************************************************************)
(* The key SYSTEM_HALT and the claims to it.  Every party that halts the   *)
(* system writes the same key and none knows of the others; the two ghost  *)
(* variables do.                                                           *)
(***************************************************************************)
VARIABLES
  flag,      \* SYSTEM_HALT; "unset" when the key is missing
  holders,   \* ghost: those who still want the system halted
  overlap    \* ghost: somebody wrote the key while another held the halt

(* Whoever tests for anything but "False" finds the system halted.         *)
Halting == flag \notin {"unset", "False"}

Holds(h) == holders' = holders \cup {h} /\ overlap' = (overlap \/ holders \ {h} # {})

-----------------------------------------------------------------------------
(* A halt is undone early only by another one that overlaps it, by the     *)
(* operator or a router that starts, or by the end of the day: while one   *)
(* party alone wants the system halted, the key says so.                   *)
HaltHolds == ~overlap /\ holders # {} => Halting
=============================================================================
