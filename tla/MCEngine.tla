------------------------------ MODULE MCEngine ------------------------------
EXTENDS Engine

(* An iron condor and a single-leg mean reversion.                         *)
MCKind == [k \in {"ic", "el"} |-> IF k = "ic" THEN "condor" ELSE "elastic"]
=============================================================================
