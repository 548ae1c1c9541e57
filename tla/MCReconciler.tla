---------------------------- MODULE MCReconciler ----------------------------
(* Instances for one run of TLC: a basket the reconciler reviews with the  *)
(* help of its own broker session, announced up to twice; and a basket it  *)
(* reviews by the status hashes alone, announced up to four times with a   *)
(* failing pass or read, or twice with a crash of the reconciler.  One     *)
(* announcement for the kill-switch.                                       *)
EXTENDS Reconciler

Setup(key, book_, o, c, f) ==
  [fullKey |-> key, book |-> book_, originations |-> o, crashes |-> c, faults |-> f]

MCBoth == {Setup(FALSE, TRUE, 2, 0, 0), Setup(TRUE, FALSE, 4, 0, 1), Setup(TRUE, FALSE, 2, 1, 0)}
MCOnce == {Setup(FALSE, FALSE, 1, 0, 0)}
=============================================================================
