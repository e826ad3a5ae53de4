----------------------------- MODULE MCMpscBounded -----------------------------
(***************************************************************************)
(* The bounded MPSC queue for TLC.  Producers differ only by name, and the *)
(* safety properties treat them alike.                                     *)
(***************************************************************************)
EXTENDS MpscBounded, TLC

Symmetry == Permutations(Producers)
================================================================================
