---------------------------- MODULE MCMpscUnbounded ----------------------------
(***************************************************************************)
(* The unbounded MPSC queue for TLC.  Producers differ only by name, and   *)
(* the safety properties treat them alike.                                 *)
(***************************************************************************)
EXTENDS MpscUnbounded, TLC

Symmetry == Permutations(Producers)
================================================================================
