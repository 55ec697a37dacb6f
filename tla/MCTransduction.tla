--------------------------- MODULE MCTransduction ---------------------------
(***************************************************************************)
(* Model checking of Transduction, and through it of AtomSpace and         *)
(* Cogfluence.                                                             *)
(***************************************************************************)
EXTENDS Transduction

=============================================================================
