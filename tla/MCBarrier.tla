----------------------------- MODULE MCBarrier -----------------------------
(***************************************************************************)
(* Model checking of Barrier: four threads, the smallest wrap-around.     *)
(***************************************************************************)
EXTENDS Barrier
=============================================================================
