---------------------------- MODULE MCThreadpool ----------------------------
(***************************************************************************)
(* Model checking of Threadpool: pools of two and of three threads.        *)
(***************************************************************************)
EXTENDS Threadpool
=============================================================================
