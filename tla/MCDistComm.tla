----------------------------- MODULE MCDistComm -----------------------------
(***************************************************************************)
(* Model checking of DistComm.                                             *)
(***************************************************************************)
EXTENDS DistComm
=============================================================================
