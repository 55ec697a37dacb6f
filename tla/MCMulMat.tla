------------------------------ MODULE MCMulMat ------------------------------
(***************************************************************************)
(* Model checking of MulMat: results that are chunked by size and by       *)
(* thread, wide and thin, with parts that come out short or empty.         *)
(***************************************************************************)
EXTENDS MulMat

MCShapes == {<<1, 1>>, <<5, 1>>, <<4, 7>>, <<6, 5>>, <<1, 15>>}
=============================================================================
