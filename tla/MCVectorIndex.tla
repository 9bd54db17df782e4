---------------------------- MODULE MCVectorIndex ----------------------------
(* A small instance of VectorIndex: vectors that point in different directions, one *)
(* of zeros, a shorter one, and one whose norm is too long for a float.             *)
EXTENDS VectorIndex

MCVectors == {<<1, 1>>, <<-1, 1>>, <<0, 0>>, <<2>>, <<3, 0>>}
==============================================================================
