------------------------- MODULE MCBoundedSampling -------------------------
(****************************************************************************)
(* Weights for BoundedSampling on four-bit words: none, all zero, one, zero *)
(* in between, and sums on both sides of the largest word.                  *)
(****************************************************************************)
EXTENDS BoundedSampling

SmallWeights ==
    {<<>>, <<0, 0>>, <<3>>, <<1, 0, 2>>, <<0, 5, 1, 0>>, <<7, 8>>, <<8, 8>>,
     <<15, 15, 15>>}
==============================================================================
