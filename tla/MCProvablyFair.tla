--------------------------- MODULE MCProvablyFair ---------------------------
(****************************************************************************)
(* Blocks of four bytes read one to five at a time: a read stays within a   *)
(* block, ends at its end, crosses into the next one, or runs out.          *)
(****************************************************************************)
EXTENDS ProvablyFair
==============================================================================
