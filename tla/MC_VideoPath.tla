----------------------------- MODULE MC_VideoPath -----------------------------
(***************************************************************************)
(* VideoPath with three textures for a queue of one frame, as many as the  *)
(* recorder gives its pool.  Textures differ in nothing.                   *)
(***************************************************************************)
EXTENDS VideoPath, TLC

CONSTANTS t1, t2, t3

TextureSymmetry == Permutations(Textures)
=============================================================================
