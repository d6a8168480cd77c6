---------------------------- MODULE MCTexture ----------------------------
(* Model-checking harness for Texture.  Spec is the texture's life while  *)
(* it is in use; DestroySpec adds the destructor, run by whichever thread  *)
(* drops the last reference.                                              *)
EXTENDS Texture

DestroyNext == Next \/ TextureDestructor
DestroySpec == Init /\ [][DestroyNext]_vars
=============================================================================
