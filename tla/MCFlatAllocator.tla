--------------------------- MODULE MCFlatAllocator ---------------------------
(***************************************************************************)
(* Model-checking harness for FlatAllocator under every call sequence:     *)
(* Allocate, AllocateFixed and Free of any range, as the GPU address-space *)
(* code may issue them.                                                    *)
(***************************************************************************)
EXTENDS FlatAllocator
===============================================================================
