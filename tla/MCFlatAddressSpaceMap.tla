------------------------ MODULE MCFlatAddressSpaceMap ------------------------
(***************************************************************************)
(* Model-checking harness for FlatAddressSpaceMap, instantiated as the     *)
(* FlatMemoryManager uses it: pointer backings (UnmappedPa = nullptr = 0)  *)
(* that are offset across splits, and a sparse flag as extra information.  *)
(* MCFlatMemoryManager checks MapLocked alone, together with the accessors.*)
(***************************************************************************)
EXTENDS FlatAddressSpaceMap

===============================================================================
