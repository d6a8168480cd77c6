------------------------ MODULE MCFlatMemoryManager ------------------------
(***************************************************************************)
(* Model-checking harness for the FlatMemoryManager: pointer backings      *)
(* (UnmappedPa = nullptr = 0) offset across splits, a sparse flag, and any *)
(* sequence of MapLocked calls and accessor calls.  Unmap is left to the   *)
(* MCFlatAddressSpaceMap runs, where UnmapLocked's faults are found.       *)
(***************************************************************************)
EXTENDS FlatMemoryManager

MapAccessNext ==
  \/ \E r \in Ranges, phys \in PhysValues, extra \in ExtraValues : MMMap(r[1], phys, r[2], extra)
  \/ AccessNext

MapAccessSpec == MMInit /\ [][MapAccessNext]_mmVars

AbstractMapOnly == INSTANCE AbstractAddressSpace WITH mem <- View(blocks)

\* MapLocked alone implements the abstract Map; the accessors leave the
\* abstract address space unchanged.  A step that leaves the blocks alone
\* leaves View(blocks) alone, so this implies AbstractMapOnly!Spec; the
\* stuttering case comes first so that the accessors' steps are recognised
\* without trying every abstract Map.
MapRefinement ==
  /\ AbstractMapOnly!Init
  /\ [][UNCHANGED blocks \/ AbstractMapOnly!Next]_mmVars
===============================================================================
