------------------------- MODULE AbstractAddressSpace -------------------------
(***************************************************************************)
(* What an address-space map promises (spec.md 4.1): a total function from *)
(* every address below the limit to its backing.  Map installs a backing   *)
(* for [virt, virt + size), offsetting the physical value per address when *)
(* the backing is offset-contiguous; Unmap restores the unmapped backing.  *)
(* Nothing else ever changes an address's backing.                         *)
(***************************************************************************)
EXTENDS Integers

CONSTANTS
  VaLimit,        \* end of the tracked space (exclusive)
  VaStart,        \* lowest address callers map or unmap
  UnmappedPa,     \* the backing of an unmapped address
  PaContigSplit,  \* the backing advances with the address inside a mapping
  PhysValues,     \* backings a caller may map
  ExtraValues,    \* per-mapping extra information a caller may attach
  NoExtra         \* the extra information of unmapped space

VARIABLE mem

Addr == 0 .. VaLimit - 1

\* The backing recorded for an unmapped address.
UnmappedBacking == [phys |-> UnmappedPa, extra |-> NoExtra]

\* The backing of address a inside a mapping of phys that starts at virt.
BackingAt(phys, virt, a, extra) ==
  [phys |-> IF PaContigSplit THEN phys + (a - virt) ELSE phys, extra |-> extra]

Init == mem = [a \in Addr |-> UnmappedBacking]

Mapped(m, virt, phys, size, extra) ==
  [a \in Addr |-> IF virt <= a /\ a < virt + size
                            THEN BackingAt(phys, virt, a, extra)
                            ELSE m[a]]

Unmapped(m, virt, size) ==
  [a \in Addr |-> IF virt <= a /\ a < virt + size
                            THEN UnmappedBacking
                            ELSE m[a]]

\* A call's range: it starts at or after VaStart and ends at or before VaLimit.
Ranges == {r \in (VaStart .. VaLimit - 1) \X (1 .. VaLimit) : r[1] + r[2] <= VaLimit}

\* One Map or Unmap; both states are bound once so that a refined spec's
\* mapped state is computed once per step.
Next ==
  LET before == mem
      after == mem'
  IN  \E r \in Ranges :
         \/ \E phys \in PhysValues, extra \in ExtraValues : after = Mapped(before, r[1], phys, r[2], extra)
         \/ after = Unmapped(before, r[1], r[2])

Spec == Init /\ [][Next]_mem
===============================================================================
