----------------------- MODULE MCMemoryManagerLayout -----------------------
(* Host address spaces for MemoryManagerLayout: every /proc/self/maps     *)
(* with up to MaxLines sorted, disjoint mappings whose ends are Points.   *)
EXTENDS MemoryManagerLayout

CONSTANTS Points, MaxLines

Lines == {l \in [lo : Points, hi : Points] : l.lo < l.hi}
MCHostMaps ==
    {s \in UNION {[1 .. n -> Lines] : n \in 0 .. MaxLines} : SortedDisjoint(s)}
=============================================================================
