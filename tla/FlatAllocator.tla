----------------------------- MODULE FlatAllocator -----------------------------
(***************************************************************************)
(* FlatAllocator (src/unnamed/part_001, address_space.inl 428-499): a      *)
(* FlatAddressSpaceMap whose backing is a bool (true = allocated, false =  *)
(* UnmappedPa) and is not offset across splits, plus a linear allocation   *)
(* cursor.  Every call holds blockMutex for its whole duration, so each is *)
(* one atomic step.                                                        *)
(***************************************************************************)
EXTENDS Integers, Sequences, SequencesExt

CONSTANTS
  VaLimit,  \* vaLimit
  VaStart,  \* vaStart: where linear allocation begins
  Sizes     \* allocation sizes callers request

ASSUME VaStart \in Nat \ {0} /\ VaStart < VaLimit /\ Sizes \subseteq 1 .. VaLimit

VARIABLES
  blocks,                 \* the block vector of the underlying map
  fault,                  \* "none" or the exception a call threw
  currentLinearAllocEnd,  \* the linear allocation cursor
  lastAlloc               \* what the last call returned: a range, "full" or nothing

vars == <<blocks, fault, currentLinearAllocEnd, lastAlloc>>

NoExtra == "none"

\* What a call that is not Allocate leaves in lastAlloc.
NoResult == [kind |-> "none", start |-> 0, size |-> 0]

M == INSTANCE FlatAddressSpaceMap
       WITH UnmappedPa <- FALSE, PaContigSplit <- FALSE, PhysValues <- {TRUE},
            ExtraValues <- {NoExtra}

UnmappedVa == 0

\* The "skip over fixed mappings" loop of the linear path, from the block
\* pair (aep, aep + 1): the start it settles on, or UnmappedVa.
RECURSIVE SkipFixed(_, _, _)
SkipFixed(bl, aep, size) ==
  LET aes == aep + 1
  IN  IF aes = Len(bl) + 1 THEN UnmappedVa
      ELSE IF bl[aes].virt - bl[aep].virt < size \/ M!Mapped(bl[aep]) THEN bl[aep].virt
      ELSE IF aes = Len(bl) /\ bl[aes].virt + size <= VaLimit
        THEN \* the final block fits before vaLimit; the loop then ends
             bl[aes].virt
      ELSE SkipFixed(bl, aes, size)

\* Mutant of LinearStart: the vaLimit check of the fast path is missing.
LinearStartNoLimit(bl, cur, size) ==
  LET aep == M!LowerBound(bl, cur + size) - 1
  IN  IF bl[aep].virt <= cur THEN cur ELSE SkipFixed(bl, aep, size)

\* The linear (fast) path: a start at or after the cursor, or UnmappedVa.
LinearStart(bl, cur, size) ==
  LET allocEnd == cur + size
      aep == M!LowerBound(bl, allocEnd) - 1
  IN  IF allocEnd > VaLimit THEN UnmappedVa
      ELSE IF bl[aep].virt <= cur THEN cur
      ELSE SkipFixed(bl, aep, size)

\* The first-fit fallback: the index of the first unmapped block followed
\* by another block at least size later, or 0 when there is none.
GapIndex(bl, size) ==
  LET I == {i \in 1 .. Len(bl) - 1 : M!Unmapped(bl[i]) /\ bl[i + 1].virt - bl[i].virt >= size}
  IN  IF I = {} THEN 0 ELSE Min(I)

Init ==
  /\ M!Init
  /\ currentLinearAllocEnd = VaStart
  /\ lastAlloc = NoResult

Allocate(size) ==
  LET linear == LinearStart(blocks, currentLinearAllocEnd, size)
      gap == GapIndex(blocks, size)
      start == IF linear # UnmappedVa THEN linear ELSE blocks[gap].virt
      r == M!MapLocked(blocks, start, TRUE, size, NoExtra)
  IN  /\ fault = "none"
      /\ IF linear = UnmappedVa /\ Len(blocks) <= 2
           THEN /\ fault' = "Unexpected"
                /\ UNCHANGED <<blocks, currentLinearAllocEnd, lastAlloc>>
         ELSE IF linear = UnmappedVa /\ gap = 0
           THEN /\ lastAlloc' = [kind |-> "full", start |-> UnmappedVa, size |-> size]
                /\ UNCHANGED <<blocks, fault, currentLinearAllocEnd>>
         ELSE /\ blocks' = r.blocks
              /\ fault' = r.fault
              /\ currentLinearAllocEnd' =
                   IF linear # UnmappedVa THEN start + size ELSE currentLinearAllocEnd
              /\ lastAlloc' = [kind |-> "range", start |-> start, size |-> size]

AllocateFixed(virt, size) ==
  /\ fault = "none"
  /\ M!Apply(M!MapLocked(blocks, virt, TRUE, size, NoExtra))
  /\ lastAlloc' = NoResult
  /\ UNCHANGED currentLinearAllocEnd

Free(virt, size) ==
  /\ fault = "none"
  /\ M!Apply(M!UnmapLocked(blocks, virt, size))
  /\ lastAlloc' = NoResult
  /\ UNCHANGED currentLinearAllocEnd

Next ==
  \/ \E size \in Sizes : Allocate(size)
  \/ \E r \in M!Ranges : AllocateFixed(r[1], r[2]) \/ Free(r[1], r[2])

Spec == Init /\ [][Next]_vars

-----------------------------------------------------------------------------
(* Properties                                                              *)

\* The cursor may pass vaLimit: it is advanced before MapLocked checks the
\* range.  Every start Allocate returns is an address below vaLimit.
TypeOK ==
  /\ currentLinearAllocEnd \in 0 .. 2 * VaLimit
  /\ lastAlloc \in {NoResult} \cup [kind : {"range", "full"}, start : 0 .. VaLimit - 1, size : Sizes]
  /\ fault \in M!Faults \cup {"Unexpected"}

\* Whether address a is allocated according to the block vector.
Allocated(bl, a) == M!View(bl)[a].phys

\* Allocate hands out a range inside [vaStart, vaLimit) of which no address
\* was allocated (by Allocate or AllocateFixed) before the call.
AllocReturnsFreeRange ==
  [][lastAlloc'.kind = "range" =>
       LET v == lastAlloc'.start
           n == lastAlloc'.size
       IN  /\ VaStart <= v
           /\ v + n <= VaLimit
           /\ \A a \in v .. v + n - 1 : ~Allocated(blocks, a)]_vars

\* Allocate only reports the space full (returns {}) when no free run of
\* the requested size exists anywhere in [vaStart, vaLimit).
FullOnlyWhenFull ==
  [][lastAlloc'.kind = "full" =>
       ~\E v \in VaStart .. VaLimit - lastAlloc'.size :
           \A a \in v .. v + lastAlloc'.size - 1 : ~Allocated(blocks, a)]_vars

\* Allocate never throws "Unexpected allocator state!": when the fast path
\* cannot place the allocation it falls back to the first-fit search and
\* at worst reports the space full (spec.md 7: exhaustion is recoverable).
AllocNeverUnexpected == fault # "Unexpected"

\* The allocator's block vector stays a proper block list (FlatAddressSpaceMap
\* Sorted) under every call sequence, the allocator's own MapLocked calls at
\* the starts it computes included, unless a call has already walked off
\* the front of the vector (undefined behaviour, after which nothing holds).
AllocatorSorted == fault # "UB" => M!Sorted
===============================================================================
