-------------------------- MODULE FlatAddressSpaceMap --------------------------
(***************************************************************************)
(* FlatAddressSpaceMap (src/unnamed/part_001, address_space.inl): a vector *)
(* of blocks sorted by virtual address, each starting a run of uniformly   *)
(* backed space that lasts until the next block, terminated by an unmapped *)
(* block covering the rest of the space up to vaLimit.  MapLocked and      *)
(* UnmapLocked are modelled as pure operators over the block sequence so   *)
(* that the allocator (FlatAllocator) can call MapLocked inside its own    *)
(* critical section.  An exception the code throws ends the model in a     *)
(* state whose fault records it, with the blocks as the code left them.    *)
(***************************************************************************)
EXTENDS Integers, Sequences, SequencesExt

CONSTANTS
  VaLimit,        \* vaLimit
  VaStart,        \* lowest address callers map or unmap
  UnmappedPa,     \* the PaType value marking unmapped space
  PaContigSplit,  \* splitting a block offsets its backing
  PhysValues,     \* backings a caller may map
  ExtraValues,    \* ExtraBlockInfo values a caller may attach
  NoExtra         \* ExtraBlockInfo{}

ASSUME VaStart \in Nat /\ VaLimit \in Nat /\ VaStart < VaLimit
ASSUME UnmappedPa \notin PhysValues /\ NoExtra \in ExtraValues

VARIABLES
  blocks,  \* the block vector
  fault    \* "none", or the exception or undefined behaviour a call ran into

vars == <<blocks, fault>>

Block(v, p, e) == [virt |-> v, phys |-> p, extra |-> e]
Unmapped(b) == b.phys = UnmappedPa
Mapped(b) == ~Unmapped(b)

\* Mutants of TailPhys: offsetting by the absolute end address, and not
\* offsetting at all.
TailPhysFromStart(b, virtEnd) ==
  IF PaContigSplit /\ Mapped(b) THEN b.phys + virtEnd ELSE b.phys
TailPhysNoOffset(b, virtEnd) == b.phys

\* The backing a block's split-off tail starts with.
TailPhys(b, virtEnd) ==
  IF PaContigSplit /\ Mapped(b) THEN b.phys + (virtEnd - b.virt) ELSE b.phys

\* bl with the blocks at indices from .. to - 1 erased (vector::erase).
Erase(bl, from, to) == SubSeq(bl, 1, from - 1) \o SubSeq(bl, to, Len(bl))

\* Mutant of InsertSeqAt: the block at index i is overwritten, not shifted.
InsertSeqAtDropNext(bl, i, s) == SubSeq(bl, 1, i - 1) \o s \o SubSeq(bl, i + 1, Len(bl))

\* bl with the blocks of s inserted before index i (vector::insert).
InsertSeqAt(bl, i, s) == SubSeq(bl, 1, i - 1) \o s \o SubSeq(bl, i, Len(bl))

\* std::lower_bound(blocks, v): the first block starting at or after v.
LowerBound(bl, v) ==
  LET i == SelectInSeq(bl, LAMBDA b : b.virt >= v)
  IN  IF i = 0 THEN Len(bl) + 1 ELSE i

\* Mutant of StartSuccessor: the walk tests it->virt instead of prev(it)->virt.
RECURSIVE StartSuccessorSelf(_, _, _)
StartSuccessorSelf(bl, it, virt) ==
  IF it = 1 THEN 0
  ELSE IF bl[it].virt >= virt THEN StartSuccessorSelf(bl, it - 1, virt) ELSE it

\* MapLocked's walk "while (prev(it)->virt >= virt) it--"; 0 when it would
\* step before the first block (undefined behaviour).
RECURSIVE StartSuccessor(_, _, _)
StartSuccessor(bl, it, virt) ==
  IF it = 1 THEN 0
  ELSE IF bl[it - 1].virt >= virt THEN StartSuccessor(bl, it - 1, virt) ELSE it

\* UnmapLocked's walkBackToPredecessor "while (it->virt >= virt) it--";
\* 0 when it steps before the first block.
RECURSIVE StartPredecessor(_, _, _)
StartPredecessor(bl, it, virt) ==
  IF it = 0 THEN 0
  ELSE IF bl[it].virt >= virt THEN StartPredecessor(bl, it - 1, virt) ELSE it

Ok(bl) == [blocks |-> bl, fault |-> "none"]
Fail(bl, why) == [blocks |-> bl, fault |-> why]

-----------------------------------------------------------------------------
(* MapLocked                                                               *)

\* Mutant: the overwritten blocks are erased through es, the block that
\* starts at virtEnd, instead of up to it.
MapHeadOverErase(bl, es, virt, phys, virtEnd, extra) ==
  LET ss == StartSuccessor(bl, es, virt)
  IN  CASE ss = 0                -> Fail(bl, "UB")
        [] bl[ss].virt > virtEnd -> Fail(bl, "Unsorted")
        [] bl[ss].virt = virtEnd -> Ok(InsertAt(bl, ss, Block(virt, phys, extra)))
        [] OTHER -> Ok([Erase(bl, ss + 1, es + 1) EXCEPT ![ss] = Block(virt, phys, extra)])

\* Second half of MapLocked: es is the block now starting at virtEnd; find
\* the first block the mapping overwrites, erase the ones after it and reuse
\* it as the head, or insert a head when none is overwritten.
MapHead(bl, es, virt, phys, virtEnd, extra) ==
  LET ss == StartSuccessor(bl, es, virt)
  IN  CASE ss = 0                -> Fail(bl, "UB")
        [] bl[ss].virt > virtEnd -> Fail(bl, "Unsorted")
        [] bl[ss].virt = virtEnd -> Ok(InsertAt(bl, ss, Block(virt, phys, extra)))
        [] OTHER -> Ok([Erase(bl, ss + 1, es) EXCEPT ![ss] = Block(virt, phys, extra)])

MapLocked(bl, virt, phys, size, extra) ==
  LET virtEnd == virt + size
      es == LowerBound(bl, virtEnd)
      ep == es - 1
      pred == bl[ep]
      head == Block(virt, phys, extra)
  IN  IF virtEnd > VaLimit THEN Fail(bl, "VaLimit")
      ELSE IF es <= Len(bl) THEN
        IF bl[es].virt = virtEnd THEN MapHead(bl, es, virt, phys, virtEnd, extra)
        ELSE IF pred.virt >= virt
          THEN MapHead([bl EXCEPT ![ep].virt = virtEnd, ![ep].phys = TailPhys(pred, virtEnd)],
                       ep, virt, phys, virtEnd, extra)
          ELSE Ok(InsertSeqAt(bl, es, <<head, Block(virtEnd, TailPhys(pred, virtEnd), pred.extra)>>))
      ELSE IF ep # 1 /\ pred.virt >= virt
        THEN MapHead([bl EXCEPT ![ep].virt = virtEnd], ep, virt, phys, virtEnd, extra)
        ELSE Ok(bl \o <<head, Block(virtEnd, UnmappedPa, NoExtra)>>)

-----------------------------------------------------------------------------
(* UnmapLocked                                                             *)

\* The eraseBlocksWithEndUnmapped lambda: ue is an unmapped block ending the
\* range; merge the range into it (or into an unmapped start predecessor).
EraseWithEndUnmapped(bl, ue, virt) ==
  LET sp == StartPredecessor(bl, ue, virt)
      spUnmapped == Unmapped(bl[sp])
      bl1 == IF spUnmapped THEN bl ELSE [bl EXCEPT ![ue].virt = virt]
      eraseEnd == IF spUnmapped THEN ue + 1 ELSE ue
  IN  IF sp = 0 THEN Fail(bl, "UB")
      ELSE IF eraseEnd # Len(bl1) + 1
              /\ (eraseEnd = sp + 1 \/ (spUnmapped /\ Unmapped(bl1[eraseEnd])))
        THEN Fail(bl1, "Contiguous")
        ELSE Ok(Erase(bl1, sp + 1, eraseEnd))

\* Second half of UnmapLocked: es is the block now starting at virtEnd.
UnmapHead(bl, es, virt, virtEnd) ==
  LET sp == StartPredecessor(bl, es, virt)
      ss == sp + 1
  IN  CASE sp = 0                -> Fail(bl, "UB")
        [] bl[ss].virt > virtEnd -> Fail(bl, "Unsorted")
        [] bl[ss].virt = virtEnd ->
             Ok(IF Mapped(bl[sp]) THEN InsertAt(bl, ss, Block(virt, UnmappedPa, NoExtra)) ELSE bl)
        [] Unmapped(bl[sp])      -> Ok(Erase(bl, ss, es - 1))
        [] OTHER -> Ok([Erase(bl, ss + 1, es) EXCEPT ![ss].virt = virt, ![ss].phys = UnmappedPa])

UnmapLocked(bl, virt, size) ==
  LET virtEnd == virt + size
      es == LowerBound(bl, virtEnd)
      ep == es - 1
      pred == bl[ep]
  IN  CASE virtEnd > VaLimit -> Fail(bl, "VaLimit")
        [] Unmapped(pred) ->
             IF pred.virt > virt THEN EraseWithEndUnmapped(bl, ep, virt) ELSE Ok(bl)
        [] es = Len(bl) + 1 -> Fail(bl, "UB")
        [] bl[es].virt = virtEnd /\ Unmapped(bl[es]) -> EraseWithEndUnmapped(bl, es, virt)
        [] bl[es].virt = virtEnd -> UnmapHead(bl, es, virt, virtEnd)
        [] pred.virt >= virt ->
             UnmapHead([bl EXCEPT ![ep].virt = virtEnd, ![ep].phys = TailPhys(pred, virtEnd)],
                       ep, virt, virtEnd)
        [] OTHER ->
             Ok(InsertSeqAt(bl, es, <<Block(virt, UnmappedPa, NoExtra),
                                       Block(virtEnd, TailPhys(pred, virtEnd), pred.extra)>>))

-----------------------------------------------------------------------------
(* Calls                                                                   *)

\* A call's range [r[1], r[1] + r[2]); ranges ending past vaLimit throw
\* before any change and are the caller's error.
Ranges == {r \in (VaStart .. VaLimit - 1) \X (1 .. VaLimit) : r[1] + r[2] <= VaLimit}

\* The blocks vector initially holds one default Block{}: unmapped from 0.
Init ==
  /\ blocks = <<Block(0, UnmappedPa, NoExtra)>>
  /\ fault = "none"

Apply(r) == blocks' = r.blocks /\ fault' = r.fault

Map(virt, phys, size, extra) ==
  /\ fault = "none"
  /\ Apply(MapLocked(blocks, virt, phys, size, extra))

Unmap(virt, size) ==
  /\ fault = "none"
  /\ Apply(UnmapLocked(blocks, virt, size))

Next ==
  \E r \in Ranges :
     \/ \E phys \in PhysValues, extra \in ExtraValues : Map(r[1], phys, r[2], extra)
     \/ Unmap(r[1], r[2])

Spec == Init /\ [][Next]_vars

-----------------------------------------------------------------------------
(* Properties                                                              *)

Faults == {"none", "VaLimit", "UB", "Unsorted", "Contiguous"}

TypeOK ==
  /\ blocks \in Seq([virt : 0 .. VaLimit,
                     phys : {UnmappedPa} \cup
                            {p + d : p \in PhysValues, d \in 0 .. VaLimit} \cup PhysValues,
                     extra : ExtraValues])
  /\ fault \in Faults

\* Every exception MapLocked and UnmapLocked throw on an internal
\* inconsistency (unsorted blocks, contiguous unmapped regions) and every
\* walk off the front of the vector is unreachable by legal calls.
NoFault == fault = "none"

\* The vector stays a proper block list whatever calls are made: it starts
\* with the base block at 0, is strictly sorted by address (every block
\* covers at least one address) and ends with an unmapped block.
Sorted ==
  /\ Len(blocks) >= 1
  /\ blocks[1].virt = 0
  /\ \A i \in 1 .. Len(blocks) - 1 : blocks[i].virt < blocks[i + 1].virt
  /\ Unmapped(blocks[Len(blocks)])

\* The block holding address a, as the accessors' upper_bound lookup finds
\* it: the last block starting at or before a.
RECURSIVE BlockBefore(_, _, _)
BlockBefore(bl, a, i) ==
  IF i = 1 \/ bl[i].virt <= a THEN i ELSE BlockBefore(bl, a, i - 1)

BlockOf(bl, a) == BlockBefore(bl, a, Len(bl))

View(bl) ==
  [a \in 0 .. VaLimit - 1 |->
     LET b == bl[BlockOf(bl, a)]
     IN  IF Unmapped(b) THEN [phys |-> UnmappedPa, extra |-> NoExtra]
         ELSE [phys |-> IF PaContigSplit THEN b.phys + (a - b.virt) ELSE b.phys,
               extra |-> b.extra]]

Abstract == INSTANCE AbstractAddressSpace WITH mem <- View(blocks)

\* Every Map and Unmap changes exactly the backing of the addresses in its
\* range, to the backing the abstract address space gives them.
Refinement == Abstract!Spec
===============================================================================
