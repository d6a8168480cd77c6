----------------------------- MODULE GuestMirror -----------------------------
(***************************************************************************)
(* The mirror a texture reads its guest data through: Texture::             *)
(* SetupGuestMappings (gpu/texture/texture.cpp) page-aligns the texture's  *)
(* host mappings of guest memory and asks MemoryManager::CreateMirror or   *)
(* CreateMirrors (kernel/memory.cpp) for a second host mapping of the same *)
(* memfd pages.  A host span is a record [data, size]; the guest carveout  *)
(* `base` starts at BaseData and the memfd offset of a host address a in   *)
(* it is a - BaseData.  A mirror is the sequence of memfd offsets its      *)
(* bytes map, in order; where it lies in the host does not matter.         *)
(***************************************************************************)
EXTENDS Utils, SequencesExt

CONSTANTS
    PageSize,   \* PAGE_SIZE
    BaseData,   \* base.data()
    BaseSize    \* base.size()

ASSUME IsAligned(BaseData, PageSize) /\ IsAligned(BaseSize, PageSize)

Span(d, n) == [data |-> d, size |-> n]
End(s) == s.data + s.size

\* mmap(..., MAP_SHARED, memoryFd, offset) of the memfd range behind span r.
MapFd(r) == [k \in 1 .. r.size |-> r.data - BaseData + k - 1]

\* The three checks CreateMirror and CreateMirrors make on each range.
MirrorCheck(r) ==
  /\ r.data >= BaseData /\ End(r) <= BaseData + BaseSize
  /\ IsAligned(r.data - BaseData, PageSize)
  /\ IsAligned(r.size, PageSize)

\* MemoryManager::CreateMirror.
CreateMirror(mapping) == IF MirrorCheck(mapping) THEN MapFd(mapping) ELSE Throw

(* MemoryManager::CreateMirrors: reserves the total size, then maps each   *)
(* region in turn right after the previous one; a region that fails the    *)
(* checks throws.  The final size comparison cannot fail.                  *)
CreateMirrors(regions) ==
  IF \E i \in 1 .. Len(regions) : ~MirrorCheck(regions[i]) THEN Throw
  ELSE FoldLeft(LAMBDA m, r : m \o MapFd(r), << >>, regions)

\* A plausible slip: the back mapping's size taken as it is.
BackRegionUnaligned(back) == Span(back.data, back.size)

\* The region SetupGuestMappings mirrors for the back mapping: its start as
\* it is, its size aligned up to a page.
BackRegion(back) == Span(back.data, AlignUp(back.size, PageSize, SizeTBits))

(* Texture::SetupGuestMappings.  One mapping: the pages around it are       *)
(* mirrored and the mirror is the subspan at its offset.  Several: the     *)
(* front mapping is aligned down at its start only, the middle ones are    *)
(* taken as they are, and the back one keeps its start and has its size    *)
(* aligned up; the mirror is the subspan of totalSize bytes at the front's *)
(* offset.                                                                 *)
SetupGuestMappings(mappings) ==
  LET front == mappings[1]
      back == mappings[Len(mappings)]
      alignedData == AlignDown(front.data, PageSize, SizeTBits)
      middle == SubSeq(mappings, 2, Len(mappings) - 1)
      aligned == <<Span(alignedData, End(front) - alignedData)>> \o middle
                 \o <<BackRegion(back)>>
      totalSize == FoldLeft(LAMBDA n, r : n + r.size, 0, mappings)
      offset == front.data - alignedData
      am == CreateMirrors(aligned)
  IN  IF Len(mappings) = 1
      THEN LET alignedSize == AlignUp(End(front), PageSize, SizeTBits) - alignedData
               one == CreateMirror(Span(alignedData, alignedSize))
           IN  IF one = Throw THEN Throw ELSE SubSeq(one, offset + 1, offset + front.size)
      ELSE IF am = Throw THEN Throw ELSE SubSeq(am, offset + 1, offset + totalSize)
=============================================================================
