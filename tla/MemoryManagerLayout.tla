------------------------- MODULE MemoryManagerLayout -------------------------
(***************************************************************************)
(* The host side of MemoryManager's set-up (kernel/memory.cpp):            *)
(* InitializeVmm searches /proc/self/maps for a gap above 2^35 that fits    *)
(* the guest address space, maps the memfd over it with MAP_FIXED and     *)
(* lays out the three initial chunks; InitializeRegions places the code,   *)
(* alias, heap, stack and TLS/IO regions at the start of that carveout and *)
(* gives back the part of the carveout the regions do not use.             *)
(*                                                                         *)
(* Addresses and sizes are scaled down: one unit stands for a power-of-two *)
(* number of bytes, and every constant keeps the order and the alignment   *)
(* relations of the real values.  Unsigned arithmetic is modulo WordMod,   *)
(* the scaled 2^64, and the host rejects a range that ends past HostTop    *)
(* (the kernel's TASK_SIZE).                                               *)
(***************************************************************************)
EXTENDS Integers, Sequences, FiniteSets

CONSTANTS
    AsSize39,       \* 1 << 39: size of the 39-bit guest address space
    CarveStart,     \* 1 << 35: lowest start of the carveout
    RegionAlignment,
    CodeRegionSize, AliasSize, HeapSize, StackSize, TlsIoSize,
    HostTop,        \* end of the host's user address space
    WordMod,        \* 2^64: modulus of u64 arithmetic
    HostMaps,       \* the /proc/self/maps contents to consider (sequences of [lo, hi])
    CodeSizes       \* sizes of the code region the loader passes

ASSUME AsSize39 < HostTop /\ HostTop < WordMod

AsTypes == {"32Bit", "32BitNoReserved", "36Bit", "39Bit", "Unknown"}

\* util::AlignUp and util::IsAligned on a u64, whose width is that of WordMod.
U64Bits == CHOOSE b \in 1 .. WordMod : 2^b = WordMod
Util == INSTANCE Utils WITH SizeTBits <- U64Bits, Throw <- "throw"

\* baseSize for a 39-bit address space.
BaseSize == CodeRegionSize + AliasSize + HeapSize + StackSize + TlsIoSize

Span(d, n) == [data |-> d, size |-> n]
NoSpan == Span(0, 0)
End(s) == s.data + s.size
Pages(s) == s.data .. End(s) - 1

(* The do/while loop over the lines of /proc/self/maps.  "end" is the      *)
(* first field of the line (where the next mapping begins) and "start"     *)
(* the second (where it ends).  A mapping that begins below start is       *)
(* skipped without moving start.  The file ends with '\n', so after the    *)
(* last line the loop runs once more on the empty string, which            *)
(* HexStringToInt reads as 0 (MCHostArithmetic checks it, shift by 64      *)
(* included): the gap above the last mapping is never tried.  Returns the  *)
(* base address, or 0 for no carveout.                                     *)
RECURSIVE Search(_, _, _, _)
Search(lines, i, start, alignedStart) ==
    IF i > Len(lines) + 1 THEN 0
    ELSE LET end == IF i <= Len(lines) THEN lines[i].lo ELSE 0
         IN IF end < start THEN Search(lines, i + 1, start, alignedStart)
            ELSE IF end - start > BaseSize + (alignedStart - start) THEN alignedStart
            ELSE LET s == lines[i].hi
                     a == Util!AlignUp(s, RegionAlignment, U64Bits)
                 IN IF a + BaseSize > AsSize39 THEN 0
                    ELSE Search(lines, i + 1, s, a)

VARIABLES
    maps,          \* the process's host mappings when InitializeVmm runs
    phase,         \* "Vmm", "Regions", "Done", or "Failed" after a throw
    addressSpace,  \* span of the guest address space
    base,          \* the carveout
    guestPages,    \* host pages the memfd mapping of the carveout covers
    chunks,
    regions        \* code, alias, heap, stack, tlsIo

vars == <<maps, phase, addressSpace, base, guestPages, chunks, regions>>

(* munmap(addr, len): the kernel rejects a range that does not fit below   *)
(* TASK_SIZE, and otherwise drops every page of it.                        *)
Munmap(pages, addr, len) ==
    IF len = 0 \/ addr + len > HostTop THEN pages
    ELSE pages \ (addr .. addr + len - 1)

SortedDisjoint(s) == \A i \in 1 .. Len(s) - 1 : s[i].hi < s[i + 1].lo

Init ==
    /\ maps \in HostMaps
    /\ phase = "Vmm"
    /\ addressSpace = NoSpan /\ base = NoSpan /\ guestPages = {}
    /\ chunks = << >> /\ regions = [r \in {"code", "alias", "heap", "stack", "tlsIo"} |-> NoSpan]

(* MemoryManager::InitializeVmm(type).                                     *)
InitializeVmm(type) ==
    /\ phase = "Vmm"
    /\ IF type # "39Bit"
       THEN phase' = "Failed" /\ UNCHANGED <<addressSpace, base, guestPages, chunks>>
       ELSE LET b == Search(maps, 1, CarveStart, CarveStart)
            IN IF b = 0
               THEN phase' = "Failed" /\ UNCHANGED <<base, guestPages, chunks>>
                    /\ addressSpace' = Span(0, AsSize39)
               ELSE /\ addressSpace' = Span(0, AsSize39)
                    /\ base' = Span(b, BaseSize)
                    /\ guestPages' = Pages(Span(b, BaseSize))
                    /\ chunks' = << [ptr |-> 0, size |-> b, state |-> "Reserved"],
                                    [ptr |-> b, size |-> BaseSize, state |-> "Unmapped"],
                                    [ptr |-> b + BaseSize,
                                     size |-> (AsSize39 - (b + BaseSize)) % WordMod,
                                     state |-> "Reserved"] >>
                    /\ phase' = "Regions"
    /\ UNCHANGED <<maps, regions>>

(* MemoryManager::InitializeRegions(codeRegion) for the 39-bit layout.     *)
InitializeRegions(codeData, codeSize) ==
    /\ phase = "Regions"
    /\ IF ~Util!IsAligned(codeData, RegionAlignment)
       THEN phase' = "Failed" /\ UNCHANGED <<regions, guestPages>>
       ELSE LET code == Span(base.data, Util!AlignUp(codeSize, RegionAlignment, U64Bits))
                alias == Span(End(code), AliasSize)
                heap == Span(End(alias), HeapSize)
                stack == Span(End(heap), StackSize)
                tlsIo == Span(End(stack), TlsIoSize)
                newSize == code.size + alias.size + stack.size + heap.size + tlsIo.size
            IN /\ regions' = [code |-> code, alias |-> alias, heap |-> heap,
                              stack |-> stack, tlsIo |-> tlsIo]
               /\ IF newSize > base.size
                  THEN phase' = "Failed" /\ UNCHANGED guestPages
                  ELSE /\ guestPages' = IF newSize # base.size
                                        THEN Munmap(guestPages, End(base),
                                                    (newSize - base.size) % WordMod)
                                        ELSE guestPages
                       /\ phase' = "Done"
    /\ UNCHANGED <<maps, addressSpace, base, chunks>>

Next ==
    \/ \E type \in AsTypes : InitializeVmm(type)
    \/ \E d \in {0, 1}, n \in CodeSizes : InitializeRegions(CarveStart + d, n)

Spec == Init /\ [][Next]_vars

-----------------------------------------------------------------------------
HostPages(s) == UNION {l.lo .. l.hi - 1 : l \in {s[i] : i \in DOMAIN s}}

(* The guest reservation holds exactly the host pages the guest was given  *)
(* and no page of another mapping of the process: after InitializeVmm the  *)
(* carveout, which the MAP_FIXED mmap must not lay over an existing        *)
(* mapping, and after InitializeRegions the regions it laid out, the rest  *)
(* of the carveout having been returned with munmap.                       *)
GuestReservationExact ==
    /\ phase \in {"Regions", "Done"} => guestPages \cap HostPages(maps) = {}
    /\ phase = "Done" =>
         guestPages = base.data .. End(regions.tlsIo) - 1
=============================================================================
