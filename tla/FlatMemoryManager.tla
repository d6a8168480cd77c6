--------------------------- MODULE FlatMemoryManager ---------------------------
(***************************************************************************)
(* FlatMemoryManager's accessors (src/unnamed/part_001, address_space.inl):  *)
(* TranslateRange, Read, Write and Copy walk the block vector from the     *)
(* block upper_bound finds for the start address, one run of uniformly     *)
(* backed space at a time.  Each call holds blockMutex for its whole body, *)
(* so it is one step.  The host memory behind the backings is `memory`, a  *)
(* function from host byte address to byte; a sparse block reads as zero  *)
(* and, for Write, discards what is written.  A call's outcome is kept in  *)
(* `result` for the properties.                                            *)
(***************************************************************************)
EXTENDS FlatAddressSpaceMap, FiniteSets

CONSTANTS
  Data,           \* byte values
  SparseExtra,    \* ExtraBlockInfo with sparseMapped set
  SparseMapSize,  \* size of the zero page sparseMap
  ZeroPage,       \* host address of sparseMap
  MaxAccess       \* longest range a caller accesses

ASSUME 0 \in Data /\ SparseExtra \in ExtraValues /\ SparseExtra # NoExtra

VARIABLES
  memory,  \* host bytes behind the mapped backings
  result   \* the last accessor call and its outcome

mmVars == <<blocks, fault, memory, result>>

HostAddrs == {p + d : p \in PhysValues, d \in 0 .. VaLimit}
Sparse(b) == b.extra = SparseExtra

\* std::upper_bound(blocks, virt): the first block starting after virt.
UpperBound(bl, v) ==
  LET after == {i \in 1 .. Len(bl) : bl[i].virt > v}
  IN  IF after = {} THEN Len(bl) + 1 ELSE Min(after)

\* successor->virt.  Past the end of the vector the code reads whatever
\* follows it; the walks below only use such a value for a run of the last
\* block, which is unmapped (Sorted), so Read, Write and Copy throw before
\* using it.
SuccVirt(bl, s, past) == IF s <= Len(bl) THEN bl[s].virt ELSE past

Done(v) == [out |-> "ok", val |-> v]
Thrown(e) == [out |-> e, val |-> << >>]

\* The first run of a walk starting at v: predecessor, blockPhys, run size.
StartRun(bl, v, size) ==
  LET p == UpperBound(bl, v) - 1
  IN  [p |-> p, bp |-> bl[p].phys + (v - bl[p].virt),
       n |-> Min({SuccVirt(bl, p + 1, v + size) - v, size})]

\* The run after the one of block p, with `rest` bytes left:
\* predecessor = successor++, blockPhys = predecessor->phys.
NextRun(bl, p, rest) ==
  [p |-> p + 1, bp |-> bl[p + 1].phys,
   n |-> Min({SuccVirt(bl, p + 2, bl[p + 1].virt + rest) - bl[p + 1].virt, rest})]

-----------------------------------------------------------------------------
(* Read                                                                    *)

(* Mutant: blockPhys keeps advancing from the previous block's run.        *)
RECURSIVE ReadWalkContinued(_, _, _, _)
ReadWalkContinued(m, bl, r, size) ==
  IF Unmapped(bl[r.p]) THEN Thrown("PageFault")
  ELSE LET chunk == [i \in 1 .. r.n |-> IF Sparse(bl[r.p]) THEN 0 ELSE m[r.bp + i - 1]]
       IN  IF size = r.n THEN Done(chunk)
           ELSE LET t == ReadWalkContinued(m, bl, [NextRun(bl, r.p, size - r.n) EXCEPT !.bp = r.bp + r.n],
                                           size - r.n)
                IN  IF t.out = "ok" THEN Done(chunk \o t.val) ELSE t

RECURSIVE ReadWalk(_, _, _, _)
ReadWalk(m, bl, r, size) ==
  IF Unmapped(bl[r.p]) THEN Thrown("PageFault")
  ELSE LET chunk == [i \in 1 .. r.n |-> IF Sparse(bl[r.p]) THEN 0 ELSE m[r.bp + i - 1]]
       IN  IF size = r.n THEN Done(chunk)
           ELSE LET t == ReadWalk(m, bl, NextRun(bl, r.p, size - r.n), size - r.n)
                IN  IF t.out = "ok" THEN Done(chunk \o t.val) ELSE t

ReadRange(m, bl, v, size) == ReadWalk(m, bl, StartRun(bl, v, size), size)

-----------------------------------------------------------------------------
(* Write: src is the source buffer; a run that faults leaves the runs      *)
(* before it written.                                                      *)

Store(m, at, bytes) ==
  [a \in DOMAIN m |-> IF a \in at .. at + Len(bytes) - 1 THEN bytes[a - at + 1] ELSE m[a]]

(* Mutant: the source pointer is not advanced past a run.                  *)
RECURSIVE WriteWalkSameSource(_, _, _, _, _)
WriteWalkSameSource(m, bl, r, size, src) ==
  IF Unmapped(bl[r.p]) THEN [mem |-> m, out |-> "PageFault"]
  ELSE LET m1 == IF Sparse(bl[r.p]) THEN m ELSE Store(m, r.bp, SubSeq(src, 1, r.n))
       IN  IF size = r.n THEN [mem |-> m1, out |-> "ok"]
           ELSE WriteWalkSameSource(m1, bl, NextRun(bl, r.p, size - r.n), size - r.n, src)

RECURSIVE WriteWalk(_, _, _, _, _)
WriteWalk(m, bl, r, size, src) ==
  IF Unmapped(bl[r.p]) THEN [mem |-> m, out |-> "PageFault"]
  ELSE LET m1 == IF Sparse(bl[r.p]) THEN m ELSE Store(m, r.bp, SubSeq(src, 1, r.n))
       IN  IF size = r.n THEN [mem |-> m1, out |-> "ok"]
           ELSE WriteWalk(m1, bl, NextRun(bl, r.p, size - r.n), size - r.n,
                          SubSeq(src, r.n + 1, Len(src)))

WriteRange(m, bl, v, size, src) == WriteWalk(m, bl, StartRun(bl, v, size), size, src)

-----------------------------------------------------------------------------
(* Copy: two cursors, each with its predecessor, blockPhys and remaining   *)
(* size in its block.  memcpy of overlapping host ranges is undefined; the *)
(* build copies either way, which `forward` chooses.                       *)

RECURSIVE CopyBytes(_, _, _, _)
CopyBytes(m, dst, src, offs) ==
  IF offs = << >> THEN m
  ELSE CopyBytes([m EXCEPT ![dst + Head(offs)] = m[src + Head(offs)]], dst, src, Tail(offs))

MemCopy(m, dst, src, n, forward) ==
  CopyBytes(m, dst, src, IF forward THEN [i \in 1 .. n |-> i - 1] ELSE [i \in 1 .. n |-> n - i])

\* After a run of n bytes: a cursor whose block is used up moves to the
\* next block (predecessor = successor++, blockPhys, blockRemainingSize).
Advanced(bl, c, n, rest) ==
  IF c.rem - n = 0
  THEN [p |-> c.p + 1, bp |-> bl[c.p + 1].phys,
        rem |-> SuccVirt(bl, c.p + 2, bl[c.p + 1].virt + rest) - bl[c.p + 1].virt]
  ELSE [p |-> c.p, bp |-> c.bp + n, rem |-> c.rem - n]

(* Mutant: the sparse test looks at the destination block.               *)
RECURSIVE CopyWalkDstSparse(_, _, _, _, _, _, _)
CopyWalkDstSparse(m, bl, s, d, n, size, forward) ==
  IF Unmapped(bl[s.p]) \/ Unmapped(bl[d.p]) THEN [mem |-> m, out |-> "PageFault"]
  ELSE LET m1 == IF Sparse(bl[d.p]) THEN Store(m, d.bp, [i \in 1 .. n |-> 0])
                 ELSE MemCopy(m, d.bp, s.bp, n, forward)
           rest == size - n
       IN  IF rest = 0 THEN [mem |-> m1, out |-> "ok"]
           ELSE LET s1 == Advanced(bl, s, n, rest)
                    d1 == Advanced(bl, d, n, rest)
                IN  CopyWalkDstSparse(m1, bl, s1, d1, Min({s1.rem, d1.rem, rest}), rest, forward)

RECURSIVE CopyWalk(_, _, _, _, _, _, _)
CopyWalk(m, bl, s, d, n, size, forward) ==
  IF Unmapped(bl[s.p]) \/ Unmapped(bl[d.p]) THEN [mem |-> m, out |-> "PageFault"]
  ELSE LET m1 == IF Sparse(bl[s.p]) THEN Store(m, d.bp, [i \in 1 .. n |-> 0])
                 ELSE MemCopy(m, d.bp, s.bp, n, forward)
           rest == size - n
       IN  IF rest = 0 THEN [mem |-> m1, out |-> "ok"]
           ELSE LET s1 == Advanced(bl, s, n, rest)
                    d1 == Advanced(bl, d, n, rest)
                IN  CopyWalk(m1, bl, s1, d1, Min({s1.rem, d1.rem, rest}), rest, forward)

CopyRange(m, bl, dst, src, size, forward) ==
  LET cursor(v) == LET r == StartRun(bl, v, size)
                   IN  [p |-> r.p, bp |-> r.bp, rem |-> SuccVirt(bl, r.p + 1, v + size) - v]
      s == cursor(src)
      d == cursor(dst)
  IN  CopyWalk(m, bl, s, d, Min({s.rem, d.rem, size}), size, forward)
-----------------------------------------------------------------------------
(* TranslateRange: the host spans of the range, flattened to the host      *)
(* address of each byte.  Nothing checks for unmapped blocks; a sparse     *)
(* run is served from the zero page, and one longer than the zero page     *)
(* throws.  Reaching successor->virt past the vector's end is undefined;   *)
(* the walk then goes on with whatever size it read, so the outcome is     *)
(* recorded as "UB".                                                       *)

(* Mutant: sparse runs are served from their own backing.                  *)
RECURSIVE TranslateWalkNoZeroPage(_, _, _)
TranslateWalkNoZeroPage(bl, r, size) ==
  LET span == [i \in 1 .. r.n |-> r.bp + i - 1]
  IN  IF size = r.n THEN Done(span)
      ELSE IF r.p + 2 > Len(bl) THEN Thrown("UB")
      ELSE LET t == TranslateWalkNoZeroPage(bl, NextRun(bl, r.p, size - r.n), size - r.n)
           IN  IF t.out = "ok" THEN Done(span \o t.val) ELSE t

RECURSIVE TranslateWalk(_, _, _)
TranslateWalk(bl, r, size) ==
  IF Sparse(bl[r.p]) /\ r.n > SparseMapSize THEN Thrown("SparseMapSize")
  ELSE LET base == IF Sparse(bl[r.p]) THEN ZeroPage ELSE r.bp
           span == [i \in 1 .. r.n |-> base + i - 1]
       IN  IF size = r.n THEN Done(span)
           ELSE IF r.p + 2 > Len(bl) THEN Thrown("UB")
           ELSE LET t == TranslateWalk(bl, NextRun(bl, r.p, size - r.n), size - r.n)
                IN  IF t.out = "ok" THEN Done(span \o t.val) ELSE t

TranslateRange(bl, v, size) ==
  IF UpperBound(bl, v) > Len(bl) THEN Thrown("UB")
  ELSE TranslateWalk(bl, StartRun(bl, v, size), size)

-----------------------------------------------------------------------------
(* Calls                                                                   *)

\* A call's range [r[1], r[1] + r[2]) inside the address space.
AccessRanges == {r \in (0 .. VaLimit - 1) \X (1 .. MaxAccess) : r[1] + r[2] <= VaLimit}

NoCall == [op |-> "none", at |-> 0, from |-> 0, size |-> 0, src |-> << >>, out |-> "ok", val |-> << >>]

MMInit ==
  /\ Init
  /\ memory = [a \in HostAddrs |-> 0]
  /\ result = NoCall

MMRead(v, size) ==
  /\ fault = "none"
  /\ LET r == ReadRange(memory, blocks, v, size)
     IN  result' = [NoCall EXCEPT !.op = "Read", !.at = v, !.size = size, !.out = r.out, !.val = r.val]
  /\ UNCHANGED <<blocks, fault, memory>>

MMWrite(v, size, src) ==
  /\ fault = "none"
  /\ LET w == WriteRange(memory, blocks, v, size, src)
     IN  /\ memory' = w.mem
         /\ result' = [NoCall EXCEPT !.op = "Write", !.at = v, !.size = size, !.src = src, !.out = w.out]
  /\ UNCHANGED <<blocks, fault>>

MMCopy(dst, src, size) ==
  /\ fault = "none"
  /\ \E forward \in BOOLEAN :
       LET c == CopyRange(memory, blocks, dst, src, size, forward)
       IN  /\ memory' = c.mem
           /\ result' = [NoCall EXCEPT !.op = "Copy", !.at = dst, !.from = src, !.size = size, !.out = c.out]
  /\ UNCHANGED <<blocks, fault>>

MMTranslate(v, size) ==
  /\ fault = "none"
  /\ LET t == TranslateRange(blocks, v, size)
     IN  result' = [NoCall EXCEPT !.op = "Translate", !.at = v, !.size = size, !.out = t.out, !.val = t.val]
  /\ UNCHANGED <<blocks, fault, memory>>

\* Map and Unmap take blockMutex exclusively and leave the bytes alone.
MMMap(virt, phys, size, extra) == Map(virt, phys, size, extra) /\ result' = NoCall /\ UNCHANGED memory
MMUnmap(virt, size) == Unmap(virt, size) /\ result' = NoCall /\ UNCHANGED memory

AccessNext ==
  \E r \in AccessRanges :
     \/ MMRead(r[1], r[2])
     \/ \E src \in [1 .. r[2] -> Data] : MMWrite(r[1], r[2], src)
     \/ \E from \in 0 .. VaLimit - r[2] : MMCopy(r[1], from, r[2])
     \/ MMTranslate(r[1], r[2])

MMNext ==
  \/ \E r \in Ranges, phys \in PhysValues, extra \in ExtraValues : MMMap(r[1], phys, r[2], extra)
  \/ \E r \in Ranges : MMUnmap(r[1], r[2])
  \/ AccessNext

MMSpec == MMInit /\ [][MMNext]_mmVars

-----------------------------------------------------------------------------
(* Properties                                                              *)

\* What the guest sees at address a through the map view V: the byte behind
\* its backing, 0 in a sparse mapping, or nothing when it is unmapped.
Content(V, m, a) ==
  IF V[a].phys = UnmappedPa THEN "unmapped"
  ELSE IF V[a].extra = SparseExtra THEN 0 ELSE m[V[a].phys]

CallRange(c) == c.at .. c.at + c.size - 1
Unbacked(V, rng) == \E a \in rng : V[a].phys = UnmappedPa

(* Read walks the blocks of its range run by run; what it returns is, byte *)
(* by byte, what the map gives each address, and it throws PageFault       *)
(* exactly when some address of the range is unmapped.                     *)
ReadReturnsContent ==
  [][result'.op = "Read" =>
       LET V == View(blocks)
       IN  IF Unbacked(V, CallRange(result'))
           THEN result'.out = "PageFault"
           ELSE /\ result'.out = "ok"
                /\ result'.val = [i \in 1 .. result'.size |-> Content(V, memory, result'.at + i - 1)]
    ]_mmVars

(* A Write that completes leaves every address with the byte last written *)
(* to its backing, through any address of the range: the source byte for *)
(* the address itself, or for another one backed by the same host byte,   *)
(* and leaves everything else as it was; sparse ranges stay zero.         *)
WriteStoresData ==
  [][result'.op = "Write" /\ result'.out = "ok" =>
       LET V == View(blocks)
           written == {i \in 1 .. result'.size : V[result'.at + i - 1].extra # SparseExtra}
       IN  \A a \in 0 .. VaLimit - 1 :
             LET hits == {i \in written : V[result'.at + i - 1].phys = V[a].phys}
             IN  Content(V, memory', a) =
                   IF V[a].phys # UnmappedPa /\ V[a].extra # SparseExtra /\ hits # {}
                   THEN result'.src[Max(hits)]
                   ELSE Content(V, memory, a)
    ]_mmVars

(* A Copy between two ranges that share no host byte gives each           *)
(* non-sparse destination address the guest's view of the matching source *)
(* address before the call, and throws PageFault exactly when either range *)
(* has an unmapped address.                                                *)
HostBytes(V, rng) == {V[a].phys : a \in rng}
CopyMovesContent ==
  [][result'.op = "Copy" =>
       LET V == View(blocks)
           dst == CallRange(result')
           src == result'.from .. result'.from + result'.size - 1
       IN  IF Unbacked(V, dst) \/ Unbacked(V, src)
           THEN result'.out = "PageFault"
           ELSE /\ result'.out = "ok"
                /\ HostBytes(V, dst) \cap HostBytes(V, src) = {}
                   /\ Cardinality(HostBytes(V, dst)) = result'.size
                   => \A i \in 0 .. result'.size - 1 :
                        V[result'.at + i].extra # SparseExtra =>
                          Content(V, memory', result'.at + i) = Content(V, memory, result'.from + i)
    ]_mmVars

(* TranslateRange of a range with every address mapped returns, byte by    *)
(* byte, the host address the map gives it, the zero page for sparse       *)
(* mappings.                                                               *)
TranslateMatchesView ==
  [][result'.op = "Translate" =>
       LET V == View(blocks)
       IN  ~Unbacked(V, CallRange(result')) =>
             /\ result'.out = "ok"
             /\ \A i \in 1 .. result'.size :
                  IF V[result'.at + i - 1].extra = SparseExtra THEN result'.val[i] >= ZeroPage
                  ELSE result'.val[i] = V[result'.at + i - 1].phys
    ]_mmVars

(* spec.md, Translating Memory Accessor: an access to an unbacked block is *)
(* reported as PageFault, by TranslateRange as by the other accessors.     *)
TranslateFaultsOnUnmapped ==
  [][result'.op = "Translate" =>
       (Unbacked(View(blocks), CallRange(result')) <=> result'.out = "PageFault")]_mmVars
===============================================================================
