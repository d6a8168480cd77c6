-------------------------- MODULE MemoryManagerChunks --------------------------
(***************************************************************************)
(* The MemoryManager's chunk list (kernel/memory.cpp): a vector of         *)
(* ChunkDescriptors sorted by pointer, laid out by InitializeVmm and       *)
(* updated by InsertChunk, which trims or erases the chunks the new one    *)
(* overlaps, splits a chunk that contains it, and merges it into a         *)
(* compatible neighbour.  InsertChunk holds the unique lock for its whole  *)
(* body, so each call is one step.  Pointers are offsets in the guest      *)
(* address space (addressSpace.data() is 0 for 39-bit spaces).            *)
(***************************************************************************)
EXTENDS Integers, Sequences, SequencesExt

CONSTANTS
  AsSize, BaseStart, BaseEnd,
  States, Perms, Attrs,
  Reserved, Unmapped, NoPerm, NoAttr,
  MaxChunks  \* model bound: no insert once the vector holds this many chunks

ASSUME 0 < BaseStart /\ BaseStart < BaseEnd /\ BaseEnd < AsSize

VARIABLES
  chunks,  \* the chunks vector
  fault    \* "none", or the exception or undefined behaviour a call ran into

vars == <<chunks, fault>>

Chunk(p, n, s, perm, at) == [ptr |-> p, size |-> n, state |-> s, permission |-> perm, attributes |-> at]
End(k) == k.ptr + k.size

\* Mutant of IsCompatible: permissions are not compared.
IsCompatibleIgnoringPerm(c, k) == c.state = k.state /\ c.attributes = k.attributes

\* ChunkDescriptor::IsCompatible: same permission, state and attributes.
IsCompatible(c, k) ==
  c.permission = k.permission /\ c.state = k.state /\ c.attributes = k.attributes

Erase(s, from, to) == SubSeq(s, 1, from - 1) \o SubSeq(s, to, Len(s))
InsertSeqAt(s, i, t) == SubSeq(s, 1, i - 1) \o t \o SubSeq(s, i, Len(s))

\* upper_bound(chunks, ptr) by pointer: the first chunk starting after ptr.
UpperBound(cs, ptr) ==
  LET i == SelectInSeq(cs, LAMBDA k : ptr < k.ptr)
  IN  IF i = 0 THEN Len(cs) + 1 ELSE i

\* upper_bound(from, end, e) by chunk end: the first chunk from index from
\* on that ends after e.
EndUpperBound(cs, from, e) ==
  LET I == {j \in from .. Len(cs) : e < End(cs[j])}
  IN  IF I = {} THEN Len(cs) + 1 ELSE Min(I)

\* Mutants of TrimUpper: the new size subtracted the wrong way round, and
\* the chunk moved up but keeping its size.
TrimUpperReversed(cs, u, e) ==
  IF u <= Len(cs) /\ cs[u].ptr < e
    THEN [cs EXCEPT ![u].ptr = e, ![u].size = e - End(cs[u])]
    ELSE cs

TrimUpperKeepSize(cs, u, e) ==
  IF u <= Len(cs) /\ cs[u].ptr < e THEN [cs EXCEPT ![u].ptr = e] ELSE cs

\* After the erase: the first chunk left at u, if the new chunk [.., e)
\* overlaps it, starts at e and keeps its end.
TrimUpper(cs, u, e) ==
  IF u <= Len(cs) /\ cs[u].ptr < e
    THEN [cs EXCEPT ![u].ptr = e, ![u].size = End(cs[u]) - e]
    ELSE cs

Ok(cs) == [chunks |-> cs, fault |-> "none"]
Fail(cs, why) == [chunks |-> cs, fault |-> why]

\* The new chunk lies strictly inside chunks[l] and starts where it starts:
\* lower shrinks to size 0 and is either absorbed by a compatible chunk
\* before it or overwritten by the new chunk; the extension follows.
SplitAtStart(cs, l, u, c, ext) ==
  IF l = 1 THEN Fail(cs, "UB")
  ELSE IF IsCompatible(c, cs[l - 1]) /\ End(cs[l - 1]) >= c.ptr
    THEN Ok(InsertAt(Erase([cs EXCEPT ![l - 1].size = End(c) - cs[l - 1].ptr], l, l + 1),
                     l, ext))
    ELSE Ok(InsertAt([cs EXCEPT ![l] = c], u, ext))

InsertChunk(cs0, c) ==
  LET u == UpperBound(cs0, c.ptr)
      cs1 == Erase(cs0, u, EndUpperBound(cs0, u, End(c)))
      cs == TrimUpper(cs1, u, End(c))
      l == u - 1
      lower == cs[l]
      ext == [lower EXCEPT !.ptr = End(c), !.size = End(lower) - End(c)]
      trimmed == IF End(lower) > c.ptr THEN [cs EXCEPT ![l].size = c.ptr - lower.ptr] ELSE cs
  IN  CASE u = 1 -> Fail(cs0, "OutsideAddressSpace")
        [] lower.ptr = c.ptr /\ lower.size = c.size ->
             Ok([cs EXCEPT ![l].state = c.state, ![l].permission = c.permission,
                           ![l].attributes = c.attributes])
        [] End(lower) > End(c) /\ c.ptr # lower.ptr ->
             Ok(InsertSeqAt([cs EXCEPT ![l].size = c.ptr - lower.ptr], u, <<c, ext>>))
        [] End(lower) > End(c) -> SplitAtStart(cs, l, u, c, ext)
        [] IsCompatible(c, lower) /\ End(lower) >= c.ptr ->
             Ok([cs EXCEPT ![l].size = End(c) - lower.ptr])
        [] u <= Len(trimmed) /\ IsCompatible(c, trimmed[u]) /\ End(c) >= trimmed[u].ptr ->
             Ok([trimmed EXCEPT ![u].ptr = c.ptr, ![u].size = c.size + trimmed[u].size])
        [] OTHER -> Ok(InsertAt(trimmed, u, c))

-----------------------------------------------------------------------------

\* InitializeVmm's chunk list: reserved, the carveout unmapped, reserved.
Init ==
  /\ chunks = << Chunk(0, BaseStart, Reserved, NoPerm, NoAttr),
                 Chunk(BaseStart, BaseEnd - BaseStart, Unmapped, NoPerm, NoAttr),
                 Chunk(BaseEnd, AsSize - BaseEnd, Reserved, NoPerm, NoAttr) >>
  /\ fault = "none"

Insert(ptr, size, s, perm, at) ==
  LET r == InsertChunk(chunks, Chunk(ptr, size, s, perm, at))
  IN  /\ fault = "none"
      /\ Len(chunks) < MaxChunks
      /\ chunks' = r.chunks
      /\ fault' = r.fault

ChunkRanges == {r \in (BaseStart .. BaseEnd - 1) \X (1 .. BaseEnd - BaseStart) : r[1] + r[2] <= BaseEnd}

Next ==
  \E r \in ChunkRanges, s \in States, perm \in Perms, at \in Attrs :
     Insert(r[1], r[2], s, perm, at)

Spec == Init /\ [][Next]_vars

-----------------------------------------------------------------------------
(* Properties                                                              *)

TypeOK ==
  /\ chunks \in Seq([ptr : 0 .. AsSize, size : 0 .. AsSize,
                     state : States \cup {Reserved, Unmapped},
                     permission : Perms \cup {NoPerm}, attributes : Attrs \cup {NoAttr}])
  /\ fault \in {"none", "UB", "OutsideAddressSpace"}

\* The chunks tile the address space: the first starts at 0, each ends where
\* the next starts and the last ends at the end of the space.
Tiled ==
  /\ Len(chunks) >= 1
  /\ chunks[1].ptr = 0
  /\ End(chunks[Len(chunks)]) = AsSize
  /\ \A i \in 1 .. Len(chunks) - 1 : End(chunks[i]) = chunks[i + 1].ptr

\* No chunk is empty: an empty chunk describes no memory but still counts
\* towards GetSystemResourceUsage and is what upper_bound may land after.
NoEmptyChunk == \A i \in 1 .. Len(chunks) : chunks[i].size > 0

\* Adjacent compatible chunks are merged on insert (spec.md 3): no two
\* neighbouring chunks have the same state, permission and attributes.
Coalesced ==
  \A i \in 1 .. Len(chunks) - 1 : ~IsCompatible(chunks[i], chunks[i + 1])

\* prev(upper_bound(chunks, a)) as Get(ptr) computes it: the last chunk
\* starting at or before a (0 when there is none).
RECURSIVE ChunkBefore(_, _, _)
ChunkBefore(cs, a, i) ==
  IF i = 0 \/ cs[i].ptr <= a THEN i ELSE ChunkBefore(cs, a, i - 1)

\* Get(a)'s view of address a: that chunk's descriptor if it covers a.
DescAt(cs, a) ==
  LET i == ChunkBefore(cs, a, Len(cs))
  IN  IF i # 0 /\ a < End(cs[i])
        THEN [state |-> cs[i].state, permission |-> cs[i].permission,
              attributes |-> cs[i].attributes]
        ELSE [state |-> "none", permission |-> NoPerm, attributes |-> NoAttr]

Abstract == INSTANCE AbstractMemoryState WITH mstate <- [a \in 0 .. AsSize - 1 |-> DescAt(chunks, a)]

\* Every InsertChunk gives exactly the addresses of the chunk's range the
\* chunk's state, permission and attributes, as Get(ptr) reports them.
Refinement == Abstract!Spec
===============================================================================
