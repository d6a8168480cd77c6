-------------------------- MODULE AbstractMemoryState --------------------------
(***************************************************************************)
(* What the MemoryManager's chunk bookkeeping promises (spec.md 3, 4.4):   *)
(* every guest address has one state, permission and attribute set, and   *)
(* inserting a chunk gives exactly the addresses of its range the chunk's *)
(* state, permission and attributes.                                       *)
(***************************************************************************)
EXTENDS Integers

CONSTANTS
  AsSize,      \* addressSpace.size()
  BaseStart,   \* base.data(): start of the host carveout
  BaseEnd,     \* base.end()
  States,      \* memory states a caller inserts
  Perms,       \* permissions a caller inserts
  Attrs,       \* attribute sets a caller inserts
  Reserved,    \* memory::states::Reserved
  Unmapped,    \* memory::states::Unmapped
  NoPerm,      \* the default permission of a ChunkDescriptor
  NoAttr       \* the default attributes of a ChunkDescriptor

VARIABLE mstate

Addr == 0 .. AsSize - 1

Desc(s, p, a) == [state |-> s, permission |-> p, attributes |-> a]

\* InitializeVmm: reserved below and above the carveout, unmapped inside it.
Init ==
  mstate = [a \in Addr |-> IF BaseStart <= a /\ a < BaseEnd
                              THEN Desc(Unmapped, NoPerm, NoAttr)
                              ELSE Desc(Reserved, NoPerm, NoAttr)]

\* State m after inserting a chunk of descriptor d over [ptr, ptr + size).
Inserted(m, ptr, size, d) == [a \in Addr |-> IF ptr <= a /\ a < ptr + size THEN d ELSE m[a]]

\* Chunk ranges callers insert: inside the carveout.
ChunkRanges == {r \in (BaseStart .. BaseEnd - 1) \X (1 .. BaseEnd - BaseStart) : r[1] + r[2] <= BaseEnd}

\* One insert; both states are bound once so that a refined spec's mapped
\* state is computed once per step.
Next ==
  LET before == mstate
      after == mstate'
  IN  \E r \in ChunkRanges, s \in States, p \in Perms, at \in Attrs :
         after = Inserted(before, r[1], r[2], Desc(s, p, at))

Spec == Init /\ [][Next]_mstate
===============================================================================
