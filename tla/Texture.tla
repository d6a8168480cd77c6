------------------------------ MODULE Texture ------------------------------
(***************************************************************************)
(* CPU/GPU synchronisation of one guest texture (gpu/texture/texture.cpp). *)
(*                                                                         *)
(* The texture keeps a host image (hostData) and the guest memory behind   *)
(* its mirror (guestData).  dirtyState says which side is newer, and the   *)
(* NCE trap on the guest pages (protection) makes the guest fault into the *)
(* texture's read and write callbacks when it touches stale or            *)
(* untracked data.  Host -> guest copies are staged: CopyIntoStagingBuffer *)
(* is recorded in a fence cycle, and CopyToGuest runs only when that       *)
(* cycle's dependencies are destroyed (TextureBufferCopy's destructor),    *)
(* which happens when somebody waits on the cycle or when the command      *)
(* scheduler polls its slot to reuse it.                                   *)
(*                                                                         *)
(* Data is abstracted to version numbers: every write, by the guest or by  *)
(* the GPU, produces version latest + 1.  Every texture method is a pure   *)
(* operator from one texture record to the next; the actions say which     *)
(* thread calls it, under which lock, and what it blocks on.               *)
(***************************************************************************)
EXTENDS Integers, Sequences, FiniteSets

CONSTANTS
    Slots,          \* command buffer slots of the CommandScheduler pool
    MaxVersion,     \* bound on the number of writes (guest or GPU)
    FormatMatches,  \* whether host format = guest format (TRUE, FALSE or both)
    TileModes       \* guest tile modes a texture may have

ASSUME Slots \subseteq Nat \ {0} /\ MaxVersion \in Nat

NoSlot == 0
NoCopy == -1
Versions == 0..MaxVersion      \* 0 is the undefined content of a new host image
SlotStates == {"None", "Active", "Submitted", "Signalled"}
DirtyStates == {"Clean", "CpuDirty", "GpuDirty"}
Protections == {"None", "WriteOnly", "ReadWrite"}
ImageLayouts == {"Undefined", "General", "ColorAttachment", "TransferDst"}
SlotRec == [state : SlotStates, copy : Versions \cup {NoCopy}, holdsTex : BOOLEAN]

VARIABLES
    dirtyState, protection, layout, hostData, guestData,  \* the Texture
    slot, queue, cycle,       \* scheduler slots, GPU queue, Texture::cycle
    formatMatch, guestTileMode,
    latest, guestSeen, gpuSeen,   \* last write; what was read since it
    mutex, owner,             \* Texture::mutex; which side the guest gave it to
    guestPc, access, gpuPc, pCycle,
    destroyed, fault

texVars == <<dirtyState, protection, layout, hostData, guestData, slot, queue, cycle>>
vars == <<texVars, formatMatch, guestTileMode, latest, guestSeen, gpuSeen,
          mutex, owner, guestPc, access, gpuPc, pCycle, destroyed, fault>>

Tex == [dirty |-> dirtyState, prot |-> protection, layout |-> layout,
        host |-> hostData, guest |-> guestData,
        slot |-> slot, queue |-> queue, cycle |-> cycle]

Set(t) == /\ dirtyState' = t.dirty /\ protection' = t.prot /\ layout' = t.layout
          /\ hostData' = t.host /\ guestData' = t.guest
          /\ slot' = t.slot /\ queue' = t.queue /\ cycle' = t.cycle

SlotMin(S) == CHOOSE s \in S : \A r \in S : s <= r

(* NCE (nce.h): which accesses a protection lets through, and the level   *)
(* RetrapRegions(handle, writeOnly) applies.                              *)
Permits(p, a) == IF a = "Read" THEN p # "ReadWrite" ELSE p = "None"
Retrap(writeOnly) == IF writeOnly THEN "WriteOnly" ELSE "ReadWrite"

(* CopyToGuest(hostBuffer): the Block and Pitch arms swizzle the staged    *)
(* data into the guest mirror; the Linear arm is memcpy(hostBuffer,        *)
(* guestOutput, layerStride), which copies the other way and leaves the   *)
(* guest memory as it was.                                                *)
CopyToGuest(t, data) ==
    IF guestTileMode = "Linear" THEN t ELSE [t EXCEPT !.guest = data]

(* A fence cycle's dependencies are destroyed: the TextureBufferCopy it    *)
(* holds runs CopyToGuest, and its reference to the texture is dropped.   *)
LandCopy(t, s) ==
    LET c == IF t.slot[s].copy = NoCopy THEN t ELSE CopyToGuest(t, t.slot[s].copy)
    IN [c EXCEPT !.slot[s] = [@ EXCEPT !.copy = NoCopy, !.holdsTex = FALSE]]

(* Texture::WaitOnFence: wait on the cycle if it is still alive, which     *)
(* destroys its dependencies, then reset it.                              *)
FenceReady(t) == IF t.cycle = NoSlot THEN TRUE ELSE t.slot[t.cycle].state = "Signalled"
WaitOnFence(t) ==
    IF t.cycle = NoSlot THEN t ELSE [LandCopy(t, t.cycle) EXCEPT !.cycle = NoSlot]

(* CommandScheduler::AllocateCommandBuffer: the first slot whose cycle     *)
(* polls signalled is reset with a fresh cycle (the old cycle and its      *)
(* dependencies die, so a weak Texture::cycle on it expires); if there is  *)
(* none a new slot is appended.                                           *)
NextSlot(sl) ==
    LET signalled == {s \in Slots : sl[s].state = "Signalled"}
        unused == {s \in Slots : sl[s].state = "None"}
    IN IF signalled # {} THEN SlotMin(signalled) ELSE SlotMin(unused)
CanAllocate(sl) == \E s \in Slots : sl[s].state \in {"Signalled", "None"}
Allocate(t) ==
    LET s == NextSlot(t.slot)
        c == LandCopy(t, s)
    IN [c EXCEPT !.slot[s].state = "Active",
                 !.cycle = IF t.cycle = s THEN NoSlot ELSE t.cycle]

(* Mutant: the command buffer is never handed to the queue.              *)
SubmitNotQueued(t, copy) ==
    LET s == NextSlot(t.slot)
        a == Allocate(t)
    IN [a EXCEPT !.slot[s] = [state |-> "Submitted", copy |-> copy, holdsTex |-> TRUE],
                 !.cycle = s]

(* gpu.scheduler.Submit(...) followed by AttachObject(shared_from_this())  *)
(* and cycle = lCycle: record into a fresh slot, submit it, and make it    *)
(* the texture's cycle.  copy is the staged host data a TextureBufferCopy *)
(* will write to the guest, or NoCopy.                                    *)
Submit(t, copy) ==
    LET s == NextSlot(t.slot)
        a == Allocate(t)
    IN [a EXCEPT !.slot[s] = [state |-> "Submitted", copy |-> copy, holdsTex |-> TRUE],
                 !.queue = Append(@, s),
                 !.cycle = s]

(* Mutant: GPU dirty without retrapping the guest mirror.                 *)
MarkGpuDirtyNoTrap(t) ==
    IF t.dirty = "GpuDirty" \/ ~formatMatch THEN t ELSE [t EXCEPT !.dirty = "GpuDirty"]

(* Texture::MarkGpuDirty                                                   *)
MarkGpuDirty(t) ==
    IF t.dirty = "GpuDirty" \/ ~formatMatch THEN t
    ELSE [t EXCEPT !.prot = Retrap(FALSE), !.dirty = "GpuDirty"]

(* Texture::SynchronizeHostImpl(pCycle): the guest mirror is deswizzled   *)
(* into the staging buffer first, and only then does it wait on the live  *)
(* cycle, unless that cycle is pCycle (nullptr, NoSlot, for the direct    *)
(* call).                                                                 *)
SynchronizeHostImpl(t, p) ==
    [tex |-> IF t.cycle # p THEN WaitOnFence(t) ELSE t, staging |-> t.guest]

(* Mutant: an undefined image goes to the transfer source layout.         *)
CopyFromStagingBufferSrc(t, data) ==
    [t EXCEPT !.host = data, !.layout = IF @ = "Undefined" THEN "TransferSrc" ELSE @]

(* Texture::CopyFromStagingBuffer: an undefined image moves to General,   *)
(* then the staged data is copied into it.                                *)
CopyFromStagingBuffer(t, data) ==
    [t EXCEPT !.host = data, !.layout = IF @ = "Undefined" THEN "General" ELSE @]

(* The tail of both SynchronizeHost variants: with rwTrap the guest pages *)
(* are trapped for reads too and the texture is GPU dirty, otherwise      *)
(* only writes are trapped and it is clean.                               *)
RetrapAfterSync(t, rwTrap) ==
    [t EXCEPT !.prot = Retrap(~rwTrap), !.dirty = IF rwTrap THEN "GpuDirty" ELSE "Clean"]

(* Texture::SynchronizeHost(rwTrap): the copy goes into a new cycle.      *)
SynchronizeHost(t, rwTrap) ==
    IF t.dirty # "CpuDirty" THEN t
    ELSE LET i == SynchronizeHostImpl(t, NoSlot)
         IN RetrapAfterSync(Submit(CopyFromStagingBuffer(i.tex, i.staging), NoCopy), rwTrap)
SyncHostReady(t) ==
    t.dirty # "CpuDirty" \/ (FenceReady(t) /\ CanAllocate(t.slot))

(* Texture::SynchronizeHostWithBuffer(commandBuffer, pCycle, rwTrap): the  *)
(* copy is recorded into the caller's cycle p.                            *)
SynchronizeHostWithBuffer(t, p, rwTrap) ==
    IF t.dirty # "CpuDirty" THEN t
    ELSE LET i == SynchronizeHostImpl(t, p)
             c == CopyFromStagingBuffer(i.tex, i.staging)
         IN RetrapAfterSync([c EXCEPT !.slot[p].holdsTex = TRUE, !.cycle = p], rwTrap)
SyncHostWithBufferReady(t, p) ==
    t.dirty # "CpuDirty" \/ t.cycle = p \/ FenceReady(t)

(* Texture::SynchronizeGuest(skipTrap).  The first test returns on an      *)
(* undefined layout, so the second test's layout clause is dead; a format  *)
(* mismatch only marks the texture clean.  Otherwise wait on the live      *)
(* cycle, submit CopyIntoStagingBuffer with a TextureBufferCopy of the     *)
(* current host data attached, and retrap write-only unless skipTrap.      *)
GuestCopyNeeded(t) == t.dirty = "GpuDirty" /\ t.layout # "Undefined" /\ formatMatch
SynchronizeGuest(t, skipTrap) ==
    IF t.dirty # "GpuDirty" \/ t.layout = "Undefined" THEN t
    ELSE LET c == IF ~formatMatch THEN t ELSE Submit(WaitOnFence(t), t.host)
         IN [c EXCEPT !.prot = IF skipTrap THEN @ ELSE Retrap(TRUE),
                      !.dirty = "Clean"]
SyncGuestReady(t) ==
    ~GuestCopyNeeded(t) \/ (FenceReady(t) /\ CanAllocate(t.slot))

(* Mutant: the copy is recorded without waiting on another live cycle.    *)
SyncGuestWithBufferNoWait(t, p) ==
    IF t.dirty # "GpuDirty" THEN t
    ELSE IF t.layout = "Undefined" \/ ~formatMatch THEN [t EXCEPT !.dirty = "Clean"]
    ELSE [t EXCEPT !.slot[p].copy = t.host, !.slot[p].holdsTex = TRUE,
                   !.cycle = p, !.dirty = "Clean"]

(* Texture::SynchronizeGuestWithBuffer(commandBuffer, pCycle): the copy is *)
(* recorded into p; the trap is left as it is.                            *)
SynchronizeGuestWithBuffer(t, p) ==
    IF t.dirty # "GpuDirty" THEN t
    ELSE IF t.layout = "Undefined" \/ ~formatMatch THEN [t EXCEPT !.dirty = "Clean"]
    ELSE LET w == IF t.cycle # p THEN WaitOnFence(t) ELSE t
         IN [w EXCEPT !.slot[p].copy = t.host, !.slot[p].holdsTex = TRUE,
                      !.cycle = p, !.dirty = "Clean"]
SyncGuestWithBufferReady(t, p) ==
    ~GuestCopyNeeded(t) \/ t.cycle = p \/ FenceReady(t)

(* Texture::TransitionLayout(pLayout): wait, then submit a barrier if the  *)
(* layout differs.                                                        *)
TransitionLayout(t, l) ==
    LET w == WaitOnFence(t)
    IN IF w.layout = l THEN w ELSE [Submit(w, NoCopy) EXCEPT !.layout = l]
TransitionReady(t, l) == FenceReady(t) /\ (t.layout = l \/ CanAllocate(t.slot))

(* Texture::CopyFrom(source, subresource) with a source whose layout,      *)
(* dimensions and format pass the checks: wait, submit the copy, and an    *)
(* undefined destination layout becomes TransferDstOptimal.               *)
CopyFrom(t, data) ==
    LET s == Submit(WaitOnFence(t), NoCopy)
    IN [s EXCEPT !.host = data, !.layout = IF @ = "Undefined" THEN "TransferDst" ELSE @]
CopyFromReady(t) == FenceReady(t) /\ CanAllocate(t.slot)

-----------------------------------------------------------------------------
Init ==
    /\ formatMatch \in FormatMatches
    /\ guestTileMode \in TileModes
    /\ dirtyState = "CpuDirty"          \* the guest memory is authoritative
    /\ protection = Retrap(TRUE)        \* SetupGuestMappings: TrapRegions(mappings, true, ...)
    /\ layout = "Undefined"
    /\ hostData = 0 /\ guestData = 1 /\ latest = 1
    /\ guestSeen = {} /\ gpuSeen = {}
    /\ slot = [s \in Slots |-> [state |-> "None", copy |-> NoCopy, holdsTex |-> FALSE]]
    /\ queue = << >> /\ cycle = NoSlot
    /\ mutex = "None" /\ owner = "Cpu"
    /\ guestPc = "Running" /\ access = "Read"
    /\ gpuPc = "Idle" /\ pCycle = NoSlot
    /\ destroyed = FALSE /\ fault = "None"

ctlVars == <<mutex, owner, guestPc, access, gpuPc, pCycle, destroyed, fault>>

(* ---- a guest thread; it touches the texture only while it owns it ---- *)
GuestCan == fault = "None" /\ owner = "Cpu" /\ guestPc = "Running"

GuestRead ==
    /\ GuestCan /\ Permits(protection, "Read")
    /\ guestSeen' = guestSeen \cup {guestData}
    /\ UNCHANGED <<texVars, formatMatch, guestTileMode, latest, gpuSeen, ctlVars>>

GuestWrite ==
    /\ GuestCan /\ Permits(protection, "Write") /\ latest < MaxVersion
    /\ guestData' = latest + 1 /\ latest' = latest + 1
    /\ guestSeen' = {} /\ gpuSeen' = {}
    /\ UNCHANGED <<dirtyState, protection, layout, hostData, slot, queue, cycle,
                   formatMatch, guestTileMode, ctlVars>>

(* NCE::TrapHandler takes the fault and snapshots the trap's entries.     *)
GuestFault(a) ==
    /\ GuestCan /\ ~Permits(protection, a)
    /\ guestPc' = "Faulted" /\ access' = a
    /\ UNCHANGED <<texVars, formatMatch, guestTileMode, latest, guestSeen, gpuSeen,
                   mutex, owner, gpuPc, pCycle, destroyed, fault>>

(* The read or write callback of SetupGuestMappings: lock the texture,     *)
(* SynchronizeGuest(true), and for a write mark the texture CpuDirty.     *)
GuestCallback ==
    /\ fault = "None" /\ guestPc = "Faulted" /\ mutex = "None"
    /\ IF destroyed
       THEN /\ fault' = "UseAfterFree"
            /\ UNCHANGED <<texVars, mutex, guestPc>>
       ELSE LET t == SynchronizeGuest(Tex, TRUE)
            IN /\ SyncGuestReady(Tex)
               /\ Set([t EXCEPT !.dirty = IF access = "Write" THEN "CpuDirty" ELSE @])
               /\ mutex' = "Guest" /\ guestPc' = "Waiting"
               /\ UNCHANGED fault
    /\ UNCHANGED <<formatMatch, guestTileMode, latest, guestSeen, gpuSeen,
                   owner, access, gpuPc, pCycle, destroyed>>

(* The callback's WaitOnFence, then the scoped lock is released.          *)
GuestWait ==
    /\ fault = "None" /\ guestPc = "Waiting" /\ FenceReady(Tex)
    /\ Set(WaitOnFence(Tex))
    /\ mutex' = "None" /\ guestPc' = "Lifting"
    /\ UNCHANGED <<formatMatch, guestTileMode, latest, guestSeen, gpuSeen,
                   owner, access, gpuPc, pCycle, destroyed, fault>>

(* After the callbacks the handler lifts the protection just enough for   *)
(* the faulting access and the access is retried.                         *)
GuestLift ==
    /\ fault = "None" /\ guestPc = "Lifting"
    /\ protection' = IF access = "Read" THEN "WriteOnly" ELSE "None"
    /\ guestPc' = "Running"
    /\ UNCHANGED <<dirtyState, layout, hostData, guestData, slot, queue, cycle,
                   formatMatch, guestTileMode, latest, guestSeen, gpuSeen,
                   mutex, owner, access, gpuPc, pCycle, destroyed, fault>>

GuestHandOver ==
    /\ GuestCan
    /\ owner' = "Gpu"
    /\ UNCHANGED <<texVars, formatMatch, guestTileMode, latest, guestSeen, gpuSeen,
                   mutex, guestPc, access, gpuPc, pCycle, destroyed, fault>>

(* ---- the GPU thread; it works on the texture while the guest has      *)
(* handed it over.  An executor batch locks the texture, records into its  *)
(* own command buffer pCycle, and submits it when it unlocks; the other    *)
(* methods are called one at a time under the lock.                       *)
GpuCan == fault = "None" /\ owner = "Gpu" /\ gpuPc = "Idle" /\ mutex = "None" /\ ~destroyed
keepGpu == <<formatMatch, guestTileMode, latest, guestSeen, gpuSeen,
             owner, guestPc, access, destroyed, fault>>

BeginExec ==
    /\ GpuCan /\ CanAllocate(slot)
    /\ Set(Allocate(Tex))
    /\ pCycle' = NextSlot(slot) /\ gpuPc' = "Exec" /\ mutex' = "Gpu"
    /\ UNCHANGED keepGpu

ExecSyncHost(rwTrap) ==
    /\ gpuPc = "Exec" /\ SyncHostWithBufferReady(Tex, pCycle)
    /\ Set(SynchronizeHostWithBuffer(Tex, pCycle, rwTrap))
    /\ UNCHANGED <<keepGpu, mutex, gpuPc, pCycle>>

ExecSyncGuest ==
    /\ gpuPc = "Exec" /\ SyncGuestWithBufferReady(Tex, pCycle)
    /\ Set(SynchronizeGuestWithBuffer(Tex, pCycle))
    /\ UNCHANGED <<keepGpu, mutex, gpuPc, pCycle>>

(* A draw into the texture: the executor has synchronised the host copy,  *)
(* renders in ColorAttachmentOptimal, and calls MarkGpuDirty.             *)
ExecRender ==
    /\ gpuPc = "Exec" /\ dirtyState # "CpuDirty" /\ layout = "ColorAttachment"
    /\ latest < MaxVersion
    /\ Set(MarkGpuDirty([Tex EXCEPT !.host = latest + 1, !.slot[pCycle].holdsTex = TRUE]))
    /\ latest' = latest + 1 /\ guestSeen' = {} /\ gpuSeen' = {}
    /\ UNCHANGED <<formatMatch, guestTileMode, owner, guestPc, access, destroyed, fault,
                   mutex, gpuPc, pCycle>>

(* A draw that samples the texture after synchronising the host copy.     *)
ExecSample ==
    /\ gpuPc = "Exec" /\ dirtyState # "CpuDirty"
    /\ gpuSeen' = gpuSeen \cup {hostData}
    /\ slot' = [slot EXCEPT ![pCycle].holdsTex = TRUE]
    /\ UNCHANGED <<dirtyState, protection, layout, hostData, guestData, queue, cycle,
                   formatMatch, guestTileMode, latest, guestSeen,
                   owner, guestPc, access, destroyed, fault, mutex, gpuPc, pCycle>>

EndExec ==
    /\ gpuPc = "Exec"
    /\ slot' = [slot EXCEPT ![pCycle].state = "Submitted"]
    /\ queue' = Append(queue, pCycle)
    /\ mutex' = "None" /\ gpuPc' = "Idle" /\ pCycle' = NoSlot
    /\ UNCHANGED <<dirtyState, protection, layout, hostData, guestData, cycle, keepGpu>>

DirectSyncHost(rwTrap) ==
    /\ GpuCan /\ SyncHostReady(Tex)
    /\ Set(SynchronizeHost(Tex, rwTrap))
    /\ UNCHANGED <<keepGpu, mutex, gpuPc, pCycle>>

DirectTransition(l) ==
    /\ GpuCan /\ TransitionReady(Tex, l)
    /\ Set(TransitionLayout(Tex, l))
    /\ UNCHANGED <<keepGpu, mutex, gpuPc, pCycle>>

(* CopyFrom another texture into a texture whose host copy is in sync,    *)
(* after which the caller marks it GPU dirty.                             *)
DirectCopyFrom ==
    /\ GpuCan /\ dirtyState # "CpuDirty" /\ CopyFromReady(Tex) /\ latest < MaxVersion
    /\ Set(MarkGpuDirty(CopyFrom(Tex, latest + 1)))
    /\ latest' = latest + 1 /\ guestSeen' = {} /\ gpuSeen' = {}
    /\ UNCHANGED <<formatMatch, guestTileMode, owner, guestPc, access, destroyed, fault,
                   mutex, gpuPc, pCycle>>

(* The guest waits for the GPU work it submitted and takes the texture    *)
(* back.                                                                  *)
HandBack ==
    /\ fault = "None" /\ owner = "Gpu" /\ gpuPc = "Idle"
    /\ owner' = "Cpu"
    /\ UNCHANGED <<texVars, formatMatch, guestTileMode, latest, guestSeen, gpuSeen,
                   mutex, guestPc, access, gpuPc, pCycle, destroyed, fault>>

(* ---- the GPU signals the oldest submitted fence (one queue, in order);  *)
(* other threads submit unrelated work, which polls and recycles slots.   *)
GpuComplete ==
    /\ queue # << >>
    /\ slot' = [slot EXCEPT ![Head(queue)].state = "Signalled"]
    /\ queue' = Tail(queue)
    /\ UNCHANGED <<dirtyState, protection, layout, hostData, guestData, cycle,
                   keepGpu, mutex, gpuPc, pCycle>>

(* The pool grows on demand in the code; the model's bound on Slots keeps  *)
(* one slot free for the texture's own threads so it never blocks them.   *)
OtherSubmit ==
    /\ fault = "None"
    /\ Cardinality({s \in Slots : slot[s].state \in {"Signalled", "None"}}) >= 2
    /\ LET s == NextSlot(slot)
           a == Allocate(Tex)
       IN Set([a EXCEPT !.slot[s].state = "Submitted", !.queue = Append(@, s)])
    /\ UNCHANGED <<keepGpu, mutex, gpuPc, pCycle>>

(* Texture::~Texture, run by whichever thread drops the last reference    *)
(* (no fence cycle holds one): lock, DeleteTrap, SynchronizeGuest(true),  *)
(* munmap the mirror.  When a copy is needed, SynchronizeGuest calls      *)
(* shared_from_this() on the object being destroyed, which throws         *)
(* bad_weak_ptr out of the destructor.                                    *)
TextureDestructor ==
    /\ fault = "None" /\ ~destroyed /\ gpuPc = "Idle" /\ mutex = "None"
    /\ \A s \in Slots : ~slot[s].holdsTex
    /\ LET t == [Tex EXCEPT !.prot = "None"]
       IN IF GuestCopyNeeded(t)
          THEN /\ fault' = "BadWeakPtr"
               /\ UNCHANGED <<texVars, destroyed>>
          ELSE /\ Set(SynchronizeGuest(t, TRUE))
               /\ destroyed' = TRUE
               /\ UNCHANGED fault
    /\ UNCHANGED <<formatMatch, guestTileMode, latest, guestSeen, gpuSeen,
                   mutex, owner, guestPc, access, gpuPc, pCycle>>

Next ==
    \/ GuestRead \/ GuestWrite \/ \E a \in {"Read", "Write"} : GuestFault(a)
    \/ GuestCallback \/ GuestWait \/ GuestLift \/ GuestHandOver
    \/ BeginExec \/ \E rw \in BOOLEAN : ExecSyncHost(rw) \/ ExecSyncGuest
    \/ ExecRender \/ ExecSample \/ EndExec
    \/ \E rw \in BOOLEAN : DirectSyncHost(rw)
    \/ \E l \in ImageLayouts \ {"Undefined"} : DirectTransition(l)
    \/ DirectCopyFrom \/ HandBack
    \/ GpuComplete \/ OtherSubmit

(* The GPU finishes submitted work, an executor batch ends, and a thread   *)
(* in the fault handler keeps running: the OS schedules it and its only    *)
(* waits are on the texture mutex and on a submitted fence.               *)
Fairness ==
    /\ WF_vars(GpuComplete) /\ WF_vars(EndExec)
    /\ WF_vars(GuestCallback) /\ WF_vars(GuestWait) /\ WF_vars(GuestLift)

Spec == Init /\ [][Next]_vars /\ Fairness

-----------------------------------------------------------------------------
TypeOK ==
    /\ dirtyState \in DirtyStates /\ protection \in Protections
    /\ layout \in ImageLayouts
    /\ hostData \in Versions /\ guestData \in Versions /\ latest \in Versions
    /\ slot \in [Slots -> SlotRec] /\ queue \in Seq(Slots)
    /\ cycle \in Slots \cup {NoSlot} /\ pCycle \in Slots \cup {NoSlot}
    /\ guestSeen \subseteq Versions /\ gpuSeen \subseteq Versions
    /\ mutex \in {"None", "Gpu", "Guest"} /\ owner \in {"Cpu", "Gpu"}
    /\ guestPc \in {"Running", "Faulted", "Waiting", "Lifting"}
    /\ access \in {"Read", "Write"} /\ gpuPc \in {"Idle", "Exec"}

(* Coherence: every read the guest makes without faulting, and every GPU  *)
(* read after the executor synchronised the host copy, returns the last   *)
(* write, whoever made it.  A texture whose host format differs from the  *)
(* guest's is exempt: MarkGpuDirty and SynchronizeGuest skip it on        *)
(* purpose, since its GPU writes cannot be re-encoded for the guest.      *)
ReadsSeeLatestWrite ==
    formatMatch => guestSeen \cup gpuSeen \subseteq {latest}

(* A staged host -> guest copy that has not landed belongs to the cycle   *)
(* Texture::cycle names, so WaitOnFence (which the trap callbacks call)   *)
(* lands it: no method overwrites cycle without first waiting on it.      *)
PendingCopyTracked ==
    \A s \in Slots : slot[s].copy # NoCopy => cycle = s

(* A guest access that faults is eventually retried: the callback gets    *)
(* the texture lock, its fence waits end, and the handler lifts the trap. *)
FaultsResolve == (guestPc = "Faulted") ~> (guestPc = "Running")

(* No exception escapes and no callback runs on a destroyed texture.      *)
NoFault == fault = "None"
=============================================================================
