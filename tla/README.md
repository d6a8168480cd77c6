# TLA+ models of skyline's guest memory subsystem and GPFIFO engine

This directory holds TLA+ models of the guest virtual-memory code of the skyline
emulator, TLC configurations that check them, and PROJECT.json. PROJECT.json
lists the components, runs, mutants, the mapping of every definition to the source
lines it models, the findings and the hazards.

## 1. The system (inventory)

| Part | Source | State | Operations | Concurrency |
|---|---|---|---|---|
| FlatAddressSpaceMap | `src/unnamed/part_001` 15-224 (address_space.inl) | `blocks`: vector of `{virt, phys, extraInfo}` sorted by `virt`, starting with a block at 0 and ending with an unmapped block | `MapLocked`, `UnmapLocked` (called by `Map`/`Unmap` under `blockMutex`, header) | `blockMutex`: whole call |
| FlatMemoryManager | part_001 226-426 | the map with `u8*` backing, `PaContigSplit`, a sparse flag, and a zero page | `TranslateRange`, `Read`, `Write`, `Copy` | `blockMutex` |
| FlatAllocator | part_001 428-499 | the map with `bool` backing plus `currentLinearAllocEnd` | `Allocate`, `AllocateFixed`, `Free` | `blockMutex` |
| MemoryManager chunks | `kernel/memory.cpp` 76-91, 194-270 | `chunks`: vector of `ChunkDescriptor{ptr, size, state, permission, attributes}` | `InsertChunk`, `Get`, usage sums | `mutex` (unique for insert, shared for reads) |
| MemoryManager host reservation | memory.cpp 20-192 | `addressSpace`, `base`, `memoryFd`, regions | `InitializeVmm`, `InitializeRegions`, `CreateMirror(s)`, `FreeMemory` | none (initialisation) |
| NCE trap manager | `src/unnamed/part_003` (nce.h only) | trap groups, `trapMutex` | `TrapRegions`, `RetrapRegions`, `DeleteTrap`, the fault handler | signal handler vs. threads |
| Texture sync | `gpu/texture/texture.cpp` | `dirtyState`, layout, the backing, `cycle` (a weak FenceCycle), trap handle, `mutex` | `MarkGpuDirty`, `SynchronizeHost(WithBuffer)`, `SynchronizeGuest(WithBuffer)`, `TransitionLayout`, `CopyFrom`, trap callbacks, `~Texture` | GPU thread, guest threads in fault handlers |
| CommandScheduler | `src/unnamed/part_005` | pool of `{active, fence, cycle}` slots | `AllocateCommandBuffer`, `SubmitCommandBuffer` | any thread |
| util integer helpers | `common/utils.h` 78-187 | none (pure functions) | `AlignUp`, `AlignDown`, `IsAligned`, `HexDigitToNibble`, `HexStringToArray`, `HexStringToInt` | none |
| GPFIFO engine | `services/base_service.cpp` 54-128 (gpfifo.cpp, flattened into that file) | the register file (`syncpoint.payload`, `semaphore.payload`), the channel's command executor, host1x syncpoints, the semaphore in GPU memory | `CallMethod`: syncpoint Incr / Wait, semaphore Release / Reduction / others | one GPFIFO thread per channel; the guest polls semaphores |

These parts interact in several ways:

- The FlatMemoryManager and the FlatAllocator are instantiations of FlatAddressSpaceMap.
- Texture synchronisation goes through the trap manager and the guest memory. Its host -> guest copies are objects attached to a CommandScheduler fence cycle, and they run when that cycle is destroyed: when somebody waits on it, or when AllocateCommandBuffer recycles its slot.
- The MemoryManager's chunk list is separate bookkeeping with its own lock.
- GPU channels synchronise with each other and with the guest through host1x syncpoints and semaphores in guest memory, written by their GPFIFO engines without a common lock.

The hard behaviours are these:

- the split, walk-back, erase and reuse steps of Map and Unmap;
- the allocator's interaction between the cursor and the fixed mappings;
- the branches of InsertChunk;
- the moment a staged copy lands, and the races between a guest thread's trap callback and fence completion, slot recycling by other threads and the destructor (the texture's owner hand-over keeps the callback and the GPU thread's texture methods apart);
- the host address arithmetic of InitializeVmm and InitializeRegions;
- the program order of a GPFIFO method's memory writes (the host CPU's store ordering is not modelled), the reduction arithmetic at the word's edges, and the non-atomic semaphore reduction.

## 2. Modules

| Module | Models | Variables | Actions |
|---|---|---|---|
| `FlatAddressSpaceMap` | MapLocked/UnmapLocked as pure operators over a block sequence | `blocks`, `fault` | `Map(virt, phys, size, extra)`, `Unmap(virt, size)` |
| `AbstractAddressSpace` | what a map promises: a function from address to backing | `mem` | abstract Map / Unmap |
| `MCFlatAddressSpaceMap` | harness for the unmap runs: pointer backings offset on split, sparse flag | | |
| `FlatMemoryManager` | the accessors `TranslateRange`, `Read`, `Write`, `Copy` as run-by-run walks over the block vector and a host byte memory | `blocks`, `fault`, `memory`, `result` | `MMRead(v, size)`, `MMWrite(v, size, src)`, `MMCopy(dst, src, size)`, `MMTranslate(v, size)`, `MMMap`, `MMUnmap` |
| `MCFlatMemoryManager` | MapLocked interleaved with every accessor call (`MapAccessSpec`); `MapRefinement` | | |
| `FlatAllocator` | FlatAllocator over `INSTANCE FlatAddressSpaceMap` with bool backings | `blocks`, `fault`, `currentLinearAllocEnd`, `lastAlloc` | `Allocate(size)`, `AllocateFixed(virt, size)`, `Free(virt, size)` |
| `MCFlatAllocator` | the harness of the allocator's violation run | | |
| `MemoryManagerChunks` | InsertChunk's full body, Get's lookup, InitializeVmm's initial layout | `chunks`, `fault` | `Insert(ptr, size, state, perm, attrs)` |
| `AbstractMemoryState` | what the chunk list promises: a descriptor per address | `mstate` | abstract insert |
| `Texture` | one texture, its trap and the scheduler's slots; a guest thread and the GPU thread | `dirtyState`, `protection`, `layout`, `hostData`, `guestData`, `slot`, `queue`, `cycle`, `mutex`, `owner`, thread pcs, `latest`, `guestSeen`, `gpuSeen`, `destroyed`, `fault` | guest: `GuestRead`, `GuestWrite`, `GuestFault`, `GuestCallback`, `GuestWait`, `GuestLift`, `GuestHandOver`; GPU: `BeginExec`, `ExecSyncHost`, `ExecSyncGuest`, `ExecRender`, `ExecSample`, `EndExec`, `DirectSyncHost`, `DirectTransition`, `DirectCopyFrom`, `HandBack`; scheduler: `GpuComplete`, `OtherSubmit`; `TextureDestructor` |
| `MCTexture` | harness; `DestroySpec` adds the destructor | | |
| `MemoryManagerLayout` | InitializeVmm's carveout search (RECURSIVE `Search`) and InitializeRegions over scaled addresses | `maps`, `phase`, `addressSpace`, `base`, `guestPages`, `chunks`, `regions` | `InitializeVmm(type)`, `InitializeRegions(codeData, codeSize)` |
| `MCMemoryManagerLayout` | every /proc/self/maps of up to two mappings with ends in `Points` | | |
| `Gpfifo` | `GPFIFO::CallMethod` for any number of channels, each running a pushbuffer program; a polling guest | per channel `pc`, `step`, `syncPayload`, `semPayload`, `origVal`, `lastTs`, `recorded`, `executed`; `syncpt`, `sem`, `ticks`; ghosts `incs`, `atomicSem`; guest `guestPc`, `guestTick`, `guestTs` | `SetRegister`, `SyncIncrExecute`, `SyncIncrement`, `SyncWait`, `SemTimestamp`, `SemOperation`, `SemReduce`; `GuestReadPayload`, `GuestReadTimestamp` |
| `MCGpfifo` | two channels, one syncpoint, a 3-bit word | | |
| `Utils` | the utils.h integer helpers as operators; `HexLoop` is HexStringToInt's for loop (RECURSIVE) | | |
| `GuestMirror` | Texture::SetupGuestMappings over MemoryManager::CreateMirror and CreateMirrors; a mirror is the sequence of memfd offsets it maps | | |
| `MCHostArithmetic` | one call per behaviour, on bounded inputs, compared with reference definitions | `call`, `out` | `CallHexStringToInt`, `CallHexStringToArray`, `CallAlign`, `CallSetupGuestMappings` |

Each module follows these conventions:

- Each call is one atomic step, because every modelled call holds its component's lock for its whole body.
- The operators follow the code's iterators. `LowerBound`, `StartSuccessor` and `StartPredecessor` are the `lower_bound` call and the two backward walks. `Erase` and `InsertSeqAt` are `vector::erase` and `vector::insert`.
- Each branch of the code is a CASE arm, in the code's order.
- An exception, or undefined behaviour such as walking before `begin()`, sets `fault`. That state has no successor, because in the emulator such an exception is fatal. This is why runs that can reach a fault say `CHECK_DEADLOCK FALSE`.
- Addresses are small integers. Backings are small integers offset per address (`PaContigSplit`) or booleans. States and permissions are strings.
- `unmapCallback` and tracing are left out, because neither changes the map.

The refinement mappings work as follows:

- For the map, `View(blocks)` gives each address the backing of the last block starting at or before it, which is the lookup `TranslateRange` does. The backing is offset by the distance into the block, and an unmapped address gets `UnmappedPa`.
- For the chunks, `DescAt` is `Get(ptr)`.
- The abstract Spec is a PROPERTY of the detailed one (`INSTANCE ... WITH`).

### Texture

Data is a version number: every write, by the guest or the GPU, makes version `latest + 1`, and `guestSeen`/`gpuSeen` collect what was read since. Each texture method is a pure operator from a texture record to the next, named after the method and following its branches: `SynchronizeHostImpl` (the mirror is read before the fence wait), `CopyFromStagingBuffer`, `SynchronizeGuest`, `WaitOnFence`, `CopyToGuest` (the Linear arm copies the wrong way), and so on. A scheduler slot is `None`, `Active`, `Submitted` or `Signalled`, with the staged copy it carries and whether it holds a reference to the texture. The GPU signals the queue in order.

- The guest thread touches the texture only while it owns it (`owner`). The guest program hands the texture to the GPU and waits before taking it back, as on the real hardware, where concurrent CPU and GPU access is undefined.
- A guest access the protection forbids faults. The handler runs the snapshotted callback outside the trap lock (`GuestCallback`: lock, `SynchronizeGuest(true)`, CpuDirty on a write), waits on the fence and unlocks (`GuestWait`), then lifts the protection just enough for the access (`GuestLift`). This follows spec.md 4.5 and 5, since nce.cpp is not in the repository.
- The GPU thread runs executor batches (lock, record into its own cycle, submit at `EndExec`) and single calls under the lock.
- `OtherSubmit` is work from other threads that recycles slots. It keeps one slot free, because the real pool grows on demand.
- The initial state is the guest constructor: layout Undefined, tiling forced Optimal, the guest memory authoritative (CpuDirty), pages trapped write-only.

### Gpfifo

A channel's pushbuffer is a sequence of method records: `Draw` (work the 3D engine records into the channel's command executor), the register writes `SyncPayload`/`SemPayload`, `SyncIncr`/`SyncWait` on a syncpoint, and `SemAction` with an operation, a reduction, a format and a release size. `CallMethod` is split at the points another thread can observe:

- Incr is `Execute()` (`SyncIncrExecute`: all recorded work is submitted), then `Increment()` (`SyncIncrement`).
- Wait blocks until the syncpoint reaches the payload register (`SyncWait` is enabled only then).
- The semaphore action writes the 16-byte timestamp (`SemTimestamp`, a fresh `GetGpuTimeTicks()`), then releases or reads `origVal` (`SemOperation`), then for a reduction writes the reduced value back (`SemReduce`). An operation other than Release or Reduction is only logged.

`Reduce` is the reduction lambda over a `Width`-bit word; the signed add wraps, which is what the build does with the undefined i32 overflow. `ManualReduce` is the reference: two's complement comparison by flipping the sign bit, add modulo the word, and the INC/DEC wrap rules. The semaphore is one location; the `Address` high/low packing and the +4 zero word are left out. `payloadTs` (ghost) is the timestamp of the release that wrote the payload, `atomicSem` (ghost) the value the same releases and reductions would give applied atomically.

### FlatMemoryManager

The four accessors share one shape, and the module follows it: `UpperBound` is the `upper_bound` lookup, `StartRun` the first predecessor, `blockPhys` and run size, and `NextRun` the `predecessor = successor++` step taken while bytes remain. `SuccVirt` is `successor->virt`; at `end()` the code reads past the vector, which the model marks. Each walk (`ReadWalk`, `WriteWalk`, `CopyWalk`, `TranslateWalk`) is RECURSIVE over the runs and returns `Done(value)` or `Thrown(error)`; a Write or Copy that faults keeps the runs written before the throw. `Copy` keeps separate source and destination cursors (`Advanced`) and copies each run with `MemCopy`, in either direction when the host ranges overlap (memcpy of overlapping ranges is undefined). The host memory is one byte per host address; a sparse block reads as the zero page. `result` records the last call and its outcome, which the properties compare with `View(blocks)`, the map's view of the address space. The callbacks and tracing are left out.

### Utils

Characters are ASCII codes and a `string_view` is a sequence of them. An integral type is a record of its width and whether C++ promotes it to `int`, because that decides whether a shift by the full width is defined. `size_t` is `SizeTBits` wide. TLC's integers are 32-bit, so widths are scaled: the u64 that InitializeVmm parses with is a 16-bit type that is not promoted, and the offset of HexStringToInt wraps modulo 2^16 instead of 2^64, which changes nothing because only `offset + 4` modulo the size is used. Where the code's shift is undefined, `HexStringToInt` returns the set of values a build can produce (AArch64's LSR takes the amount modulo the width; a compiler may fold it to 0). A helper that throws returns the model value `Throw`. The references in `MCHostArithmetic` use no bit operations: `LeadingHexValue` folds the digits before the first non-digit, and rounding is `\div` and `*`. `MemoryManagerLayout` takes `AlignUp` and `IsAligned` from `Utils` (`INSTANCE Utils WITH SizeTBits <- 6`, its scaled u64).

### GuestMirror

A texture's guest memory is a sequence of host spans inside the carveout (`guest->mappings`). `SetupGuestMappings` page-aligns them: a single span is widened to whole pages on both sides. With several spans, the front one is aligned down at its start, the middle ones are kept as they are, and the back one keeps its start and has its size aligned up. It then asks `CreateMirror` or `CreateMirrors` for a second mapping of the same memfd pages and keeps the subspan that covers the texture. Each span must lie in `base` with a page-aligned offset and size, or the call throws. A mirror is the sequence of memfd offsets its bytes map. Where it lies in the host, and mmap failures, are left out. The model uses a page of 2 and a carveout of 4 pages.

### MemoryManagerLayout

One address unit stands for a power of two: 2^35 is 8, 2^39 is 40, the 39-bit baseSize is 26 (code 4, alias 8, heap 4, stack 2, TLS/IO 8), the host's TASK_SIZE is 56 and 2^64 is 64. This keeps the order and alignment of the real constants. `Search` is the do/while loop over the lines of /proc/self/maps, including the extra pass over the empty string after the final newline. `Munmap` rejects a range past TASK_SIZE, as the kernel does.

## 3. Runs

Passing runs:

- `memory_accessors`: `MapAccessSpec` with VaLimit 4, VaStart 1, one physical base, a plain and a sparse extra, bytes {0, 1}, accesses of 1 or 2 bytes and a 2-byte zero page (about 34k states, 1m40s). It checks these properties:
  - `TypeOK`, `NoFault`, `Sorted`: MapLocked never throws or walks off the vector, and keeps it sorted and terminated by an unmapped block (which UnmapLocked's dereference at part_001 160 relies on);
  - `MapRefinement`: each MapLocked implements the abstract Map, changing exactly the range;
  - `ReadReturnsContent`: Read returns what the view holds at each address, 0 in a sparse mapping, or throws PageFault exactly when an address is unmapped;
  - `WriteStoresData`: after a Write each host byte of a non-sparse mapped address holds the last source byte written to it;
  - `CopyMovesContent`: Copy faults exactly when a source or destination address is unmapped, and otherwise each non-sparse destination holds the old content of its source;
  - `TranslateMatchesView`: the spans TranslateRange returns, concatenated, point at the view's backing of each address (the zero page for a sparse one).
- `chunks_refine`: a 6-address space with carveout [1,5), 2 states, 2 permissions and MaxChunks 6. It checks `TypeOK`, `Tiled` and `Refinement`. InsertChunk implements the abstract insert.
- `host_arithmetic`: `MCHostArithmetic` (about 66k states, 10 s). Strings of up to three characters are taken from NUL and the codes on both sides of every digit range ('/', '0', '9', ':', '@', 'A', 'F', 'G', '`', 'a', 'f', 'g'), with a u8, a u16 and the u64 stand-in. Two-byte arrays use four-character strings over a smaller alphabet. Every 8-bit value is tried with the multiples {1, 2, 3, 4, 6, 8, 128}. It checks these properties:
  - `HexStringToIntMatches`: the result is the value of the leading digits, and the call throws only when the string is too long for the type, including when the final shift is by the full width;
  - `HexStringToArrayMatches`: the bytes of the digit pairs, and a throw on a wrong length or a non-digit;
  - `AlignmentMatches`: AlignUp and AlignDown round to the multiple (AlignUp wraps to 0 at the top of the type), and IsAligned is divisibility on both of its paths;
  - `MirrorAliasesGuest`: for every sequence of up to three spans in the carveout, the mirror maps the texture's guest bytes one for one and in order. It throws exactly when two adjacent spans do not meet on a page boundary.
- `texture_coherent`: two slots, versions up to 3, matching and mismatching formats, Block tile mode (about 166k states, 20 s). It checks these properties:
  - `TypeOK`;
  - `ReadsSeeLatestWrite`: every guest read that does not fault, and every GPU read after the host copy was synchronised, returns the last write;
  - `PendingCopyTracked`: a staged copy that has not landed belongs to the cycle `Texture::cycle` names, so the callbacks' `WaitOnFence` lands it;
  - `FaultsResolve`: a faulting access is eventually retried.
- `gpfifo_channels`: `MCGpfifo` (about 10.5k states). Channel 1 draws, increments the syncpoint, releases 5 with a 16-byte report, then applies unsigned Add, signed Add, Inc and Dec with payload 6 (the adds wrap the 3-bit word). Channel 2 waits for the syncpoint, draws, applies a signed Max, issues an unimplemented Acquire and increments. It checks these properties:
  - `TypeOK`;
  - `ReductionMatchesManual`: a reduction about to be written computes the manual's value for every memory value and payload;
  - `TimestampBeforePayload`: a guest that reads a 16-byte report's payload and then its timestamp never gets an older timestamp;
  - `SyncpointAfterWork`: after a channel's k-th increment, every draw it recorded before that Incr has been submitted;
  - `ChannelsDrain`: both pushbuffers are processed to the end.

Violation runs (findings, see PROJECT.json). Each checks one property:

- `translate_unmapped`: `TranslateFaultsOnUnmapped` fails. TranslateRange has no PageFault check (part_001 236-277): a range in the last, unmapped block reads `successor->virt` at `end()` (line 247), and elsewhere an unmapped range comes back as spans at nullptr.
- `unmap_tail_throws`: Unmap of a mapping's tail throws "Multiple contiguous unmapped regions" (line 145).
- `unmap_leaves_mapping`: the erase at line 211 stops one block short, so part of the range stays mapped.
- `alloc_over_fixed`: the fast path allocates over a fixed mapping (line 445).
- `texture_destroy`: the trap callbacks capture a raw `this`. A guest fault taken before `~Texture` calls DeleteTrap runs its callback on the destroyed texture. Separately, `~Texture` on a GPU-dirty texture reaches `shared_from_this()` and throws `bad_weak_ptr`.
- `gpfifo_reduction_race`: `ReductionsAtomic` fails. A reduction reads `origVal` (line 86) and writes the result (line 122) separately, so channel 1's Release or Add between channel 2's read and write is lost.
- `regions_munmap`: the carveout search ignores a host mapping that straddles 2^35 (memory.cpp 49) and maps over it with MAP_FIXED. InitializeRegions' `munmap(base.end(), newSize - base.size())` (line 127) has a wrapped length and never gives the unused carveout back. TLC reports the first; with `Points` lacking 5 the same invariant fails through the second.

This sitting retired `texture_linear_copy` for `host_arithmetic`. Its finding stands: for a Linear guest texture, CopyToGuest's `memcpy(hostBuffer, guestOutput, ...)` (texture.cpp 403) copies the wrong way, so a GPU write never reaches the guest while the texture is marked Clean. `ReadsSeeLatestWrite` fails under `MCTexture_linear.cfg`. Earlier sittings also found that FlatAllocator's inverted skip condition (part_001 450) returns `{}` while space is free, that Allocate throws "Unexpected allocator state!" after everything is freed (472), and that InsertChunk never merges on an exact match (memory.cpp 209). Later sittings retired more runs, for the GPFIFO and the accessor runs. `AllocatorSorted` (FlatAllocator keeps its vector sorted) held and is still defined. `MapSpec` alone is subsumed by `memory_accessors`. The first-fit fallback returns address 0, below vaStart (part_001 478), even for a client that never uses AllocateFixed; `AllocReturnsFreeRange` states what this breaks, but `alloc_over_fixed` prints the shorter fixed-mapping trace. InsertChunk leaves a chunk of size 0 (memory.cpp 236), which `NoEmptyChunk` catches under `MCMemoryManagerChunks.cfg`. These properties (`FullOnlyWhenFull`, `AllocNeverUnexpected`, `Coalesced`, `NoEmptyChunk`) are still defined. Their runs were given up because the project is limited to 12 runs.

Every property of a passing run has a mutant in PROJECT.json, a plausible bug that TLC then catches:

- an absolute instead of a relative tail offset;
- a walk that tests the wrong iterator;
- an insert that overwrites;
- a missing vaLimit check;
- a reversed subtraction;
- a trim that keeps the size;
- a compatibility test ignoring permissions;
- MarkGpuDirty without the retrap;
- SynchronizeGuestWithBuffer without its wait on another cycle;
- a Submit that never reaches the queue;
- CopyFromStagingBuffer moving to the wrong layout;
- MapLocked erasing one block too many;
- a reduction that ignores the signed format, and one that does not truncate the sum;
- a 16-byte report whose timestamp is never written;
- an Incr that does not flush the executor, and one whose increment is lost;
- a HexStringToInt loop that skips a non-digit instead of stopping, a HexStringToArray that reads pair i at index i, an AlignDown that masks with ~multiple, and a SetupGuestMappings that mirrors the back span without aligning its size;
- a Read walk that keeps reading the first block, a Write that restarts the source at each run, a Copy that tests the destination's sparse flag, and a TranslateRange that returns the block's backing for a sparse block.

Bounds are chosen so that every branch of MapLocked, UnmapLocked, Allocate and InsertChunk is taken:

- Five addresses and sizes up to 4 give two overlapping mappings inside a third, so there are splits on both ends, multi-block erases and unmapped neighbours on both sides.
- The accessor run uses four addresses, because every state also carries the host memory: two maps already give runs that cross a mapped/unmapped, a sparse/plain and a plain/plain boundary, a 2-byte access spans two runs, and two 2-byte ranges overlap in one byte. The 2-byte zero page makes a sparse run of 2 fit, while TranslateRange's size check is reached only by a larger run.
- MaxChunks 6 is a guard on `Insert`. It lets three inserts split the carveout.
- Two slots let a texture's cycle and another thread's work coexist, so recycling a slot under a pending copy happens. Three versions allow a guest write, a GPU write and another write after them.
- Two channels are enough for every interleaving of one channel's semaphore steps with another's, and for a waiter blocked on another channel's increment. A 3-bit word makes the unsigned and signed adds wrap and gives negative signed values; `ReductionMatchesManual` compares each pending reduction with the manual over all 64 operand pairs, so Inc and Dec are checked at their wrap points too.
- For the mirror, three spans over four pages give a front span that starts mid-page, middle spans that are and are not whole pages, and a back span whose size is not a page multiple.
- For utils.h the inputs reach the size check on both sides, the digits at every position of a u8 and the partial fill of a u16, and every 8-bit value. Each behaviour is a single call, because the helpers keep no state. So `MCHostArithmetic.cfg` says `CHECK_DEADLOCK FALSE`: after the call the program has nothing left to do.
- Larger bounds mainly multiply equivalent states. The refinement runs are the cost limit, because each step evaluates the whole refinement mapping.

Fairness: the memory components assume none. Their calls are made by clients whenever they choose.

`Texture` assumes weak fairness of these steps, and nothing else:
- `GpuComplete`: the GPU finishes submitted work;
- `EndExec`: an executor batch ends and unlocks;
- the fault handler's `GuestCallback`, `GuestWait` and `GuestLift`: a thread in the handler is scheduled by the OS, and its only waits are on the texture mutex and a submitted fence.

Client steps (reads, writes, hand-overs, other submissions) are not fair.

`Gpfifo` assumes weak fairness of each channel's steps: every channel has its own GPFIFO thread, and a blocked `SyncWait` stays enabled once the syncpoint reaches its threshold, because syncpoint values only grow. The guest's polling is not fair.

## 4. Not modelled, and plan

1. **FlatMemoryManager accessor:** the `cpuAccessCallback`s and tracing. The accessor run interleaves accesses with MapLocked only: the unmap runs already show UnmapLocked throwing or leaving mappings, so the stale sparse flag UnmapLocked leaves (part_001 219) is not reached there. Copy into a sparse destination writes that block's backing (line 390-401), although spec.md says sparse writes are discarded; `CopyMovesContent` claims nothing for sparse destinations.
2. **NCE trap groups.** Several textures sharing pages, and the "least restrictive protection" rule across them. Only nce.h is in the repository.
3. **Texture:**
   - `SwapBacking` and `WaitOnBacking`: no caller in the repository swaps a backing.
   - `TextureView::lock`: `TextureView::texture` is never reassigned, so its retry loop returns at once.
   - `SynchronizeGuest(false)`: it has no caller. With one, a read between the write-only retrap and the copy landing would be stale (texture.cpp 726).
   - Mip levels and the per-format copy loops: data is a version.
   - The 36-bit and pitch paths.
4. **MemoryManager:** the usage sums are read-only.
5. **GPFIFO:** semaphore Acquire is a no-op in the code (line 124), so a pushbuffer that relies on it to wait continues at once; the `Address` packing of the semaphore address; the syncpoint wait with a finite timeout (only `duration::max()` is used here).
6. **Not hazards as the code stands:** the carveout size at memory.cpp 88 cannot wrap, because the search only returns a base with `base + baseSize` inside the address space; the retry loop of `TextureView::lock` (texture.cpp 95) and the stale read after `SynchronizeGuest(false)` (726) need a caller the repository does not have; and the wait in `SynchronizeHostInline` (296) always finds a pending copy landed under the lock before the texture is CpuDirty for the GPU thread. PROJECT.json lists only hazards the code can reach.

Not modelled, and why:

- host syscalls beyond the layout they produce (memfd, fallocate, the text of /proc/self/maps);
- JNI, input, audio, OS and service glue (`BaseService::GetName` and `HandleRequest` in `services/base_service.cpp`, the Fermi 2D engine's register decoding), which are outside the memory, texture and GPFIFO subsystems;
- `MacroEngineBase` (base_service.cpp 189-225): only the invocation record; `HandleMacroCall` and the macro interpreter are not in the repository;
- `FreeMemory` (memory.cpp 181-192): the same range checks, then a hole punch in the memfd that changes no mapping. Also mmap failure in `CreateMirror(s)`, whose leak on a partial failure is listed as a hazard;
- the rest of utils.h: `GetTimeNs`/`GetTimeTicks` read system registers; `MakeMagic`, `DivideCeil` and the `SwapEndianness` overloads have no caller in the repository; `Hash`, `ObjectHash` and `FillRandomBytes` are library hashing and a PRNG; `IntegerFor`, `OffsetMember`, `MakeFilledArray` and `BitCast` are type-level;
- UI layouts, the build and CI.

None of these is a state machine over the memory subsystem, or a helper one of them calls, that TLC could check.
