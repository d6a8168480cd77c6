------------------------------- MODULE Gpfifo -------------------------------
(***************************************************************************)
(* GPFIFO::CallMethod (soc/gm20b/engines/gpfifo.cpp): the methods a GPU    *)
(* channel's pushbuffer sends to its GPFIFO engine.  Every method first    *)
(* stores its argument in the register file; the syncpoint action either   *)
(* flushes the channel's command executor and increments a host1x         *)
(* syncpoint, or waits for one to reach the payload register; the          *)
(* semaphore action writes a 16-byte report's timestamp first and then     *)
(* releases the payload or applies a reduction to the value in memory.     *)
(*                                                                         *)
(* Each channel runs its own GPFIFO thread, so the channels' methods       *)
(* interleave; a guest thread polls the semaphore.  A method is split      *)
(* into the steps another thread can see between: the executor flush and  *)
(* the increment, the timestamp write and the payload write, the read and  *)
(* the write of a reduction.  The executor is reduced to how much work     *)
(* was recorded and how much it has submitted; a u32 is a Width-bit word.  *)
(***************************************************************************)
EXTENDS Integers, Sequences, FiniteSets, Bitwise

CONSTANTS
    Channels,      \* GPU channels, each with its own GPFIFO thread
    Programs,      \* Programs[c]: the methods channel c's pushbuffer sends
    SyncpointIds,
    Width          \* bits of the scaled u32

ASSUME Width \in 2 .. 4

WordMod == 2 ^ Width
Word == 0 .. WordMod - 1
Reductions == {"Min", "Max", "Xor", "And", "Or", "Add", "Inc", "Dec"}

\* static_cast<i32> and static_cast<u32> on a Width-bit word.
AsSigned(x) == IF x >= WordMod \div 2 THEN x - WordMod ELSE x
AsUnsigned(i) == i % WordMod
Lesser(a, b) == IF a <= b THEN a ELSE b
Greater(a, b) == IF a >= b THEN a ELSE b

(* Mutant: min and max compare the raw words even for a signed format.    *)
ReduceIgnoringSign(r, o, p, s) ==
    CASE r = "Min" -> Lesser(o, p)
      [] r = "Max" -> Greater(o, p)
      [] r = "Xor" -> o ^^ p
      [] r = "And" -> o & p
      [] r = "Or"  -> o | p
      [] r = "Add" -> IF s THEN AsUnsigned(AsSigned(o) + AsSigned(p)) ELSE (o + p) % WordMod
      [] r = "Inc" -> IF o >= p THEN 0 ELSE o + 1
      [] r = "Dec" -> IF o = 0 \/ o > p THEN p ELSE o - 1

(* Mutant: the unsigned sum is not truncated to a u32.                     *)
ReduceUntruncated(r, o, p, s) ==
    CASE r = "Min" -> IF s THEN AsUnsigned(Lesser(AsSigned(o), AsSigned(p))) ELSE Lesser(o, p)
      [] r = "Max" -> IF s THEN AsUnsigned(Greater(AsSigned(o), AsSigned(p))) ELSE Greater(o, p)
      [] r = "Xor" -> o ^^ p
      [] r = "And" -> o & p
      [] r = "Or"  -> o | p
      [] r = "Add" -> IF s THEN AsUnsigned(AsSigned(o) + AsSigned(p)) ELSE o + p
      [] r = "Inc" -> IF o >= p THEN 0 ELSE o + 1
      [] r = "Dec" -> IF o = 0 \/ o > p THEN p ELSE o - 1

(* The reduction lambda: the reduced value of origVal with the payload.    *)
(* The signed add overflows an i32, which is undefined; the build emits a *)
(* wrapping add, which is what AsUnsigned gives.                          *)
Reduce(r, o, p, s) ==
    CASE r = "Min" -> IF s THEN AsUnsigned(Lesser(AsSigned(o), AsSigned(p))) ELSE Lesser(o, p)
      [] r = "Max" -> IF s THEN AsUnsigned(Greater(AsSigned(o), AsSigned(p))) ELSE Greater(o, p)
      [] r = "Xor" -> o ^^ p
      [] r = "And" -> o & p
      [] r = "Or"  -> o | p
      [] r = "Add" -> IF s THEN AsUnsigned(AsSigned(o) + AsSigned(p)) ELSE (o + p) % WordMod
      [] r = "Inc" -> IF o >= p THEN 0 ELSE o + 1
      [] r = "Dec" -> IF o = 0 \/ o > p THEN p ELSE o - 1

\* Draws before the k-th SyncIncr of channel c's program.
IncrPositions(c) == {i \in DOMAIN Programs[c] : Programs[c][i].op = "SyncIncr"}
RECURSIVE NthIncr(_, _, _)
NthIncr(c, k, i) ==
    IF i > Len(Programs[c]) THEN i
    ELSE IF Programs[c][i].op = "SyncIncr"
         THEN IF k = 1 THEN i ELSE NthIncr(c, k - 1, i + 1)
         ELSE NthIncr(c, k, i + 1)
DrawsBefore(c, i) == Cardinality({j \in 1 .. i - 1 : Programs[c][j].op = "Draw"})

VARIABLES
    pc, step,            \* per channel: method index and step within it
    syncPayload, semPayload,  \* per channel: the payload registers
    origVal, lastTs,     \* per channel: locals of the semaphore action
    recorded, executed,  \* per channel: work recorded / submitted by Execute()
    syncpt,              \* host1x syncpoint values
    sem,                 \* the semaphore: payload, 16-byte timestamp, and (ghost) the timestamp of its payload's release
    ticks,               \* GetGpuTimeTicks()
    incs,                \* per channel: syncpoint increments made (ghost)
    atomicSem,           \* the value atomic reductions would give (ghost)
    guestPc, guestTick, guestTs   \* the polling guest thread

vars == <<pc, step, syncPayload, semPayload, origVal, lastTs, recorded, executed,
          syncpt, sem, ticks, incs, atomicSem, guestPc, guestTick, guestTs>>
chanVars == <<pc, step, syncPayload, semPayload, origVal, lastTs, recorded, executed,
              syncpt, sem, ticks, incs, atomicSem>>
guestVars == <<guestPc, guestTick, guestTs>>

Init ==
    /\ pc = [c \in Channels |-> 1] /\ step = [c \in Channels |-> "Begin"]
    /\ syncPayload = [c \in Channels |-> 0] /\ semPayload = [c \in Channels |-> 0]
    /\ origVal = [c \in Channels |-> 0] /\ lastTs = [c \in Channels |-> 0]
    /\ recorded = [c \in Channels |-> 0] /\ executed = [c \in Channels |-> 0]
    /\ syncpt = [s \in SyncpointIds |-> 0]
    /\ sem = [payload |-> 0, ts |-> 0, payloadTs |-> 0]
    /\ ticks = 0 /\ incs = [c \in Channels |-> 0] /\ atomicSem = 0
    /\ guestPc = "ReadPayload" /\ guestTick = 0 /\ guestTs = 0

Method(c) == Programs[c][pc[c]]
Running(c, s) == pc[c] <= Len(Programs[c]) /\ step[c] = s
Advance(c) == pc' = [pc EXCEPT ![c] = @ + 1] /\ step' = [step EXCEPT ![c] = "Begin"]

(* Methods that only set a register, and the 3D engine's draws, which the *)
(* command executor records.                                              *)
SetRegister(c) ==
    /\ Running(c, "Begin") /\ Method(c).op \in {"SyncPayload", "SemPayload", "Draw"}
    /\ LET m == Method(c) IN
       /\ syncPayload' = IF m.op = "SyncPayload" THEN [syncPayload EXCEPT ![c] = m.val] ELSE syncPayload
       /\ semPayload' = IF m.op = "SemPayload" THEN [semPayload EXCEPT ![c] = m.val] ELSE semPayload
       /\ recorded' = IF m.op = "Draw" THEN [recorded EXCEPT ![c] = @ + 1] ELSE recorded
    /\ Advance(c)
    /\ UNCHANGED <<origVal, lastTs, executed, syncpt, sem, ticks, incs, atomicSem, guestVars>>

(* Mutant: Incr increments without flushing the executor.               *)
SyncIncrNoFlush(c) ==
    /\ Running(c, "Begin") /\ Method(c).op = "SyncIncr"
    /\ step' = [step EXCEPT ![c] = "Increment"]
    /\ UNCHANGED <<pc, syncPayload, semPayload, origVal, lastTs, recorded, executed, syncpt,
                   sem, ticks, incs, atomicSem, guestVars>>

(* Syncpoint Incr, first half: channelCtx.executor.Execute().             *)
SyncIncrExecute(c) ==
    /\ Running(c, "Begin") /\ Method(c).op = "SyncIncr"
    /\ executed' = [executed EXCEPT ![c] = recorded[c]]
    /\ step' = [step EXCEPT ![c] = "Increment"]
    /\ UNCHANGED <<pc, syncPayload, semPayload, origVal, lastTs, recorded, syncpt, sem,
                   ticks, incs, atomicSem, guestVars>>

(* Mutant: the increment is lost.                                        *)
SyncIncrementLost(c) ==
    /\ Running(c, "Increment")
    /\ Advance(c)
    /\ UNCHANGED <<syncPayload, semPayload, origVal, lastTs, recorded, executed, syncpt, sem,
                   ticks, incs, atomicSem, guestVars>>

(* Syncpoint Incr, second half: syncpoints.at(index).Increment().         *)
SyncIncrement(c) ==
    /\ Running(c, "Increment")
    /\ syncpt' = [syncpt EXCEPT ![Method(c).id] = @ + 1]
    /\ incs' = [incs EXCEPT ![c] = @ + 1]
    /\ Advance(c)
    /\ UNCHANGED <<syncPayload, semPayload, origVal, lastTs, recorded, executed, sem,
                   ticks, atomicSem, guestVars>>

(* Syncpoint Wait: Wait(payload, duration::max()) blocks the thread until *)
(* the syncpoint reaches the payload register.                            *)
SyncWait(c) ==
    /\ Running(c, "Begin") /\ Method(c).op = "SyncWait"
    /\ syncpt[Method(c).id] >= syncPayload[c]
    /\ Advance(c)
    /\ UNCHANGED <<syncPayload, semPayload, origVal, lastTs, recorded, executed, syncpt, sem,
                   ticks, incs, atomicSem, guestVars>>

(* Mutant: the 16-byte report's timestamp is taken but never written.    *)
SemTimestampSkipped(c) ==
    /\ Running(c, "Begin") /\ Method(c).op = "SemAction"
    /\ IF Method(c).size16
       THEN /\ ticks' = ticks + 1
            /\ lastTs' = [lastTs EXCEPT ![c] = ticks + 1]
       ELSE UNCHANGED <<ticks, lastTs>>
    /\ step' = [step EXCEPT ![c] = "Operation"]
    /\ UNCHANGED <<pc, syncPayload, semPayload, origVal, recorded, executed, syncpt, sem,
                   incs, atomicSem, guestVars>>

(* Semaphore action, first step: a 16-byte report writes 0 at address + 4 *)
(* and GetGpuTimeTicks() at address + 8 before anything else.            *)
SemTimestamp(c) ==
    /\ Running(c, "Begin") /\ Method(c).op = "SemAction"
    /\ IF Method(c).size16
       THEN /\ ticks' = ticks + 1
            /\ sem' = [sem EXCEPT !.ts = ticks + 1]
            /\ lastTs' = [lastTs EXCEPT ![c] = ticks + 1]
       ELSE UNCHANGED <<ticks, sem, lastTs>>
    /\ step' = [step EXCEPT ![c] = "Operation"]
    /\ UNCHANGED <<pc, syncPayload, semPayload, origVal, recorded, executed, syncpt,
                   incs, atomicSem, guestVars>>

(* Semaphore action, second step, by operation: Release writes the        *)
(* payload register to memory; Reduction reads origVal; any other         *)
(* operation is only logged as unimplemented.                             *)
SemOperation(c) ==
    /\ Running(c, "Operation")
    /\ LET m == Method(c) IN
       CASE m.operation = "Release" ->
              /\ sem' = [sem EXCEPT !.payload = semPayload[c],
                                    !.payloadTs = IF m.size16 THEN lastTs[c] ELSE 0]
              /\ atomicSem' = semPayload[c]
              /\ Advance(c)
              /\ UNCHANGED origVal
         [] m.operation = "Reduction" ->
              /\ origVal' = [origVal EXCEPT ![c] = sem.payload]
              /\ step' = [step EXCEPT ![c] = "Reduce"]
              /\ UNCHANGED <<pc, sem, atomicSem>>
         [] OTHER ->
              /\ Advance(c)
              /\ UNCHANGED <<origVal, sem, atomicSem>>
    /\ UNCHANGED <<syncPayload, semPayload, lastTs, recorded, executed, syncpt, ticks,
                   incs, guestVars>>

(* Reduction, last step: write Reduce(origVal, payload) back.             *)
SemReduce(c) ==
    /\ Running(c, "Reduce")
    /\ LET m == Method(c) IN
       /\ sem' = [sem EXCEPT !.payload = Reduce(m.reduction, origVal[c], semPayload[c], m.signed),
                             !.payloadTs = 0]
       /\ atomicSem' = Reduce(m.reduction, atomicSem, semPayload[c], m.signed)
    /\ Advance(c)
    /\ UNCHANGED <<syncPayload, semPayload, origVal, lastTs, recorded, executed, syncpt,
                   ticks, incs, guestVars>>

(* The guest polls the semaphore: the payload, then the timestamp.         *)
GuestReadPayload ==
    /\ guestPc = "ReadPayload"
    /\ guestTick' = sem.payloadTs /\ guestPc' = "ReadTimestamp"
    /\ UNCHANGED <<chanVars, guestTs>>

GuestReadTimestamp ==
    /\ guestPc = "ReadTimestamp"
    /\ guestTs' = sem.ts /\ guestPc' = "ReadPayload"
    /\ UNCHANGED <<chanVars, guestTick>>

Channel(c) ==
    \/ SetRegister(c) \/ SyncIncrExecute(c) \/ SyncIncrement(c) \/ SyncWait(c)
    \/ SemTimestamp(c) \/ SemOperation(c) \/ SemReduce(c)

Next == (\E c \in Channels : Channel(c)) \/ GuestReadPayload \/ GuestReadTimestamp

(* Each channel's GPFIFO thread is scheduled by the OS, and a syncpoint   *)
(* wait, once its threshold is reached, stays satisfiable: the value only *)
(* grows.  The guest's polling is not assumed to go on.                   *)
Spec == Init /\ [][Next]_vars /\ \A c \in Channels : WF_vars(Channel(c))

-----------------------------------------------------------------------------
TypeOK ==
    /\ pc \in [Channels -> Nat] /\ sem.payload \in Word /\ atomicSem \in Word
    /\ syncPayload \in [Channels -> Word] /\ semPayload \in [Channels -> Word]
    /\ origVal \in [Channels -> Word] /\ syncpt \in [SyncpointIds -> Nat]
    /\ step \in [Channels -> {"Begin", "Increment", "Operation", "Reduce"}]

(* The reference reductions of the PBDMA manual (SEMAPHORED_REDUCTION):   *)
(* signed operands compare as two's complement (flip the sign bit and     *)
(* compare), add is modulo 2^32 whatever the format, and INC/DEC wrap at  *)
(* the payload.                                                           *)
SignFlip(x) == (x + WordMod \div 2) % WordMod
ManualReduce(r, o, p, s) ==
    LET below == IF s THEN SignFlip(o) < SignFlip(p) ELSE o < p
    IN CASE r = "Min" -> IF below THEN o ELSE p
         [] r = "Max" -> IF below THEN p ELSE o
         [] r = "Add" -> (o + p) % WordMod
         [] r = "Inc" -> IF o >= p THEN 0 ELSE (o + 1) % WordMod
         [] r = "Dec" -> IF o = 0 \/ o > p THEN p ELSE o - 1
         [] OTHER -> Reduce(r, o, p, s)

(* A channel about to write a reduction back computes what the hardware  *)
(* computes for that reduction and format, whatever the value in memory   *)
(* and the payload register hold.                                          *)
ReductionMatchesManual ==
    \A c \in Channels :
        step[c] = "Reduce" =>
            LET m == Method(c) IN
            \A o, p \in Word :
                Reduce(m.reduction, o, p, m.signed) = ManualReduce(m.reduction, o, p, m.signed)

(* A guest that sees a 16-byte report's payload and then reads the        *)
(* timestamp gets that report's timestamp or a later one: the comment     *)
(* "Write timestamp first to ensure ordering".                            *)
TimestampBeforePayload ==
    guestPc = "ReadPayload" => guestTs >= guestTick

(* Whoever sees a syncpoint value sees the work behind it submitted: when *)
(* a channel has made k increments, the command executor has submitted    *)
(* every draw the channel recorded before its k-th SyncIncr.              *)
SyncpointAfterWork ==
    \A c \in Channels :
        incs[c] > 0 => executed[c] >= DrawsBefore(c, NthIncr(c, incs[c], 1))

(* Every channel's pushbuffer is eventually fully processed.              *)
ChannelsDrain == <>(\A c \in Channels : pc[c] > Len(Programs[c]))

(* A reduction acts on the semaphore atomically, as the hardware's do:    *)
(* the value in memory is what the reductions and releases give applied  *)
(* one at a time.                                                         *)
ReductionsAtomic == sem.payload = atomicSem
=============================================================================
