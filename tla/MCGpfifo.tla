------------------------------ MODULE MCGpfifo ------------------------------
(***************************************************************************)
(* Two channels and one syncpoint.  Channel 1 draws, signals the syncpoint *)
(* and then releases a 16-byte semaphore report and applies unsigned Add,  *)
(* signed Add, Inc and Dec to it (sums wrap a 3-bit word).  Channel 2      *)
(* waits for the syncpoint, draws, applies a signed Max reduction to the   *)
(* same semaphore, issues an unimplemented Acquire and signals the         *)
(* syncpoint.  Channel 2's reduction is ordered after channel 1's Incr but *)
(* not after channel 1's semaphore methods.                                *)
(***************************************************************************)
EXTENDS Gpfifo

Draw == [op |-> "Draw"]
SetSync(v) == [op |-> "SyncPayload", val |-> v]
SetSem(v) == [op |-> "SemPayload", val |-> v]
Incr(id) == [op |-> "SyncIncr", id |-> id]
Wait(id) == [op |-> "SyncWait", id |-> id]
Release16 == [op |-> "SemAction", operation |-> "Release", size16 |-> TRUE]
Reduction(r, s, big) ==
    [op |-> "SemAction", operation |-> "Reduction", reduction |-> r, signed |-> s, size16 |-> big]
Acquire == [op |-> "SemAction", operation |-> "Acquire", size16 |-> FALSE]

MCPrograms ==
    [c \in {1, 2} |->
        IF c = 1
        THEN << Draw, Incr("sp"), SetSem(5), Release16, SetSem(6),
                Reduction("Add", FALSE, TRUE), Reduction("Add", TRUE, FALSE),
                Reduction("Inc", FALSE, FALSE), Reduction("Dec", FALSE, FALSE) >>
        ELSE << SetSync(1), Wait("sp"), Draw, SetSem(3),
                Reduction("Max", TRUE, FALSE), Acquire, Incr("sp") >>]
=============================================================================
