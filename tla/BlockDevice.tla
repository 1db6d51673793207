---------------------------- MODULE BlockDevice ----------------------------
(***************************************************************************)
(* Block device files (aether-fs block.rs), the partitions they may be on  *)
(* (aether-drivers partition.rs), the NVMe namespace under them and the    *)
(* ext file system's reads and writes (ext/io.rs), which go through the    *)
(* device of such a file.                                                  *)
(*                                                                         *)
(* Whole blocks go straight to the device.  A part of a block is read,     *)
(* changed and written back in the one transfer buffer of the file, which  *)
(* the call keeps until it returns.  A disk and its partitions are files   *)
(* of their own, with a buffer each.  A block is two units.                *)
(***************************************************************************)
EXTENDS Integers, FiniteSets

CONSTANTS
    BlkThread,
    BlkFile,      \* block device files
    Extents,      \* first block and number of blocks of each, on the disk
    DiskBlocks,
    MaxBlkCalls,  \* bound
    NoLease

BlkUnit == 2
Units == 0..(BlkUnit * DiskBlocks - 1)

ASSUME BlockAssumption ==
    /\ Extents \in [BlkFile -> [first : 0..DiskBlocks, count : 0..DiskBlocks]]
    /\ \A f \in BlkFile : Extents[f].first + Extents[f].count <= DiskBlocks
    /\ DiskBlocks \in Nat /\ NoLease \notin BlkThread

VARIABLES
    disk,       \* the value of each unit
    lease,      \* per file, the call that has its transfer buffer
    blkCall, blkCalls,
    written,    \* history: the last value written to each unit
    excused     \* history: units of a block that another file's call, or one
                \* without a buffer, wrote between a call's read and write
blkVars == <<disk, lease, blkCall, blkCalls, written, excused>>

BlkIdle == [at |-> "idle"]
BlkInit ==
    /\ disk = [u \in Units |-> 0]
    /\ lease = [f \in BlkFile |-> NoLease]
    /\ blkCall = [t \in BlkThread |-> BlkIdle] /\ blkCalls = 0
    /\ written = disk /\ excused = {}

BlkGo(t, call) == blkCall' = [blkCall EXCEPT ![t] = call]
Capacity(f) == BlkUnit * Extents[f].count
\* The call returns, and its buffer goes back to the pool.
BlkDone(t) ==
    /\ BlkGo(t, BlkIdle)
    /\ lease' = [f \in BlkFile |-> IF lease[f] = t THEN NoLease ELSE lease[f]]

\* A call for the units pos to end - 1; the four functions loop over them alike.
BlkStart(t, op, f, pos, end) ==
    /\ blkCalls' = blkCalls + 1
    /\ pos < end /\ pos < Capacity(f)
    /\ BlkGo(t, [at |-> op, op |-> op, file |-> f, pos |-> pos, value |-> blkCalls + 1, end |-> end])
    /\ UNCHANGED <<disk, lease, written, excused>>
\* BlockDeviceFile::read and write stop at the end of the device,
Clipped(f, end) == IF end > Capacity(f) THEN Capacity(f) ELSE end
BlkRead(t, f, pos, end) == BlkStart(t, "read", f, pos, Clipped(f, end))
BlkWrite(t, f, pos, end) == BlkStart(t, "write", f, pos, Clipped(f, end))
\* read_exact and write_exact of the ext file system refuse to go past it.
ReadExact(t, f, pos, end) == end <= Capacity(f) /\ BlkStart(t, "read", f, pos, end)
WriteExact(t, f, pos, end) == end <= Capacity(f) /\ BlkStart(t, "write", f, pos, end)

\* Where a unit of a file is on the disk: a partition adds its first_lba.
OnDisk(f, u) == BlkUnit * Extents[f].first + u
Changing(call, end) == {OnDisk(call.file, u) : u \in call.pos..(end - 1)}
\* Written to the disk, and by which call
Stored(t, units, value) ==
    LET behind == {u \in Units : \E o \in BlkThread \ {t} :
                     /\ blkCall[o].at = "modify" /\ u \in units
                     /\ u \div BlkUnit = OnDisk(blkCall[o].file, blkCall[o].pos) \div BlkUnit
                     /\ lease[blkCall[t].file] # t \/ blkCall[o].file # blkCall[t].file}
    IN  /\ written' = [u \in Units |-> IF u \in units THEN value ELSE written[u]]
        /\ excused' = (excused \ units) \cup behind

\* What is left in whole blocks is done directly, with or without a buffer;
\* max_transfer_bytes splits it.
Whole(call) == IF call.pos % BlkUnit = 0 THEN (call.end - call.pos) \div BlkUnit ELSE 0
Direct(t) ==
    /\ blkCall[t].at \in {"read", "write"} /\ Whole(blkCall[t]) > 0
    /\ \E n \in 1..Whole(blkCall[t]) :
         LET call == blkCall[t]
             next == call.pos + n * BlkUnit
             units == Changing(call, next)
         IN  /\ IF call.at = "write"
                THEN /\ disk' = [u \in Units |-> IF u \in units THEN call.value ELSE disk[u]]
                     /\ Stored(t, units, call.value)
                ELSE UNCHANGED <<disk, written, excused>>
             /\ IF next = call.end THEN BlkDone(t)
                ELSE BlkGo(t, [call EXCEPT !.pos = next]) /\ UNCHANGED lease
    /\ UNCHANGED blkCalls

\* TransferBufferPool::acquire: spins until the buffer is there
\* Mutant of Acquirable: the buffer is shared.
AcquirableAlways(t, f) == TRUE
Acquirable(t, f) == lease[f] \in {NoLease, t}
\* The block of a part, read into the buffer; a read ends there,
Prepare(t) ==
    /\ blkCall[t].at \in {"read", "write"} /\ Whole(blkCall[t]) = 0
    /\ Acquirable(t, blkCall[t].file)
    /\ LET call == blkCall[t]
           block == call.pos \div BlkUnit
           next == IF call.end < BlkUnit * (block + 1) THEN call.end ELSE BlkUnit * (block + 1)
           first == OnDisk(call.file, BlkUnit * block)
       IN  IF call.at = "write"
           THEN /\ BlkGo(t, [at |-> "modify", op |-> call.op, file |-> call.file, pos |-> call.pos,
                             end |-> call.end, value |-> call.value, next |-> next,
                             was |-> [k \in 0..(BlkUnit - 1) |-> disk[first + k]]])
                /\ lease' = [lease EXCEPT ![call.file] = t]
           ELSE IF next = call.end THEN BlkDone(t)
           ELSE /\ BlkGo(t, [call EXCEPT !.pos = next])
                /\ lease' = [lease EXCEPT ![call.file] = t]
    /\ UNCHANGED <<disk, blkCalls, written, excused>>
\* and changed and written back.
Modify(t) ==
    /\ blkCall[t].at = "modify"
    /\ LET call == blkCall[t]
           units == Changing(call, call.next)
           first == OnDisk(call.file, BlkUnit * (call.pos \div BlkUnit))
       IN  /\ disk' = [u \in Units |-> IF u \in units THEN call.value
                                       ELSE IF u - first \in 0..(BlkUnit - 1) THEN call.was[u - first]
                                       ELSE disk[u]]
           /\ Stored(t, units, call.value)
           /\ IF call.next = call.end THEN BlkDone(t)
              ELSE /\ BlkGo(t, [at |-> "write", op |-> call.op, file |-> call.file, pos |-> call.next,
                                end |-> call.end, value |-> call.value])
                   /\ UNCHANGED lease
    /\ UNCHANGED blkCalls

\* The device fails: the call returns with what it has done.
BlkFail(t) ==
    /\ blkCall[t].at # "idle"
    /\ BlkDone(t)
    /\ UNCHANGED <<disk, blkCalls, written, excused>>

BlkNext == \E t \in BlkThread :
    \/ /\ blkCall[t] = BlkIdle /\ blkCalls < MaxBlkCalls
       /\ \E f \in BlkFile, pos, end \in 0..(BlkUnit * DiskBlocks) :
            \/ BlkRead(t, f, pos, end) \/ BlkWrite(t, f, pos, end)
            \/ ReadExact(t, f, pos, end) \/ WriteExact(t, f, pos, end)
    \/ Direct(t) \/ Prepare(t) \/ Modify(t) \/ BlkFail(t)
BlkSpec == BlkInit /\ [][BlkNext]_blkVars

---------------------------------------------------------------------------
(* What a write stored stays until another write of the same bytes: a call *)
(* that changes a part of a block does not undo what others write to the   *)
(* rest of it, unless the other came through another file of the same disk *)
(* or wrote whole blocks, neither of which the transfer buffer holds off.  *)
BlockWritesKept == \A u \in Units : disk[u] = written[u] \/ u \in excused
=============================================================================
