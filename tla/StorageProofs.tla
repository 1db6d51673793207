--------------------------- MODULE StorageProofs ---------------------------
(***************************************************************************)
(* Proofs about what storage keeps: memory files (Memfd), block device     *)
(* files (BlockDevice), the page cache (PageCache) and shared memory       *)
(* (SysvShm), and what is read and written through open files (FileIo),    *)
(* for any threads, sizes, files, partitions, frames and address spaces.   *)
(***************************************************************************)
EXTENDS Memfd, BlockDevice, PageCache, SysvShm, FileIo, Inotify, TLAPS, SequenceTheorems, FiniteSetTheorems,
        WellFoundedInduction

---------------------------------------------------------------------------
(* Memory files                                                            *)

MfEnd == MfUnit * MfPages
MfCallOf == [at : {"check", "lock", "apply"}, op : {"write", "truncate", "fallocate", "keep"},
             pos : 0..MfEnd, end : 0..MfEnd]
MfTypeOK ==
    /\ mfSize \in 0..MfEnd
    /\ DOMAIN mfData = MfUnits
    /\ mfCall \in [MfThread -> {MfIdle} \cup MfCallOf]

(* MfIdle is not in the middle of a change of the file.                    *)
LEMMA MfCallForms ==
    ASSUME NEW call \in {MfIdle} \cup MfCallOf, call.at # "idle"
    PROVE  call \in MfCallOf
  BY DEF MfIdle

(* The size, the contents and the calls of a memory file keep their types. *)
LEMMA MfTyping == MfSpec => []MfTypeOK
<1>1. MfInit => MfTypeOK
  BY MemfdAssumption DEF MfInit, MfTypeOK, MfEnd, MfUnit
<1>2. MfTypeOK /\ [MfNext]_mfVars => MfTypeOK'
  <2> SUFFICES ASSUME MfTypeOK, [MfNext]_mfVars PROVE MfTypeOK'
    OBVIOUS
  <2> USE MemfdAssumption
  <2>1. CASE UNCHANGED mfVars
    BY <2>1 DEF mfVars, MfTypeOK
  <2>2. ASSUME NEW t \in MfThread, NEW at \in {"check", "lock"},
               NEW op \in {"write", "truncate", "fallocate", "keep"},
               NEW pos \in 0..MfEnd, NEW end \in 0..MfEnd, MfChange(t, at, op, pos, end)
        PROVE  MfTypeOK'
    BY <2>2 DEF MfCallOf, MfChange, MfGo, MfSame, MfTypeOK
  <2>3. MfUnits \cup {MfUnit * MfPages} \subseteq 0..MfEnd
    BY DEF MfUnits, MfEnd, MfUnit
  <2>4. ASSUME NEW t \in MfThread, NEW pos \in 0..MfEnd, NEW end \in 0..MfEnd,
               \/ MfWrite(t, pos, end) \/ Fallocate(t, pos, end, "fallocate")
               \/ Fallocate(t, pos, end, "keep")
        PROVE  MfTypeOK'
    BY <2>2, <2>4 DEF MfWrite, Fallocate
  <2>5. ASSUME NEW t \in MfThread, NEW end \in 0..MfEnd, Ftruncate(t, end)
        PROVE  MfTypeOK'
    BY <2>2, <2>5 DEF MfEnd, MfUnit, Ftruncate
  <2>6. ASSUME NEW t \in MfThread, MfCheckWrite(t) PROVE MfTypeOK'
    BY <2>6, MfCallForms DEF MfCheckWrite, MfTypeOK, MfCallOf, MfReturn, MfGo, MfSame
  <2>7. ASSUME NEW t \in MfThread, MfLock(t) PROVE MfTypeOK'
    BY <2>7, MfCallForms DEF MfLock, MfTypeOK, MfCallOf, MfGo, MfSame
  <2>8. ASSUME NEW t \in MfThread, MfApply(t) PROVE MfTypeOK'
    BY <2>8, MfCallForms DEF MfApply, MfTypeOK, MfCallOf, Zeroed, MfReturn, MfGo
  <2>9. ASSUME NEW t \in MfThread, NEW seals, MfAddSeals(t, seals) PROVE MfTypeOK'
    BY <2>9 DEF MfAddSeals, MfTypeOK
  <2>10. ASSUME NEW t \in MfThread, NEW first, NEW count, MfMap(t, first, count) PROVE MfTypeOK'
    BY <2>10 DEF MfMap, MfTypeOK
  <2>11. ASSUME NEW u \in MfUnits, MfStore(u) PROVE MfTypeOK'
    BY <2>11 DEF MfStore, MfTypeOK
  <2> QED BY <2>1, <2>3, <2>4, <2>5, <2>6, <2>7, <2>8, <2>9, <2>10, <2>11 DEF MfNext
<1> QED BY <1>1, <1>2, PTL DEF MfSpec

(* Only MfApply changes the size.                                          *)
LEMMA SizeChange ==
    ASSUME [MfNext]_mfVars, mfSize' # mfSize
    PROVE  \E t \in MfThread : MfApply(t)
  BY DEF MfNext, mfVars, MfWrite, Ftruncate, Fallocate, MfChange, MfSame, MfCheckWrite, MfLock,
         MfAddSeals, MfMap, MfStore

(* Whatever makes a memory file longer shows zeroes: write fills the gap,  *)
(* ftruncate and fallocate what they add.                                  *)
LEMMA GrowthStep == MfTypeOK /\ [MfNext]_mfVars => GrowthReadsZero
<1> SUFFICES ASSUME MfTypeOK, [MfNext]_mfVars, NEW u \in MfUnits, mfSize <= u, u < mfSize'
             PROVE  \/ mfData'[u] = 0
                    \/ \E t \in MfThread : /\ mfCall[t].at = "apply" /\ mfCall[t].op = "write"
                                           /\ mfCall[t].pos <= u /\ u < mfCall[t].end
  BY DEF GrowthReadsZero
<1>0. u \in Int /\ mfSize \in Int /\ mfSize' # mfSize
  BY MemfdAssumption DEF MfTypeOK, MfUnits, MfUnit, MfEnd
<1>1. PICK t \in MfThread : MfApply(t)
  BY SizeChange, <1>0
<1> DEFINE call == mfCall[t]
<1>2. call \in MfCallOf /\ call.at = "apply"
  BY <1>1, MfCallForms DEF MfApply, MfTypeOK
<1>3. /\ call.pos \in Int /\ call.end \in Int
      /\ call.op \in {"write", "truncate", "fallocate", "keep"}
  BY <1>2, MemfdAssumption DEF MfCallOf, MfEnd, MfUnit
<1>4. /\ mfData' = Zeroed(call)
      /\ mfSize' = CASE call.op = "truncate" -> call.end
                     [] call.op = "keep" -> mfSize
                     [] OTHER -> IF call.end > mfSize THEN call.end ELSE mfSize
  BY <1>0, <1>1 DEF MfApply
<1>5. mfData'[u] = CASE call.op = "write" /\ call.pos <= u /\ u < call.end -> Written
                     [] call.op = "write" /\ mfSize <= u /\ u < call.pos -> 0
                     [] call.op = "truncate" /\ (mfSize <= u) # (call.end <= u) -> 0
                     [] call.op = "fallocate" /\ mfSize <= u /\ u < call.end -> 0
                     [] OTHER -> mfData[u]
  BY <1>4 DEF Zeroed
<1> HIDE DEF call
<1>6. CASE call.op = "write"
  BY <1>6, <1>4, <1>0, <1>3, <1>2, <1>5 DEF call
<1>7. CASE call.op = "truncate"
  BY <1>7, <1>4, <1>0, <1>3, <1>5
<1>8. CASE call.op = "fallocate"
  BY <1>8, <1>4, <1>5, <1>0, <1>3
<1>9. CASE call.op = "keep"
  BY <1>9, <1>4, <1>0
<1> QED BY <1>3, <1>6, <1>7, <1>8, <1>9

SettledCall(call) ==
    /\ call.at \in {"lock", "apply"} => call.op # "write"
    /\ call.at = "apply" => /\ call.end <= mfSize
                            /\ call.op = "truncate" => call.end = mfSize
AllSealed == {"grow", "shrink", "write"} \subseteq mfSeals

(* A step that leaves the size alone, takes no seal away and moves only to *)
(* calls that change nothing leaves the file settled.                      *)
LEMMA SettledKept ==
    ASSUME MfTypeOK, Settled, mfSize' = mfSize, mfSeals \subseteq mfSeals',
           NEW t \in MfThread, NEW call, MfGo(t, call), SettledCall(call)
    PROVE  Settled'
  BY DEF Settled, SettledCall, MfGo, MfTypeOK

(* Once a file is sealed against growing, shrinking and writing and the    *)
(* calls past their checks have ended, its size stays and its contents     *)
(* change only under a mapping: every later call meets a seal.             *)
LEMMA SealStep == MfTypeOK /\ [MfNext]_mfVars => SealsHold
<1> SUFFICES ASSUME MfTypeOK, [MfNext]_mfVars, Settled
             PROVE  /\ Settled' /\ mfSize' = mfSize
                    /\ \A u \in MfUnits : mfData'[u] # mfData[u] => u \div MfUnit \in mfMapped
  BY DEF SealsHold
<1> USE DEF MfSame
<1>0. AllSealed /\ SettledCall(MfIdle) /\ \A o \in MfThread : SettledCall(mfCall[o])
  BY DEF Settled, AllSealed, SettledCall, MfIdle
<1>1. CASE UNCHANGED mfVars
  BY <1>1 DEF mfVars, Settled
<1>2. ASSUME NEW t \in MfThread, NEW at, NEW op, NEW pos, NEW end, MfChange(t, at, op, pos, end),
             at = "check" \/ (at = "lock" /\ op # "write")
      PROVE  Settled' /\ mfSize' = mfSize /\ mfData' = mfData
  BY <1>2, SettledKept DEF SettledCall, MfChange
<1>3. ASSUME NEW t \in MfThread, MfCheckWrite(t)
      PROVE  Settled' /\ mfSize' = mfSize /\ mfData' = mfData
  BY <1>0, <1>3, SettledKept DEF MfCheckWrite, MfReturn, AllSealed
<1>4. ASSUME NEW t \in MfThread, MfLock(t)
      PROVE  Settled' /\ mfSize' = mfSize /\ mfData' = mfData
  <2>1. mfCall[t] \in MfCallOf
    BY <1>4, MfCallForms DEF MfLock, MfTypeOK
  <2>2. mfCall[t].op # "write"
    BY <1>0, <1>4 DEF MfLock, SettledCall
  <2>3. CASE Allowed(mfCall[t])
    <3> DEFINE next == [mfCall[t] EXCEPT !.at = "apply"]
    <3>1. next.at = "apply" /\ next.op = mfCall[t].op /\ next.end = mfCall[t].end
      BY <2>1 DEF MfCallOf
    <3>2. ~(mfCall[t].end > mfSize) /\ (mfCall[t].op = "truncate" => ~(mfCall[t].end < mfSize))
      BY <1>0, <2>3 DEF Allowed, AllSealed
    <3>3. mfCall[t].end \in Int /\ mfSize \in Int
      BY <2>1, MemfdAssumption DEF MfCallOf, MfTypeOK, MfEnd, MfUnit
    <3>4. SettledCall(next)
      BY <2>2, <3>1, <3>2, <3>3 DEF SettledCall
    <3> QED BY <1>4, <2>3, <3>4, SettledKept DEF MfLock
  <2>4. CASE ~Allowed(mfCall[t])
    BY <1>0, <1>4, <2>4, SettledKept DEF MfLock
  <2> QED BY <2>3, <2>4
<1>5. ASSUME NEW t \in MfThread, MfApply(t)
      PROVE  Settled' /\ mfSize' = mfSize /\ \A u \in MfUnits : mfData'[u] = mfData[u]
  <2> DEFINE call == mfCall[t]
  <2>1. call \in MfCallOf /\ call.at = "apply"
    BY <1>5, MfCallForms DEF MfApply, MfTypeOK
  <2>2. call.op # "write" /\ call.end <= mfSize /\ (call.op = "truncate" => call.end = mfSize)
    BY <1>0, <2>1 DEF SettledCall
  <2>3. call.end \in Int /\ mfSize \in Int /\ MfUnits \subseteq Int
    BY <2>1, MemfdAssumption DEF MfCallOf, MfTypeOK, MfEnd, MfUnit, MfUnits
  <2>4. Zeroed(call) = [u \in MfUnits |-> mfData[u]]
    BY <2>2, <2>3 DEF Zeroed
  <2>5. mfSize' = mfSize
    BY <1>5, <2>2, <2>3 DEF MfApply
  <2>6. \A u \in MfUnits : mfData'[u] = mfData[u]
    BY <1>5, <2>4 DEF MfApply
  <2>7. Settled'
    BY <1>0, <1>5, <2>5, SettledKept DEF MfApply, MfReturn
  <2> QED BY <2>5, <2>6, <2>7
<1>6. ASSUME NEW t \in MfThread, NEW seals, MfAddSeals(t, seals)
      PROVE  Settled' /\ mfSize' = mfSize /\ mfData' = mfData
  BY <1>6 DEF MfAddSeals, Settled
<1>7. ASSUME NEW t \in MfThread, NEW first, NEW count, MfMap(t, first, count)
      PROVE  Settled' /\ mfSize' = mfSize /\ mfData' = mfData
  BY <1>7 DEF MfMap, Settled
<1>8. ASSUME NEW u \in MfUnits, MfStore(u)
      PROVE  /\ Settled' /\ mfSize' = mfSize
             /\ \A v \in MfUnits : mfData'[v] # mfData[v] => v \div MfUnit \in mfMapped
  BY <1>8 DEF MfStore, Settled, MfTypeOK
<1>9. ASSUME NEW t \in MfThread, NEW pos, NEW end,
             \/ MfWrite(t, pos, end) \/ Fallocate(t, pos, end, "fallocate")
             \/ Fallocate(t, pos, end, "keep") \/ Ftruncate(t, end)
      PROVE  Settled' /\ mfSize' = mfSize /\ mfData' = mfData
  BY <1>2, <1>9 DEF MfWrite, Fallocate, Ftruncate
<1>10. ASSUME NEW t \in MfThread,
              \/ \E pos, end \in MfUnits \cup {MfUnit * MfPages} :
                   MfWrite(t, pos, end) \/ Fallocate(t, pos, end, "fallocate") \/ Fallocate(t, pos, end, "keep")
              \/ \E end \in MfUnits \cup {MfUnit * MfPages} : Ftruncate(t, end)
              \/ MfCheckWrite(t) \/ MfLock(t)
              \/ \E seals \in SealSets : MfAddSeals(t, seals)
              \/ \E first \in 0..(MfPages - 1), count \in 1..MfPages : MfMap(t, first, count)
       PROVE  Settled' /\ mfSize' = mfSize /\ mfData' = mfData
  BY <1>3, <1>4, <1>6, <1>7, <1>9, <1>10
<1>11. CASE \E t \in MfThread : MfApply(t)
  BY <1>5, <1>11
<1>12. CASE \E u \in MfUnits : MfStore(u)
  BY <1>8, <1>12
<1>13. CASE \E t \in MfThread :
              \/ \E pos, end \in MfUnits \cup {MfUnit * MfPages} :
                   MfWrite(t, pos, end) \/ Fallocate(t, pos, end, "fallocate") \/ Fallocate(t, pos, end, "keep")
              \/ \E end \in MfUnits \cup {MfUnit * MfPages} : Ftruncate(t, end)
              \/ MfCheckWrite(t) \/ MfLock(t)
              \/ \E seals \in SealSets : MfAddSeals(t, seals)
              \/ \E first \in 0..(MfPages - 1), count \in 1..MfPages : MfMap(t, first, count)
  BY <1>10, <1>13
<1> QED BY <1>1, <1>11, <1>12, <1>13 DEF MfNext

(* What a longer memory file shows is zero, and a sealed one holds still   *)
(* (node.rs, SharedMemoryFile): for any number of threads and pages, with  *)
(* the seals read outside the lock and stores through mappings under way.  *)
THEOREM MemfdHolds == MfSpec => MemfdSound
<1>1. MfTypeOK /\ [MfNext]_mfVars => GrowthReadsZero /\ SealsHold
  BY GrowthStep, SealStep
<1> QED BY <1>1, MfTyping, PTL DEF MfSpec, MemfdSound

---------------------------------------------------------------------------
(* Block devices                                                           *)

Span == [at : {"read", "write"}, op : {"read", "write"}, file : BlkFile,
         pos : Nat, value : Nat, end : Nat]
Buffered == [at : {"modify"}, op : {"read", "write"}, file : BlkFile, pos : Nat, end : Nat,
             value : Nat, next : Nat, was : [0..(BlkUnit - 1) -> Nat]]
\* A call stays inside its file; a part of a block ends within that block.
InFile(call) ==
    /\ call.pos < call.end /\ call.end <= Capacity(call.file)
    /\ call.at = "modify" => call.pos < call.next /\ call.next <= call.end
BlkTypeOK ==
    /\ disk \in [Units -> Nat] /\ written \in [Units -> Nat] /\ blkCalls \in Nat
    /\ lease \in [BlkFile -> BlkThread \cup {NoLease}]
    /\ blkCall \in [BlkThread -> {BlkIdle} \cup Span \cup Buffered]
    /\ \A t \in BlkThread : blkCall[t] # BlkIdle => InFile(blkCall[t])

\* The block a call has in its buffer
FirstUnit(call) == OnDisk(call.file, BlkUnit * (call.pos \div BlkUnit))
\* A call that changes a part of a block has the buffer of its file,
BufferHeld == \A t \in BlkThread : blkCall[t].at = "modify" => lease[blkCall[t].file] = t
\* and what it read is still what was written, but for what it may undo.
BufferFresh ==
    \A t \in BlkThread : blkCall[t].at = "modify" =>
        \A k \in 0..(BlkUnit - 1) :
            \/ blkCall[t].was[k] = written[FirstUnit(blkCall[t]) + k]
            \/ FirstUnit(blkCall[t]) + k \in excused
BlkInv == BlkTypeOK /\ BufferHeld /\ BufferFresh /\ BlockWritesKept

(* What the record of a call holds, by what the call is at.                *)
LEMMA BlkCallForms ==
    ASSUME NEW call \in {BlkIdle} \cup Span \cup Buffered
    PROVE  /\ call.at \in {"read", "write"} => call \in Span
           /\ call.at = "modify" => call \in Buffered
           /\ call.at = "idle" <=> call = BlkIdle
  BY DEF BlkIdle, Span, Buffered

\* A call returns or goes on with the rest, without a block in the buffer.
Steps(t, call) ==
    /\ BlkGo(t, call)
    /\ call \in {BlkIdle} \cup Span
    /\ call # BlkIdle => InFile(call)
\* No other call loses its buffer.
OthersKeep(t) ==
    /\ lease' \in [BlkFile -> BlkThread \cup {NoLease}]
    /\ \A f \in BlkFile : lease'[f] = lease[f] \/ lease[f] \in {NoLease, t}

(* The types and the buffers after such a step.                            *)
LEMMA BlkSteps ==
    ASSUME BlkTypeOK, BufferHeld, NEW t \in BlkThread, NEW call, Steps(t, call), OthersKeep(t)
    PROVE  /\ blkCall' \in [BlkThread -> {BlkIdle} \cup Span \cup Buffered]
           /\ \A o \in BlkThread : blkCall'[o] # BlkIdle => InFile(blkCall'[o])
           /\ \A o \in BlkThread : blkCall'[o].at = "modify" => o # t /\ blkCall'[o] = blkCall[o]
           /\ BufferHeld'
<1>1. \A o \in BlkThread : blkCall'[o] = IF o = t THEN call ELSE blkCall[o]
  BY DEF Steps, BlkGo, BlkTypeOK
<1>2. blkCall' \in [BlkThread -> {BlkIdle} \cup Span \cup Buffered]
  BY DEF Steps, BlkGo, BlkTypeOK
<1>3. \A o \in BlkThread : blkCall'[o] # BlkIdle => InFile(blkCall'[o])
  BY <1>1 DEF Steps, BlkTypeOK
<1>4. call.at # "modify"
  BY DEF Steps, BlkIdle, Span
<1>5. \A o \in BlkThread : blkCall'[o].at = "modify" => o # t /\ blkCall'[o] = blkCall[o]
  BY <1>1, <1>4
<1>6. ASSUME NEW o \in BlkThread, blkCall'[o].at = "modify"
      PROVE  lease'[blkCall'[o].file] = o
  BY <1>5, <1>6, BlkCallForms, BlockAssumption DEF BufferHeld, BlkTypeOK, Buffered, OthersKeep
<1> QED BY <1>2, <1>3, <1>5, <1>6 DEF BufferHeld

(* A step that writes nothing.                                             *)
LEMMA BlkReads ==
    ASSUME BlkInv, NEW t \in BlkThread, NEW call, Steps(t, call), OthersKeep(t),
           UNCHANGED <<disk, written, excused>>, blkCalls' \in Nat
    PROVE  BlkInv'
  BY BlkSteps DEF BlkInv, BlkTypeOK, OthersKeep, InFile, BufferFresh, FirstUnit, OnDisk, BlockWritesKept

(* The units of the block in a call's buffer are units of the disk, of one *)
(* block.                                                                  *)
LEMMA BlockOf ==
    ASSUME NEW call, call.file \in BlkFile, call.pos \in Nat, call.pos < Capacity(call.file),
           NEW k \in 0..(BlkUnit - 1)
    PROVE  /\ FirstUnit(call) + k \in Units /\ FirstUnit(call) \in Int
           /\ (FirstUnit(call) + k) \div BlkUnit = OnDisk(call.file, call.pos) \div BlkUnit
<1> DEFINE first == Extents[call.file].first
           count == Extents[call.file].count
<1>1. first \in 0..DiskBlocks /\ count \in 0..DiskBlocks /\ first + count <= DiskBlocks
  BY BlockAssumption
<1>2. first \in Int /\ count \in Int /\ 0 <= first /\ DiskBlocks \in Int
  BY <1>1, BlockAssumption
<1> HIDE DEF first, count
<1>3. call.pos < 2 * count
  BY DEF Capacity, BlkUnit, count
<1>4. FirstUnit(call) = 2 * first + 2 * (call.pos \div 2)
  BY DEF FirstUnit, OnDisk, BlkUnit, first
<1>5. OnDisk(call.file, call.pos) = 2 * first + call.pos
  BY DEF OnDisk, BlkUnit, first
<1>6. k \in {0, 1}
  BY DEF BlkUnit
<1> QED BY <1>1, <1>2, <1>3, <1>4, <1>5, <1>6 DEF Units, BlkUnit

(* A step that stores units: another call that has one of their blocks in  *)
(* its buffer has the buffer of another file, or this one has none.        *)
LEMMA BlkStores ==
    ASSUME BlkInv, NEW t \in BlkThread, NEW call, Steps(t, call), OthersKeep(t),
           blkCall[t].at \in {"write", "modify"},
           NEW units, NEW value \in Nat, Stored(t, units, value),
           disk' \in [Units -> Nat], UNCHANGED blkCalls,
           \A u \in Units : IF u \in units THEN disk'[u] = value
                            ELSE disk'[u] = disk[u] \/ disk'[u] = written[u] \/ u \in excused
    PROVE  BlkInv'
<1>1. /\ blkCall' \in [BlkThread -> {BlkIdle} \cup Span \cup Buffered]
      /\ \A o \in BlkThread : blkCall'[o] # BlkIdle => InFile(blkCall'[o])
      /\ \A o \in BlkThread : blkCall'[o].at = "modify" => o # t /\ blkCall'[o] = blkCall[o]
      /\ BufferHeld'
  BY BlkSteps DEF BlkInv
<1>2. /\ written' = [u \in Units |-> IF u \in units THEN value ELSE written[u]]
      /\ \A u \in Units : u \in excused /\ u \notin units => u \in excused'
      /\ \A u \in Units : \A o \in BlkThread \ {t} :
            /\ blkCall[o].at = "modify" /\ u \in units
            /\ u \div BlkUnit = OnDisk(blkCall[o].file, blkCall[o].pos) \div BlkUnit
            /\ lease[blkCall[t].file] # t \/ blkCall[o].file # blkCall[t].file
            => u \in excused'
  BY DEF Stored
<1>3. BlkTypeOK'
  BY <1>1, <1>2 DEF BlkInv, BlkTypeOK, OthersKeep, InFile
<1>4. BlockWritesKept'
  BY <1>2 DEF BlkInv, BlkTypeOK, BlockWritesKept
<1>5. ASSUME NEW o \in BlkThread, blkCall'[o].at = "modify", NEW k \in 0..(BlkUnit - 1)
      PROVE  \/ blkCall'[o].was[k] = written'[FirstUnit(blkCall'[o]) + k]
             \/ FirstUnit(blkCall'[o]) + k \in excused'
  <2> DEFINE other == blkCall[o]
             u == FirstUnit(other) + k
  <2>1. o # t /\ blkCall'[o] = other /\ other.at = "modify" /\ other \in Buffered
    BY <1>1, <1>5, BlkCallForms DEF BlkInv, BlkTypeOK
  <2>2. other.file \in BlkFile /\ other.pos \in Nat /\ other.end \in Nat
    BY <2>1 DEF Buffered
  <2>3. InFile(other)
    BY <2>1 DEF BlkInv, BlkTypeOK, BlkIdle
  <2>4. Capacity(other.file) \in Int
    BY <2>2, BlockAssumption DEF Capacity, BlkUnit
  <2>5. other.pos < Capacity(other.file)
    BY <2>2, <2>3, <2>4 DEF InFile
  <2>6. u \in Units /\ u \div BlkUnit = OnDisk(other.file, other.pos) \div BlkUnit
    BY <2>2, <2>5, BlockOf
  <2>7. lease[other.file] = o
    BY <2>1 DEF BlkInv, BufferHeld
  <2>8. other.was[k] = written[u] \/ u \in excused
    BY <2>1 DEF BlkInv, BufferFresh
  <2> HIDE DEF other, u
  <2>9. CASE u \in units
    BY <2>1, <2>7, <1>2, <2>6, <2>9 DEF other, u
  <2>10. CASE u \notin units
    BY <1>2, <2>6, <2>8, <2>10, <2>1 DEF u
  <2> QED BY <2>9, <2>10
<1>6. BufferFresh'
  BY <1>5 DEF BufferFresh, FirstUnit, OnDisk
<1> QED BY <1>1, <1>3, <1>4, <1>6 DEF BlkInv

(* BlkDone gives back only the caller's own buffers.                       *)
LEMMA BlkEnds ==
    ASSUME BlkInv, NEW t \in BlkThread, BlkDone(t)
    PROVE  Steps(t, BlkIdle) /\ OthersKeep(t)
  BY DEF BlkDone, BlkInv, BlkTypeOK, Steps, OthersKeep

(* Calls start inside their file.                                          *)
LEMMA BlkStarts ==
    ASSUME BlkInv, NEW t \in BlkThread, NEW op \in {"read", "write"}, NEW f \in BlkFile,
           NEW pos \in Nat, NEW end \in Nat, end <= Capacity(f), BlkStart(t, op, f, pos, end)
    PROVE  BlkInv'
<1> DEFINE call == [at |-> op, op |-> op, file |-> f, pos |-> pos, value |-> blkCalls + 1, end |-> end]
<1>1. call \in Span /\ blkCalls + 1 \in Nat
  BY DEF Span, BlkInv, BlkTypeOK
<1>2. InFile(call)
  BY DEF BlkStart, InFile
<1>3. Steps(t, call)
  BY <1>1, <1>2 DEF BlkStart, Steps
<1>4. OthersKeep(t)
  BY DEF BlkStart, OthersKeep, BlkInv, BlkTypeOK
<1> HIDE DEF call
<1>5. blkCalls' \in Nat /\ UNCHANGED <<disk, written, excused>>
  BY <1>1 DEF BlkStart
<1> QED BY <1>3, <1>4, <1>5, BlkReads

(* What is known of a call that has not ended.                             *)
LEMMA BlkUnderWay ==
    ASSUME BlkInv, NEW t \in BlkThread, blkCall[t].at # "idle"
    PROVE  LET call == blkCall[t]
           IN  /\ call.file \in BlkFile /\ call.pos \in Nat /\ call.end \in Nat /\ call.value \in Nat
               /\ call.op \in {"read", "write"}
               /\ Capacity(call.file) \in Int
               /\ call.pos < call.end /\ call.end <= Capacity(call.file)
               /\ call.pos < Capacity(call.file)
<1> DEFINE call == blkCall[t]
<1>1. call \in Span \cup Buffered /\ call # BlkIdle
  BY DEF BlkInv, BlkTypeOK, BlkIdle
<1>2. /\ call.file \in BlkFile /\ call.pos \in Nat /\ call.end \in Nat /\ call.value \in Nat
      /\ call.op \in {"read", "write"}
  BY <1>1 DEF Span, Buffered
<1>3. Capacity(call.file) \in Int
  BY <1>2, BlockAssumption DEF Capacity, BlkUnit
<1>4. InFile(call)
  BY <1>1 DEF BlkInv, BlkTypeOK
<1> HIDE DEF call
<1> QED BY <1>2, <1>3, <1>4 DEF InFile, call

(* Whole blocks: the transfer goes straight to the disk.                   *)
LEMMA DirectKeeps ==
    ASSUME BlkInv, NEW t \in BlkThread, Direct(t)
    PROVE  BlkInv'
<1> DEFINE call == blkCall[t]
<1>1. call \in Span
  BY BlkCallForms DEF Direct, BlkInv, BlkTypeOK
<1>2. PICK n \in 1..Whole(call) :
        LET next == call.pos + n * BlkUnit
            units == Changing(call, next)
        IN  /\ IF call.at = "write"
               THEN /\ disk' = [u \in Units |-> IF u \in units THEN call.value ELSE disk[u]]
                    /\ Stored(t, units, call.value)
               ELSE UNCHANGED <<disk, written, excused>>
            /\ IF next = call.end THEN BlkDone(t)
               ELSE BlkGo(t, [call EXCEPT !.pos = next]) /\ UNCHANGED lease
  BY DEF Direct
<1> DEFINE next == call.pos + n * BlkUnit
           units == Changing(call, next)
<1>3. call.at \in {"read", "write"} /\ call.at # "idle" /\ blkCalls' = blkCalls /\ blkCalls \in Nat
  BY DEF Direct, BlkInv, BlkTypeOK
<1>4. /\ call.file \in BlkFile /\ call.pos \in Nat /\ call.end \in Nat /\ call.value \in Nat
      /\ call.op \in {"read", "write"} /\ Capacity(call.file) \in Int
      /\ call.pos < call.end /\ call.end <= Capacity(call.file)
  BY <1>3, BlkUnderWay
<1>5. next \in Nat /\ next <= call.end
  <2>1. Whole(call) = IF call.pos % 2 = 0 THEN (call.end - call.pos) \div 2 ELSE 0
    BY DEF Whole, BlkUnit
  <2> HIDE DEF call
  <2>2. n \in 1..((call.end - call.pos) \div 2)
    BY <1>4, <2>1
  <2> QED BY <1>4, <2>2 DEF BlkUnit
<1>6. ASSUME next # call.end
      PROVE  [call EXCEPT !.pos = next] \in Span /\ InFile([call EXCEPT !.pos = next])
  BY <1>1, <1>5, <1>4, <1>6 DEF Span, InFile
<1>7. PICK rest : Steps(t, rest) /\ OthersKeep(t)
  BY <1>2, BlkEnds, <1>6 DEF Steps, OthersKeep, BlkInv, BlkTypeOK
<1>8. CASE call.at = "read"
  BY <1>2, <1>8, <1>3, <1>7, BlkReads
<1>9. CASE call.at = "write"
  <2>1. disk' = [u \in Units |-> IF u \in units THEN call.value ELSE disk[u]] /\ Stored(t, units, call.value)
    BY <1>2, <1>9
  <2> HIDE DEF units
  <2>2. disk' \in [Units -> Nat]
    BY <1>4, <2>1 DEF BlkInv, BlkTypeOK
  <2>3. \A u \in Units : IF u \in units THEN disk'[u] = call.value
                         ELSE disk'[u] = disk[u] \/ disk'[u] = written[u] \/ u \in excused
    BY <2>1
  <2> QED BY <1>3, <1>4, <1>7, <1>9, <2>1, <2>2, <2>3, BlkStores
<1> QED BY <1>3, <1>8, <1>9

(* A part of a block, read into the buffer.                                *)
LEMMA PrepareKeeps ==
    ASSUME BlkInv, NEW t \in BlkThread, Prepare(t)
    PROVE  BlkInv'
<1> DEFINE call == blkCall[t]
           block == call.pos \div BlkUnit
           next == IF call.end < BlkUnit * (block + 1) THEN call.end ELSE BlkUnit * (block + 1)
           first == OnDisk(call.file, BlkUnit * block)
           taken == [at |-> "modify", op |-> call.op, file |-> call.file, pos |-> call.pos,
                     end |-> call.end, value |-> call.value, next |-> next,
                     was |-> [k \in 0..(BlkUnit - 1) |-> disk[first + k]]]
<1>1. call \in Span /\ call.at \in {"read", "write"} /\ call.at # "idle"
  BY BlkCallForms DEF Prepare, BlkInv, BlkTypeOK
<1>2. /\ call.file \in BlkFile /\ call.pos \in Nat /\ call.end \in Nat /\ call.value \in Nat
      /\ call.op \in {"read", "write"} /\ Capacity(call.file) \in Int
      /\ call.pos < call.end /\ call.end <= Capacity(call.file) /\ call.pos < Capacity(call.file)
  BY <1>1, BlkUnderWay
<1>3. /\ Acquirable(t, call.file)
      /\ UNCHANGED <<disk, blkCalls, written, excused>>
      /\ call.at = "write" => BlkGo(t, taken) /\ lease' = [lease EXCEPT ![call.file] = t]
      /\ call.at # "write" /\ next = call.end => BlkDone(t)
      /\ call.at # "write" /\ next # call.end =>
           BlkGo(t, [call EXCEPT !.pos = next]) /\ lease' = [lease EXCEPT ![call.file] = t]
  BY DEF Prepare
<1>4. next \in Nat /\ call.pos < next /\ next <= call.end
  <2> HIDE DEF call
  <2> QED BY <1>2 DEF BlkUnit
<1>5. ASSUME lease' = [lease EXCEPT ![call.file] = t]
      PROVE  OthersKeep(t)
  BY <1>2, <1>3, <1>5 DEF OthersKeep, Acquirable, BlkInv, BlkTypeOK
<1>6. CASE call.at = "read"
  <2>1. CASE next = call.end
    BY <1>3, <1>6, <2>1, BlkEnds, BlkReads DEF BlkInv, BlkTypeOK
  <2>2. CASE next # call.end
    <3> DEFINE rest == [call EXCEPT !.pos = next]
    <3>1. rest \in Span /\ rest.at # "modify"
      BY <1>1, <1>4 DEF Span
    <3>2. rest.pos = next /\ rest.end = call.end /\ rest.file = call.file
      BY <1>1 DEF Span
    <3>3. next < call.end
      BY <1>2, <1>4, <2>2
    <3>4. InFile(rest)
      BY <1>2, <3>1, <3>2, <3>3 DEF InFile
    <3>5. BlkGo(t, rest) /\ lease' = [lease EXCEPT ![call.file] = t] /\ OthersKeep(t)
      BY <1>3, <1>5, <1>6, <2>2
    <3> HIDE DEF rest
    <3>6. Steps(t, rest)
      BY <3>1, <3>4, <3>5 DEF Steps
    <3>7. blkCalls' \in Nat /\ UNCHANGED <<disk, written, excused>>
      BY <1>3 DEF BlkInv, BlkTypeOK
    <3> QED BY <3>5, <3>6, <3>7, BlkReads
  <2> QED BY <2>1, <2>2
<1>7. CASE call.at = "write"
  <2>1. BlkGo(t, taken) /\ lease' = [lease EXCEPT ![call.file] = t] /\ OthersKeep(t)
    BY <1>3, <1>5, <1>7
  <2>2. first = FirstUnit(call) /\ \A k \in 0..(BlkUnit - 1) : FirstUnit(call) + k \in Units
    BY <1>2, BlockOf DEF FirstUnit
  <2>3. [k \in 0..(BlkUnit - 1) |-> disk[first + k]] \in [0..(BlkUnit - 1) -> Nat]
    BY <2>2 DEF BlkInv, BlkTypeOK
  <2>4. taken \in Buffered
    <3> HIDE DEF next, first
    <3> QED BY <1>2, <1>4, <2>3 DEF Buffered
  <2>5. InFile(taken)
    <3> HIDE DEF next
    <3> QED BY <1>2, <1>4 DEF InFile
  <2>6. FirstUnit(taken) = FirstUnit(call) /\ taken.file = call.file /\ taken.at = "modify"
    BY DEF FirstUnit
  <2>7. \A k \in 0..(BlkUnit - 1) : taken.was[k] = disk[FirstUnit(taken) + k]
    BY <2>2, <2>6
  <2> HIDE DEF taken
  <2>8. \A o \in BlkThread : blkCall'[o] = IF o = t THEN taken ELSE blkCall[o]
    BY <2>1 DEF BlkGo, BlkInv, BlkTypeOK
  <2>9. BlkTypeOK'
    <3>1. blkCall' \in [BlkThread -> {BlkIdle} \cup Span \cup Buffered]
      BY <2>1, <2>4 DEF BlkGo, BlkInv, BlkTypeOK
    <3>2. \A o \in BlkThread : blkCall'[o] # BlkIdle => InFile(blkCall'[o])
      BY <2>5, <2>8 DEF BlkInv, BlkTypeOK
    <3> QED BY <1>3, <2>1, <3>1, <3>2 DEF BlkInv, BlkTypeOK, OthersKeep, InFile
  <2>10. ASSUME NEW o \in BlkThread, blkCall'[o].at = "modify"
         PROVE  lease'[blkCall'[o].file] = o
    <3>1. CASE o = t
      BY <1>2, <2>1, <2>6, <2>8, <3>1 DEF BlkInv, BlkTypeOK
    <3>2. CASE o # t
      <4>1. blkCall'[o] = blkCall[o] /\ lease[blkCall[o].file] = o
        BY <2>8, <2>10, <3>2 DEF BlkInv, BufferHeld
      <4>2. blkCall[o] \in Buffered
        BY <2>10, <4>1, BlkCallForms DEF BlkInv, BlkTypeOK
      <4>3. blkCall[o].file \in BlkFile
        BY <4>2 DEF Buffered
      <4> QED BY <2>1, <3>2, <4>1, <4>3, BlockAssumption DEF OthersKeep
    <3> QED BY <3>1, <3>2
  <2>11. ASSUME NEW o \in BlkThread, blkCall'[o].at = "modify", NEW k \in 0..(BlkUnit - 1)
         PROVE  \/ blkCall'[o].was[k] = written'[FirstUnit(blkCall'[o]) + k]
                \/ FirstUnit(blkCall'[o]) + k \in excused'
    BY <2>2, <2>6, <1>3, <2>7, <2>8, <2>11 DEF BlkInv, BlockWritesKept, BufferFresh
  <2>12. BufferHeld' /\ BufferFresh'
    BY <2>10, <2>11 DEF BufferHeld, BufferFresh, FirstUnit, OnDisk
  <2>13. BlockWritesKept'
    BY <1>3 DEF BlkInv, BlockWritesKept
  <2> QED BY <2>9, <2>12, <2>13 DEF BlkInv
<1> QED BY <1>1, <1>6, <1>7

(* The block in the buffer, changed and written back: what the call did    *)
(* not change is as it was written, or excused.                            *)
LEMMA ModifyKeeps ==
    ASSUME BlkInv, NEW t \in BlkThread, Modify(t)
    PROVE  BlkInv'
<1> DEFINE call == blkCall[t]
           units == Changing(call, call.next)
           first == FirstUnit(call)
<1>1. call \in Buffered /\ call.at = "modify" /\ call.at # "idle"
  BY BlkCallForms DEF Modify, BlkInv, BlkTypeOK
<1>2. /\ call.file \in BlkFile /\ call.pos \in Nat /\ call.end \in Nat /\ call.value \in Nat
      /\ call.op \in {"read", "write"} /\ Capacity(call.file) \in Int
      /\ call.end <= Capacity(call.file) /\ call.pos < Capacity(call.file)
  BY <1>1, BlkUnderWay
<1>3. /\ disk' = [u \in Units |-> IF u \in units THEN call.value
                                  ELSE IF u - first \in 0..(BlkUnit - 1) THEN call.was[u - first]
                                  ELSE disk[u]]
      /\ Stored(t, units, call.value)
      /\ IF call.next = call.end THEN BlkDone(t)
         ELSE /\ BlkGo(t, [at |-> "write", op |-> call.op, file |-> call.file, pos |-> call.next,
                           end |-> call.end, value |-> call.value])
              /\ UNCHANGED lease
      /\ UNCHANGED blkCalls
  BY DEF Modify, FirstUnit
<1>4. call.next \in Nat /\ call.next <= call.end /\ call.was \in [0..(BlkUnit - 1) -> Nat]
  <2>1. InFile(call)
    BY <1>1 DEF BlkInv, BlkTypeOK, BlkIdle
  <2> QED BY <1>1, <2>1 DEF Buffered, InFile
<1>5. PICK rest : Steps(t, rest) /\ OthersKeep(t)
  <2>1. CASE call.next = call.end
    BY <1>3, <2>1, BlkEnds
  <2>2. CASE call.next # call.end
    <3> DEFINE rest == [at |-> "write", op |-> call.op, file |-> call.file, pos |-> call.next,
                        end |-> call.end, value |-> call.value]
    <3>1. rest \in Span
      BY <1>2, <1>4 DEF Span
    <3>2. InFile(rest)
      BY <1>2, <1>4, <2>2 DEF InFile
    <3>3. Steps(t, rest)
      BY <1>3, <2>2, <3>1, <3>2 DEF Steps
    <3>4. OthersKeep(t)
      BY <1>3, <2>2 DEF OthersKeep, BlkInv, BlkTypeOK
    <3> QED BY <3>3, <3>4
  <2> QED BY <2>1, <2>2
<1>6. \A k \in 0..(BlkUnit - 1) : call.was[k] = written[first + k] \/ first + k \in excused
  BY <1>1 DEF BlkInv, BufferFresh
<1>7. first \in Int /\ Units \subseteq Int /\ 0 \in 0..(BlkUnit - 1)
  <2>1. 0 \in 0..(BlkUnit - 1)
    BY DEF BlkUnit
  <2>2. first \in Int
    BY <1>2, <2>1, BlockOf
  <2> QED BY <2>1, <2>2, BlockAssumption DEF Units, BlkUnit
<1> HIDE DEF first, units, call
<1>8. \A u \in Units : u - first \in 0..(BlkUnit - 1) =>
           call.was[u - first] = written[u] \/ u \in excused
  <2> SUFFICES ASSUME NEW u \in Units, u - first \in 0..(BlkUnit - 1)
               PROVE  call.was[u - first] = written[u] \/ u \in excused
    OBVIOUS
  <2>1. first + (u - first) = u
    BY <1>7
  <2> QED BY <1>6, <2>1
<1>9. disk' \in [Units -> Nat]
  BY <1>2, <1>3, <1>4 DEF BlkInv, BlkTypeOK
<1>10. \A u \in Units : IF u \in units THEN disk'[u] = call.value
                        ELSE disk'[u] = disk[u] \/ disk'[u] = written[u] \/ u \in excused
  BY <1>3, <1>8
<1>11. blkCall[t].at \in {"write", "modify"}
  BY <1>1 DEF call
<1> QED BY <1>2, <1>3, <1>5, <1>9, <1>10, <1>11, BlkStores

(* Every step of the block device files keeps what was written.            *)
LEMMA BlkInvHolds == BlkSpec => []BlkInv
<1>1. BlkInit => BlkInv
  BY BlockAssumption DEF BlkInit, BlkInv, BlkTypeOK, BufferHeld, BufferFresh, BlockWritesKept, BlkIdle
<1>2. BlkInv /\ [BlkNext]_blkVars => BlkInv'
  <2> SUFFICES ASSUME BlkInv, [BlkNext]_blkVars PROVE BlkInv'
    OBVIOUS
  <2>1. CASE UNCHANGED blkVars
    BY <2>1 DEF blkVars, BlkInv, BlkTypeOK, BufferHeld, BufferFresh, BlockWritesKept, InFile,
                FirstUnit, OnDisk
  <2>2. ASSUME NEW t \in BlkThread, NEW f \in BlkFile, NEW pos \in 0..(BlkUnit * DiskBlocks),
               NEW end \in 0..(BlkUnit * DiskBlocks),
               \/ BlkRead(t, f, pos, end) \/ BlkWrite(t, f, pos, end)
               \/ ReadExact(t, f, pos, end) \/ WriteExact(t, f, pos, end)
        PROVE  BlkInv'
    <3>1. pos \in Nat /\ end \in Nat /\ Capacity(f) \in Nat
      BY BlockAssumption DEF Capacity, BlkUnit
    <3>2. Clipped(f, end) \in Nat /\ Clipped(f, end) <= Capacity(f)
      BY <3>1 DEF Clipped
    <3>3. CASE BlkRead(t, f, pos, end)
      BY <3>1, <3>2, <3>3, BlkStarts DEF BlkRead
    <3>4. CASE BlkWrite(t, f, pos, end)
      BY <3>1, <3>2, <3>4, BlkStarts DEF BlkWrite
    <3>5. CASE ReadExact(t, f, pos, end)
      BY <3>1, <3>5, BlkStarts DEF ReadExact
    <3>6. CASE WriteExact(t, f, pos, end)
      BY <3>1, <3>6, BlkStarts DEF WriteExact
    <3> QED BY <2>2, <3>3, <3>4, <3>5, <3>6
  <2>3. ASSUME NEW t \in BlkThread, BlkFail(t) PROVE BlkInv'
    BY <2>3, BlkEnds, BlkReads DEF BlkFail, BlkInv, BlkTypeOK
  <2> QED BY <2>1, <2>2, <2>3, DirectKeeps, PrepareKeeps, ModifyKeeps DEF BlkNext
<1> QED BY <1>1, <1>2, PTL DEF BlkSpec

(* What a write stored stays until another write of the same bytes         *)
(* (block.rs, partition.rs, ext/io.rs): for any number of threads, of      *)
(* files and partitions of any extents, over calls of every alignment.     *)
THEOREM BlockWrites == BlkSpec => []BlockWritesKept
  BY BlkInvHolds, PTL DEF BlkInv

---------------------------------------------------------------------------
(* The page cache                                                          *)

PcCallOf ==
    {PcIdle} \cup [at : {"read", "prefetch"}, pos : Nat, end : 0..MaxSize]
    \cup [at : {"load"}, for : {"read", "prefetch"}, pos : Nat, end : 0..MaxSize,
          frame : CacheFrames, got : Seq(Nat), seen : Nat]
    \cup [at : {"write"}, pos : Nat, end : Nat]
    \cup [at : {"invalidate"}, drop : SUBSET Pages]
    \cup [at : {"release"}, frames : SUBSET CacheFrames]
InRange(call) == call.at \in {"read", "load"} => call.pos < call.end
EntryOf(e) ==
    /\ e = [frame |-> e.frame, len |-> e.len, got |-> e.got, raced |-> e.raced, missed |-> e.missed]
    /\ e.frame \in CacheFrames /\ e.got \in Seq(Nat) /\ e.len = Len(e.got)
PcTypeOK ==
    /\ file \in [size : 0..MaxSize, units : [0..(MaxSize - 1) -> Nat]]
    /\ DOMAIN pages \subseteq Pages /\ \A p \in DOMAIN pages : EntryOf(pages[p])
    /\ freeFrames \subseteq CacheFrames
    /\ pcCall \in [PcThread -> PcCallOf] /\ \A t \in PcThread : InRange(pcCall[t])
    /\ pcCalls \in Nat /\ changed \in [Pages -> Nat]

\* What a load has read so far is still in the file, unless the page has
\* changed since it began.
LoadFresh(call) ==
    LET p == Wanted(call)
    IN  /\ call.seen <= changed[p]
        /\ call.seen = changed[p] =>
             /\ Len(call.got) <= PageLen(file, p)
             /\ \A k \in 1..Len(call.got) : call.got[k] = file.units[Unit * p + k - 1]
LoadsFresh == \A t \in PcThread : pcCall[t].at = "load" => LoadFresh(pcCall[t])
PcInv == PcTypeOK /\ LoadsFresh /\ CacheFresh /\ CacheFramesExact

(* What the record of a call holds, by what the call is at.                *)
LEMMA PcCallForms ==
    ASSUME NEW call \in PcCallOf
    PROVE  /\ call.at \in {"idle", "read", "prefetch", "load", "write", "invalidate", "release"}
           /\ call.at = "idle" <=> call = PcIdle
           /\ call.at \in {"read", "prefetch"} =>
                call \in [at : {"read", "prefetch"}, pos : Nat, end : 0..MaxSize]
           /\ call.at = "load" =>
                call \in [at : {"load"}, for : {"read", "prefetch"}, pos : Nat, end : 0..MaxSize,
                          frame : CacheFrames, got : Seq(Nat), seen : Nat]
           /\ call.at = "write" => call \in [at : {"write"}, pos : Nat, end : Nat]
           /\ call.at = "invalidate" => call \in [at : {"invalidate"}, drop : SUBSET Pages]
           /\ call.at = "release" => call \in [at : {"release"}, frames : SUBSET CacheFrames]
  BY DEF PcCallOf, PcIdle

(* The numbers of the model.                                               *)
LEMMA PcNumbers == MaxSize \in Nat /\ FilePages \in Nat /\ MaxSize = 2 * FilePages /\ Pages \subseteq Nat
  BY PageCacheAssumption DEF MaxSize, Unit, Pages

(* A call that has something left wants a page of the file.                *)
LEMMA WantedPage ==
    ASSUME NEW call, call.pos \in Nat, call.end \in 0..MaxSize, call.pos < call.end
    PROVE  Wanted(call) \in Pages
  BY PcNumbers DEF Wanted, Pages, Unit

(* A page of a file has no more than two units, all of them in the file.   *)
LEMMA PageLength ==
    ASSUME NEW f, f.size \in 0..MaxSize, NEW p \in Pages
    PROVE  /\ PageLen(f, p) \in 0..Unit
           /\ \A k \in 0..(PageLen(f, p) - 1) : Unit * p + k \in 0..(MaxSize - 1)
<1>1. p \in Nat /\ f.size \in Int /\ 0 <= f.size /\ f.size <= MaxSize /\ MaxSize \in Int
  BY PcNumbers
<1> DEFINE size == f.size
<1> HIDE DEF size
<1>2. PageLen(f, p) = IF size <= 2 * p THEN 0 ELSE IF 2 < size - 2 * p THEN 2 ELSE size - 2 * p
  BY DEF PageLen, Least, Unit, size
<1>3. size \in Int /\ 0 <= size /\ size <= MaxSize
  BY <1>1 DEF size
<1> DEFINE len == PageLen(f, p)
<1>4. len \in 0..2 /\ (len > 0 => 2 * p + len <= size)
  BY <1>1, <1>2, <1>3
<1> HIDE DEF len
<1>5. \A k \in 0..(len - 1) : 2 * p + k \in 0..(MaxSize - 1)
  BY <1>1, <1>3, <1>4
<1> QED BY <1>4, <1>5 DEF len, Unit

(* Two files agree on a page when they show the same in it.                *)
LEMMA SamePage ==
    ASSUME NEW f, NEW g, f.size \in 0..MaxSize, g.size \in 0..MaxSize, NEW p \in Pages,
           PageOf(f, p) = PageOf(g, p)
    PROVE  /\ PageLen(f, p) = PageLen(g, p)
           /\ \A k \in 0..(PageLen(f, p) - 1) : f.units[Unit * p + k] = g.units[Unit * p + k]
<1> DEFINE m == PageLen(f, p)
           n == PageLen(g, p)
<1>1. m \in 0..2 /\ n \in 0..2
  BY PageLength DEF Unit
<1>2. DOMAIN PageOf(f, p) = 0..(m - 1) /\ DOMAIN PageOf(g, p) = 0..(n - 1)
  BY DEF PageOf
<1>3. 0..(m - 1) = 0..(n - 1)
  BY <1>2
<1>4. \A k \in 0..(m - 1) : PageOf(f, p)[k] = f.units[Unit * p + k]
  BY DEF PageOf
<1>5. \A k \in 0..(n - 1) : PageOf(g, p)[k] = g.units[Unit * p + k]
  BY DEF PageOf
<1> HIDE DEF m, n
<1>6. \A k \in Int : k \in 0..(m - 1) <=> k \in 0..(n - 1)
  BY <1>3
<1>7. m = n
  BY <1>1, <1>6
<1> QED BY <1>3, <1>4, <1>5, <1>7 DEF m, n

\* CacheFresh, page by page
EntryFresh(e, p) ==
    [k \in 0..(e.len - 1) |-> e.got[k + 1]] = PageOf(file, p) \/ e.raced \/ e.missed
Dropping(p) == \E t \in PcThread : pcCall[t].at = "invalidate" /\ p \in pcCall[t].drop

(* The calls after a step of one of them.                                  *)
LEMMA PcGoes ==
    ASSUME PcTypeOK, NEW t \in PcThread, NEW call \in PcCallOf, InRange(call), PcGo(t, call)
    PROVE  /\ pcCall' \in [PcThread -> PcCallOf] /\ \A o \in PcThread : InRange(pcCall'[o])
           /\ \A o \in PcThread : pcCall'[o] = IF o = t THEN call ELSE pcCall[o]
  BY DEF PcGo, PcTypeOK

(* A step that leaves the file alone: what was fresh is, a load that goes  *)
(* on must have read what is there, a page that enters must hold it.       *)
LEMMA FreshStep ==
    ASSUME PcInv, NEW t \in PcThread, NEW call \in PcCallOf, InRange(call), PcGo(t, call),
           UNCHANGED <<file, changed>>,
           call.at = "load" => LoadFresh(call),
           \A p \in DOMAIN pages' : \/ p \in DOMAIN pages /\ pages'[p] = pages[p]
                                    \/ EntryFresh(pages'[p], p),
           pcCall[t].at = "invalidate" => DOMAIN pages' \cap pcCall[t].drop = {}
    PROVE  LoadsFresh' /\ CacheFresh'
<1>1. \A o \in PcThread : pcCall'[o] = IF o = t THEN call ELSE pcCall[o]
  BY PcGoes DEF PcInv
<1>2. LoadsFresh'
  BY <1>1 DEF PcInv, LoadsFresh, LoadFresh
<1>3. ASSUME NEW p \in DOMAIN pages'
      PROVE  \/ EntryFresh(pages'[p], p)
             \/ \E o \in PcThread : pcCall'[o].at = "invalidate" /\ p \in pcCall'[o].drop
  <2>1. CASE EntryFresh(pages'[p], p)
    BY <2>1
  <2>2. CASE p \in DOMAIN pages /\ pages'[p] = pages[p]
    BY <2>2, <1>1 DEF PcInv, CacheFresh, EntryFresh, Dropping
  <2> QED BY <2>1, <2>2
<1>4. CacheFresh'
  BY <1>3 DEF CacheFresh, EntryFresh, PageOf, PageLen
<1> QED BY <1>2, <1>4

(* A step that changes the file: a page that shows something else is       *)
(* marked, or somebody is on the way to drop it.                           *)
LEMMA FileStep ==
    ASSUME PcInv, NEW new \in [size : 0..MaxSize, units : [0..(MaxSize - 1) -> Nat]], NEW told,
           FileBecomes(new, told),
           \A o \in PcThread : pcCall'[o].at = "load" => pcCall'[o] = pcCall[o],
           \A o \in PcThread : pcCall[o].at = "invalidate" => pcCall'[o] = pcCall[o],
           \A p \in told : \E o \in PcThread : pcCall'[o].at = "invalidate" /\ p \in pcCall'[o].drop
    PROVE  /\ LoadsFresh' /\ CacheFresh'
           /\ DOMAIN pages' = DOMAIN pages
           /\ \A p \in DOMAIN pages : EntryOf(pages'[p]) /\ pages'[p].frame = pages[p].frame
           /\ changed' \in [Pages -> Nat]
<1> DEFINE different == {p \in Pages : PageOf(new, p) # PageOf(file, p)}
           Missed(p) == pages[p].missed \/ p \in different \ told
<1>1. /\ file' = new
      /\ changed' = [p \in Pages |-> IF p \in different THEN changed[p] + 1 ELSE changed[p]]
      /\ pages' = [p \in DOMAIN pages |-> [pages[p] EXCEPT !.missed = @ \/ p \in different \ told]]
  BY DEF FileBecomes
<1>2. PcTypeOK /\ new.size \in 0..MaxSize /\ file.size \in 0..MaxSize
  BY DEF PcInv, PcTypeOK
<1>3. changed' \in [Pages -> Nat] /\ \A p \in Pages : changed[p] \in Nat
  BY <1>1, <1>2 DEF PcTypeOK
<1>4. DOMAIN pages' = DOMAIN pages
  BY <1>1
<1>5. ASSUME NEW p \in DOMAIN pages
      PROVE  /\ pages'[p] = [frame |-> pages[p].frame, len |-> pages[p].len, got |-> pages[p].got,
                             raced |-> pages[p].raced,
                             missed |-> Missed(p)]
             /\ pages[p].frame \in CacheFrames /\ pages[p].got \in Seq(Nat)
             /\ pages[p].len = Len(pages[p].got)
  <2>1. EntryOf(pages[p])
    BY <1>2 DEF PcTypeOK
  <2>2. pages'[p] = [pages[p] EXCEPT !.missed = @ \/ p \in different \ told]
    BY <1>1
  <2>3. pages'[p] = [pages[p] EXCEPT !.missed = Missed(p)]
    BY <2>2
  <2> HIDE DEF different, Missed
  <2> QED BY <2>1, <2>3 DEF EntryOf
<1> HIDE DEF different, Missed
<1>5a. ASSUME NEW p \in DOMAIN pages
       PROVE  /\ pages'[p].frame = pages[p].frame /\ pages'[p].len = pages[p].len
              /\ pages'[p].got = pages[p].got /\ pages'[p].raced = pages[p].raced
              /\ pages'[p].missed = Missed(p)
              /\ EntryOf(pages'[p])
  <2> DEFINE e == pages[p]
             f == pages'[p]
  <2>1. /\ f = [frame |-> e.frame, len |-> e.len, got |-> e.got, raced |-> e.raced, missed |-> Missed(p)]
        /\ e.frame \in CacheFrames /\ e.got \in Seq(Nat) /\ e.len = Len(e.got)
    BY <1>5
  <2> HIDE DEF e, f
  <2>2. f.frame = e.frame /\ f.len = e.len /\ f.got = e.got /\ f.raced = e.raced /\ f.missed = Missed(p)
    BY <2>1
  <2>3. EntryOf(f)
    BY <2>1, <2>2 DEF EntryOf
  <2> QED BY <2>2, <2>3 DEF e, f
<1>6. \A p \in DOMAIN pages : EntryOf(pages'[p]) /\ pages'[p].frame = pages[p].frame
  BY <1>5a
<1>7. LoadsFresh'
  <2> SUFFICES ASSUME NEW o \in PcThread, pcCall'[o].at = "load"
               PROVE  LoadFresh(pcCall[o])'
    BY DEF LoadsFresh
  <2> DEFINE call == pcCall[o]
             p == Wanted(call)
  <2>1. pcCall'[o] = call /\ call.at = "load" /\ LoadFresh(call)
    BY DEF PcInv, LoadsFresh
  <2>2. call \in PcCallOf /\ InRange(call)
    BY <1>2 DEF PcTypeOK
  <2>3. call.pos \in Nat /\ call.end \in 0..MaxSize /\ call.got \in Seq(Nat) /\ call.seen \in Nat
    BY <2>1, <2>2, PcCallForms
  <2>4. p \in Pages
    BY <2>1, <2>2, <2>3, WantedPage DEF InRange
  <2>5. CASE p \in different
    BY <1>1, <2>4, <2>5, <1>3, <2>1, <2>3 DEF LoadFresh, Wanted
  <2>6. CASE p \notin different
    <3>1. changed'[p] = changed[p]
      BY <1>1, <2>4, <2>6
    <3>2. PageOf(file, p) = PageOf(new, p)
      BY <2>4, <2>6 DEF different
    <3>3. /\ PageLen(file, p) = PageLen(new, p)
          /\ \A k \in 0..(PageLen(file, p) - 1) : file.units[Unit * p + k] = new.units[Unit * p + k]
      BY <1>2, <2>4, <3>2, SamePage
    <3>4. PageLen(file, p) \in Int /\ p \in Int /\ Len(call.got) \in Nat
      <4> HIDE DEF p
      <4>1. PageLen(file, p) \in 0..Unit
        BY <1>2, <2>4, PageLength
      <4>2. PageLen(file, p) \in Int
        BY <4>1 DEF Unit
      <4>3. p \in Int
        BY <2>4, PcNumbers
      <4>4. Len(call.got) \in Nat
        BY <2>3, LenProperties
      <4> QED
        BY <4>2, <4>3, <4>4
    <3>5. ASSUME call.seen = changed'[p]
          PROVE  /\ Len(call.got) <= PageLen(new, p)
                 /\ \A k \in 1..Len(call.got) : call.got[k] = new.units[Unit * p + k - 1]
      <4>1. /\ Len(call.got) <= PageLen(file, p)
            /\ \A k \in 1..Len(call.got) : call.got[k] = file.units[Unit * p + k - 1]
        BY <2>1, <3>1, <3>5 DEF LoadFresh
      <4>2. ASSUME NEW k \in 1..Len(call.got) PROVE call.got[k] = new.units[Unit * p + k - 1]
        <5> HIDE DEF p, call
        <5>1. k - 1 \in 0..(PageLen(file, p) - 1) /\ Unit * p + k - 1 = Unit * p + (k - 1)
          BY <3>4, <4>1 DEF Unit
        <5> QED BY <3>3, <4>1, <5>1
      <4> QED BY <3>3, <4>1, <4>2
    <3>6. call.seen <= changed'[p]
      BY <2>1, <3>1 DEF LoadFresh
    <3> QED BY <1>1, <2>1, <3>5, <3>6 DEF LoadFresh, Wanted, PageLen
  <2> QED BY <2>5, <2>6
<1>8. ASSUME NEW p \in DOMAIN pages'
      PROVE  \/ [k \in 0..(pages'[p].len - 1) |-> pages'[p].got[k + 1]] = PageOf(new, p)
             \/ pages'[p].raced \/ pages'[p].missed
             \/ \E o \in PcThread : pcCall'[o].at = "invalidate" /\ p \in pcCall'[o].drop
  <2>1. p \in DOMAIN pages /\ p \in Pages
    BY <1>2, <1>4 DEF PcTypeOK
  <2>2. /\ pages'[p].len = pages[p].len /\ pages'[p].got = pages[p].got
        /\ pages'[p].raced = pages[p].raced
        /\ pages'[p].missed = Missed(p)
    BY <1>5a, <2>1
  <2>3. CASE p \in different
    BY <2>2, <2>3 DEF Missed
  <2>4. CASE p \notin different
    BY <2>1, <2>4, <2>2 DEF different, PcInv, CacheFresh, EntryFresh, Dropping, Missed
  <2> QED BY <2>3, <2>4
<1>9. CacheFresh'
  BY <1>1, <1>8 DEF CacheFresh, PageOf, PageLen
<1> QED BY <1>3, <1>4, <1>6, <1>7, <1>9

\* The frames a call holds, and CacheFramesExact frame by frame
HeldBy(call) == CASE call.at = "load" -> {call.frame}
                  [] call.at = "release" -> call.frames
                  [] OTHER -> {}
FramesSpread ==
    /\ \A f : f \in CacheFrames <=> \/ f \in freeFrames
                                    \/ \E p \in DOMAIN pages : pages[p].frame = f
                                    \/ \E t \in PcThread : f \in HeldBy(pcCall[t])
    /\ \A p \in DOMAIN pages : pages[p].frame \notin freeFrames
    /\ \A t \in PcThread : \A f \in HeldBy(pcCall[t]) : f \notin freeFrames
    /\ \A p \in DOMAIN pages : \A t \in PcThread : pages[p].frame \notin HeldBy(pcCall[t])
    /\ \A p, q \in DOMAIN pages : pages[p].frame = pages[q].frame => p = q
    /\ \A t, u \in PcThread : t # u => \A f \in HeldBy(pcCall[t]) : f \notin HeldBy(pcCall[u])

(* The two say the same.                                                   *)
LEMMA FramesForm == CacheFramesExact <=> FramesSpread
<1>1. \A t \in PcThread : HeldFrames(t) = HeldBy(pcCall[t])
  BY DEF HeldFrames, HeldBy
<1> DEFINE cached == {pages[p].frame : p \in DOMAIN pages}
           held == UNION {HeldFrames(t) : t \in PcThread}
<1>2. \A f : f \in cached <=> \E p \in DOMAIN pages : pages[p].frame = f
  OBVIOUS
<1>3. \A f : f \in held <=> \E t \in PcThread : f \in HeldBy(pcCall[t])
  BY <1>1
<1>4. CacheFramesExact <=>
        /\ freeFrames \cup cached \cup held = CacheFrames
        /\ freeFrames \cap (cached \cup held) = {} /\ cached \cap held = {}
        /\ \A p, q \in DOMAIN pages : pages[p].frame = pages[q].frame => p = q
        /\ \A t, u \in PcThread : t # u => HeldFrames(t) \cap HeldFrames(u) = {}
  BY DEF CacheFramesExact
<1> HIDE DEF cached, held
<1>5. freeFrames \cup cached \cup held = CacheFrames <=>
        \A f : f \in CacheFrames <=> \/ f \in freeFrames
                                     \/ \E p \in DOMAIN pages : pages[p].frame = f
                                     \/ \E t \in PcThread : f \in HeldBy(pcCall[t])
  BY <1>2, <1>3
<1>6. freeFrames \cap (cached \cup held) = {} <=>
        /\ \A p \in DOMAIN pages : pages[p].frame \notin freeFrames
        /\ \A t \in PcThread : \A f \in HeldBy(pcCall[t]) : f \notin freeFrames
  BY <1>2, <1>3
<1>7. cached \cap held = {} <=>
        \A p \in DOMAIN pages : \A t \in PcThread : pages[p].frame \notin HeldBy(pcCall[t])
  BY <1>2, <1>3
<1>8. (\A t, u \in PcThread : t # u => HeldFrames(t) \cap HeldFrames(u) = {}) <=>
        \A t, u \in PcThread : t # u => \A f \in HeldBy(pcCall[t]) : f \notin HeldBy(pcCall[u])
  BY <1>1
<1> QED BY <1>4, <1>5, <1>6, <1>7, <1>8 DEF FramesSpread

(* A call hands out and takes back: what is free, in the cache and with    *)
(* the caller after the step is what it was before, and the three are      *)
(* still apart.                                                            *)
LEMMA FramesStep ==
    ASSUME PcInv, NEW t \in PcThread,
           \A o \in PcThread : o # t => HeldBy(pcCall'[o]) = HeldBy(pcCall[o]),
           \A p \in DOMAIN pages' : \/ p \in DOMAIN pages /\ pages'[p].frame = pages[p].frame
                                    \/ p \notin DOMAIN pages /\ pages'[p].frame \in HeldBy(pcCall[t]),
           \A p, q \in DOMAIN pages' : p \notin DOMAIN pages /\ q \notin DOMAIN pages => p = q,
           \A f : (\/ f \in freeFrames
                   \/ \E p \in DOMAIN pages : pages[p].frame = f
                   \/ f \in HeldBy(pcCall[t]))
                  <=> \/ f \in freeFrames'
                      \/ \E p \in DOMAIN pages' : pages'[p].frame = f
                      \/ f \in HeldBy(pcCall'[t]),
           \A p \in DOMAIN pages' : pages'[p].frame \notin freeFrames' \cup HeldBy(pcCall'[t]),
           \A f \in HeldBy(pcCall'[t]) : f \notin freeFrames'
    PROVE  CacheFramesExact'
<1>1. FramesSpread
  BY FramesForm DEF PcInv
<1>2. \A o \in PcThread : o # t => \A f \in HeldBy(pcCall[o]) :
         /\ f \notin freeFrames /\ f \notin HeldBy(pcCall[t])
         /\ \A p \in DOMAIN pages : pages[p].frame # f
  <2> SUFFICES ASSUME NEW o \in PcThread, o # t, NEW f \in HeldBy(pcCall[o])
               PROVE  /\ f \notin freeFrames /\ f \notin HeldBy(pcCall[t])
                      /\ \A p \in DOMAIN pages : pages[p].frame # f
    OBVIOUS
  <2>1. f \notin freeFrames
    BY <1>1 DEF FramesSpread
  <2>2. f \notin HeldBy(pcCall[t])
    BY <1>1 DEF FramesSpread
  <2>3. ASSUME NEW p \in DOMAIN pages, pages[p].frame = f PROVE FALSE
    BY <1>1, <2>3 DEF FramesSpread
  <2> QED BY <2>1, <2>2, <2>3
<1>3. \A o \in PcThread : o # t => \A f \in HeldBy(pcCall[o]) :
         /\ f \notin freeFrames' /\ f \notin HeldBy(pcCall'[t])
         /\ \A p \in DOMAIN pages' : pages'[p].frame # f
  BY <1>2
<1>4. \A f : f \in CacheFrames <=> \/ f \in freeFrames'
                                   \/ \E p \in DOMAIN pages' : pages'[p].frame = f
                                   \/ \E o \in PcThread : f \in HeldBy(pcCall'[o])
  BY <1>1 DEF FramesSpread
<1>5. \A o \in PcThread : \A f \in HeldBy(pcCall'[o]) : f \notin freeFrames'
  BY <1>3
<1>6. \A p \in DOMAIN pages' : \A o \in PcThread : pages'[p].frame \notin HeldBy(pcCall'[o])
  BY <1>3
<1>7. \A p, q \in DOMAIN pages' : pages'[p].frame = pages'[q].frame => p = q
  BY <1>1 DEF FramesSpread
<1>8. \A o, u \in PcThread : o # u => \A f \in HeldBy(pcCall'[o]) : f \notin HeldBy(pcCall'[u])
  BY <1>1, <1>3 DEF FramesSpread
<1>9. FramesSpread'
  BY <1>4, <1>5, <1>6, <1>7, <1>8 DEF FramesSpread, HeldBy
<1>10. (CacheFramesExact <=> FramesSpread)'
  BY FramesForm, PTL
<1> QED BY <1>9, <1>10

\* A page of the cache stays as it is, or enters with the frame of a load.
Enters(t, p) ==
    \/ p \in DOMAIN pages /\ pages'[p] = pages[p]
    \/ /\ p \notin DOMAIN pages /\ p \in Pages
       /\ EntryOf(pages'[p]) /\ EntryFresh(pages'[p], p) /\ pages'[p].frame \in HeldBy(pcCall[t])

(* Every step that leaves the file alone is of this form.                  *)
LEMMA PcMoves ==
    ASSUME PcInv, NEW t \in PcThread, NEW call \in PcCallOf, InRange(call), PcGo(t, call),
           UNCHANGED <<file, changed>>, pcCalls' \in Nat,
           call.at = "load" => LoadFresh(call),
           pcCall[t].at = "invalidate" => DOMAIN pages' \cap pcCall[t].drop = {},
           \A p \in DOMAIN pages' : Enters(t, p),
           \A p, q \in DOMAIN pages' : p \notin DOMAIN pages /\ q \notin DOMAIN pages => p = q,
           \A f : (\/ f \in freeFrames
                   \/ \E p \in DOMAIN pages : pages[p].frame = f
                   \/ f \in HeldBy(pcCall[t]))
                  <=> \/ f \in freeFrames'
                      \/ \E p \in DOMAIN pages' : pages'[p].frame = f
                      \/ f \in HeldBy(call),
           \A p \in DOMAIN pages' : pages'[p].frame \notin freeFrames' \cup HeldBy(call),
           \A f \in HeldBy(call) : f \notin freeFrames'
    PROVE  PcInv'
<1>1. /\ pcCall' \in [PcThread -> PcCallOf] /\ \A o \in PcThread : InRange(pcCall'[o])
      /\ \A o \in PcThread : pcCall'[o] = IF o = t THEN call ELSE pcCall[o]
  BY PcGoes DEF PcInv
<1>2. LoadsFresh' /\ CacheFresh'
  BY FreshStep DEF Enters
<1>3. CacheFramesExact'
  BY <1>1, FramesStep DEF Enters
<1>4. PcTypeOK'
  <2>1. freeFrames' \subseteq CacheFrames
    <3>1. (CacheFramesExact <=> FramesSpread)'
      BY FramesForm, PTL
    <3> QED BY <1>3, <3>1 DEF FramesSpread
  <2>2. DOMAIN pages' \subseteq Pages /\ \A p \in DOMAIN pages' : EntryOf(pages'[p])
    BY DEF Enters, PcInv, PcTypeOK
  <2> QED BY <1>1, <2>1, <2>2 DEF PcInv, PcTypeOK, InRange, EntryOf
<1> QED BY <1>2, <1>3, <1>4 DEF PcInv

(* A step that changes neither the cache nor who has which frame.          *)
LEMMA PcQuiet ==
    ASSUME PcInv, NEW t \in PcThread, NEW call \in PcCallOf, InRange(call), PcGo(t, call),
           UNCHANGED <<file, pages, freeFrames, changed>>, pcCalls' \in Nat,
           HeldBy(call) = HeldBy(pcCall[t]), pcCall[t].at # "invalidate",
           call.at = "load" => LoadFresh(call)
    PROVE  PcInv'
  BY FramesForm, PcMoves DEF PcInv, Enters, FramesSpread

(* What the calls that begin or go on without a frame look like.           *)
LEMMA PcSpans ==
    ASSUME NEW at \in {"read", "prefetch", "write"}, NEW pos \in Nat, NEW end \in Nat,
           at # "write" => end <= MaxSize, at = "read" => pos < end
    PROVE  LET call == [at |-> at, pos |-> pos, end |-> end]
           IN  call \in PcCallOf /\ InRange(call) /\ HeldBy(call) = {} /\ call.at # "load"
<1> DEFINE call == [at |-> at, pos |-> pos, end |-> end]
<1>1. CASE at = "write"
  BY <1>1 DEF PcCallOf, InRange, HeldBy
<1>2. CASE at \in {"read", "prefetch"}
  BY <1>2, PcNumbers DEF PcCallOf, InRange, HeldBy
<1> QED BY <1>1, <1>2

(* Idle calls and calls on their way to drop pages hold no frame.          *)
LEMMA PcEnds ==
    /\ PcIdle \in PcCallOf /\ InRange(PcIdle) /\ HeldBy(PcIdle) = {} /\ PcIdle.at = "idle"
    /\ \A drop \in SUBSET Pages :
         LET call == [at |-> "invalidate", drop |-> drop]
         IN  call \in PcCallOf /\ InRange(call) /\ HeldBy(call) = {} /\ call.at # "load"
  BY DEF PcCallOf, PcIdle, InRange, HeldBy

(* A call that starts and does nothing yet.                                *)
LEMMA PcBegins ==
    ASSUME PcInv, NEW t \in PcThread, NEW call \in PcCallOf, InRange(call), HeldBy(call) = {},
           call.at # "load", PcStarts(t), PcGo(t, call), UNCHANGED <<file, pages, freeFrames, changed>>
    PROVE  PcInv'
<1>1. HeldBy(pcCall[t]) = {} /\ pcCall[t].at # "invalidate"
  BY PcEnds DEF PcStarts
<1>2. pcCalls' \in Nat
  BY DEF PcStarts, PcInv, PcTypeOK
<1> QED BY <1>1, <1>2, PcQuiet

(* Reads, prefetches, writes and advice begin.                             *)
LEMMA PcStartsKeep ==
    ASSUME PcInv, NEW t \in PcThread,
           \/ \E pos, end \in 0..MaxSize : \/ PcRead(t, pos, end) \/ PcWrite(t, pos, end)
                                           \/ PcDontNeed(t, pos, end)
           \/ \E p \in Pages : \E n \in 1..(FilePages - p) : PcPrefetch(t, p, n)
           \/ \E n \in 1..Unit : PcAppend(t, n)
    PROVE  PcInv'
<1>0. 0..MaxSize \subseteq Nat /\ MaxSize \in Nat
  BY PcNumbers
<1>1. ASSUME NEW pos \in 0..MaxSize, NEW end \in 0..MaxSize, PcRead(t, pos, end) PROVE PcInv'
  BY <1>0, <1>1, PcSpans, PcBegins DEF PcRead
<1>2. ASSUME NEW pos \in 0..MaxSize, NEW end \in 0..MaxSize, PcWrite(t, pos, end) PROVE PcInv'
  BY <1>0, <1>2, PcSpans, PcBegins DEF PcWrite
<1>3. ASSUME NEW pos \in 0..MaxSize, NEW end \in 0..MaxSize, PcDontNeed(t, pos, end) PROVE PcInv'
  BY <1>3, PcEnds, PcBegins DEF Touched, PcDontNeed
<1>4. ASSUME NEW p \in Pages, NEW n \in 1..(FilePages - p), PcPrefetch(t, p, n) PROVE PcInv'
  <2>1. p \in Nat /\ FilePages \in Nat /\ MaxSize = 2 * FilePages
    BY PcNumbers
  <2>2. Least(n, PrefetchLimit) \in Nat /\ Least(n, PrefetchLimit) <= n
    BY PageCacheAssumption DEF Least
  <2> DEFINE end == Unit * (p + Least(n, PrefetchLimit))
             pos == Unit * p
  <2>3. pos \in Nat /\ end \in Nat /\ end <= MaxSize
    BY <2>1, <2>2 DEF Unit
  <2>4. PcStarts(t) /\ PcGo(t, [at |-> "prefetch", pos |-> pos, end |-> end])
          /\ UNCHANGED <<file, pages, freeFrames, changed>>
    BY <1>4 DEF PcPrefetch
  <2> HIDE DEF pos, end
  <2> QED BY <2>3, <2>4, PcSpans, PcBegins
<1>5. ASSUME NEW n \in 1..Unit, PcAppend(t, n) PROVE PcInv'
  <2>1. file.size \in Nat /\ file.size + n \in Nat
    BY PcNumbers DEF PcInv, PcTypeOK, Unit
  <2> QED BY <1>5, <2>1, PcSpans, PcBegins DEF PcAppend
<1> QED BY <1>1, <1>2, <1>3, <1>4, <1>5

(* What is known of a call that reads, prefetches or loads.                *)
LEMMA PcSpanForm ==
    ASSUME PcInv, NEW t \in PcThread, pcCall[t].at \in {"read", "prefetch", "load"}
    PROVE  LET call == pcCall[t]
           IN  /\ call.pos \in Nat /\ call.end \in Nat /\ call.end <= MaxSize
               /\ call.at # "load" => call = [at |-> call.at, pos |-> call.pos, end |-> call.end]
               /\ call.at # "prefetch" => call.pos < call.end
               /\ call.at # "load" => HeldBy(call) = {}
               /\ Wanted(call) \in Nat
               /\ call.pos < call.end => Wanted(call) \in Pages
<1> DEFINE call == pcCall[t]
<1>1. call \in PcCallOf /\ InRange(call)
  BY DEF PcInv, PcTypeOK
<1>2. call.pos \in Nat /\ call.end \in 0..MaxSize
  BY <1>1, PcCallForms
<1>3. call.at # "load" => call = [at |-> call.at, pos |-> call.pos, end |-> call.end]
  BY <1>1, PcCallForms
<1>4. call.at # "prefetch" => call.pos < call.end
  BY <1>1 DEF InRange
<1>5. call.at # "load" => HeldBy(call) = {}
  BY DEF HeldBy
<1>6. call.pos < call.end => Wanted(call) \in Pages
  BY <1>2, WantedPage
<1>7. Wanted(call) \in Nat
  BY <1>2 DEF Wanted, Unit
<1> QED BY <1>2, <1>3, <1>4, <1>5, <1>6, <1>7, PcNumbers

(* A read that finds its page goes on behind it.                           *)
LEMMA ReadCopyKeeps ==
    ASSUME PcInv, NEW t \in PcThread, ReadCopy(t)
    PROVE  PcInv'
<1> DEFINE call == pcCall[t]
           p == Wanted(call)
           chunk == Least(call.end - call.pos, pages[p].len - (call.pos % Unit))
           ends == chunk <= 0 \/ pages[p].len < Unit \/ call.pos + chunk = call.end
<1>1. /\ call.at = "read" /\ p \in DOMAIN pages
      /\ PcGo(t, IF ends THEN PcIdle ELSE [call EXCEPT !.pos = @ + chunk])
      /\ UNCHANGED <<file, pages, freeFrames, pcCalls, changed>>
  BY DEF ReadCopy
<1>2. /\ call.pos \in Nat /\ call.end \in Nat /\ call.end <= MaxSize
      /\ call = [at |-> "read", pos |-> call.pos, end |-> call.end]
      /\ call.pos < call.end /\ HeldBy(call) = {}
  BY <1>1, PcSpanForm
<1>3. pages[p].len \in Nat
  BY <1>1, LenProperties DEF PcInv, PcTypeOK, EntryOf
<1>4. chunk \in Int /\ chunk <= call.end - call.pos
  <2> HIDE DEF call, p
  <2> QED BY <1>2, <1>3 DEF Least, Unit
<1>5. pcCalls' \in Nat
  BY <1>1 DEF PcInv, PcTypeOK
<1> HIDE DEF chunk
<1>6. CASE ends
  BY <1>1, <1>6, <1>2, <1>5, PcEnds, PcQuiet
<1>7. CASE ~ends
  <2> DEFINE pos == call.pos + chunk
  <2>1. pos \in Nat /\ pos < call.end
    BY <1>2, <1>4, <1>7
  <2>2. [call EXCEPT !.pos = @ + chunk] = [at |-> "read", pos |-> pos, end |-> call.end]
    BY <1>2
  <2>3. PcGo(t, [at |-> "read", pos |-> pos, end |-> call.end])
    BY <1>1, <1>7, <2>2
  <2> HIDE DEF pos
  <2> QED BY <1>1, <1>2, <1>5, <2>1, <2>3, PcSpans, PcQuiet
<1> QED BY <1>6, <1>7

(* A prefetch passes over pages that are there.                            *)
LEMMA PrefetchSkipKeeps ==
    ASSUME PcInv, NEW t \in PcThread, PrefetchSkip(t)
    PROVE  PcInv'
<1> DEFINE call == pcCall[t]
<1>1. call.at = "prefetch" /\ UNCHANGED <<file, pages, freeFrames, pcCalls, changed>>
  BY DEF PrefetchSkip
<1>2. /\ call.pos \in Nat /\ call.end \in Nat /\ call.end <= MaxSize
      /\ call = [at |-> "prefetch", pos |-> call.pos, end |-> call.end] /\ HeldBy(call) = {}
  BY <1>1, PcSpanForm
<1>3. pcCalls' \in Nat
  BY <1>1 DEF PcInv, PcTypeOK
<1>4. CASE PcGo(t, PcIdle)
  BY <1>1, <1>2, <1>3, <1>4, PcEnds, PcQuiet
<1>5. CASE PcGo(t, [call EXCEPT !.pos = @ + Unit])
  <2> DEFINE pos == call.pos + Unit
  <2>1. pos \in Nat
    BY <1>2 DEF Unit
  <2>2. [call EXCEPT !.pos = @ + Unit] = [at |-> "prefetch", pos |-> pos, end |-> call.end]
    BY <1>2
  <2>3. PcGo(t, [at |-> "prefetch", pos |-> pos, end |-> call.end])
    BY <1>5, <2>2
  <2> HIDE DEF pos
  <2> QED BY <1>1, <1>2, <1>3, <2>1, <2>3, PcSpans, PcQuiet
<1> QED BY <1>4, <1>5 DEF PrefetchSkip

(* A load takes a free frame, or gives up when there is none.              *)
LEMMA LoadStartKeeps ==
    ASSUME PcInv, NEW t \in PcThread, LoadStart(t)
    PROVE  PcInv'
<1> DEFINE call == pcCall[t]
           p == Wanted(call)
<1>1. call.at \in {"read", "prefetch"} /\ call.pos < call.end /\ UNCHANGED <<file, pages, pcCalls, changed>>
  BY DEF LoadStart
<1>2. /\ call.pos \in Nat /\ call.end \in Nat /\ call.end <= MaxSize
      /\ call = [at |-> call.at, pos |-> call.pos, end |-> call.end]
      /\ HeldBy(call) = {} /\ p \in Pages /\ p \in Nat
  BY <1>1, PcSpanForm
<1>3. pcCalls' \in Nat /\ pcCall[t].at # "invalidate"
  BY <1>1 DEF PcInv, PcTypeOK
<1>4. FramesSpread /\ freeFrames \subseteq CacheFrames /\ changed[p] \in Nat /\ file.size \in 0..MaxSize
  BY <1>2, FramesForm DEF PcInv, PcTypeOK
<1>5. ASSUME NEW f \in freeFrames, freeFrames' = freeFrames \ {f},
             PcGo(t, [at |-> "load", for |-> call.at, pos |-> call.pos, end |-> call.end,
                      frame |-> f, got |-> <<>>, seen |-> changed[p]])
      PROVE  PcInv'
  <2> DEFINE load == [at |-> "load", for |-> call.at, pos |-> call.pos, end |-> call.end,
                      frame |-> f, got |-> <<>>, seen |-> changed[p]]
  <2>1. load \in [at : {"load"}, for : {"read", "prefetch"}, pos : Nat, end : 0..MaxSize,
                  frame : CacheFrames, got : Seq(Nat), seen : Nat]
    <3>1. call.end \in 0..MaxSize /\ <<>> \in Seq(Nat) /\ f \in CacheFrames
      BY <1>2, <1>4, PcNumbers
    <3> HIDE DEF call, p
    <3> QED BY <1>1, <1>2, <1>4, <3>1 DEF call
  <2>2. load \in PcCallOf
    BY <2>1 DEF PcCallOf
  <2>3. InRange(load) /\ HeldBy(load) = {f} /\ Wanted(load) = p
    BY <1>1 DEF InRange, HeldBy, Wanted
  <2>4. LoadFresh(load)
    <3>1. 0 <= PageLen(file, p)
      BY <1>2, <1>4, PageLength DEF Unit
    <3>2. load.got = <<>> /\ load.seen = changed[p]
      OBVIOUS
    <3> HIDE DEF load, p
    <3> QED BY <1>4, <2>3, <3>1, <3>2 DEF LoadFresh
  <2>5. PcGo(t, load)
    BY <1>5
  <2> HIDE DEF load
  <2>6. \A q \in DOMAIN pages' : Enters(t, q)
    BY <1>1 DEF Enters
  <2>7. \A q \in DOMAIN pages' : pages'[q].frame \notin freeFrames' \cup HeldBy(load)
    BY <1>1, <1>4, <1>5, <2>3 DEF FramesSpread
  <2>8. \A g \in HeldBy(load) : g \notin freeFrames'
    BY <1>5, <2>3
  <2>9. \A g : (\/ g \in freeFrames
                \/ \E q \in DOMAIN pages : pages[q].frame = g
                \/ g \in HeldBy(pcCall[t]))
               <=> \/ g \in freeFrames'
                   \/ \E q \in DOMAIN pages' : pages'[q].frame = g
                   \/ g \in HeldBy(load)
    BY <1>1, <1>2, <1>5, <2>3
  <2> QED BY <1>1, <1>3, <2>2, <2>3, <2>4, <2>5, <2>6, <2>7, <2>8, <2>9, PcMoves
<1>6. CASE /\ UNCHANGED freeFrames
           /\ PcGo(t, IF call.at = "read" THEN PcIdle
                      ELSE [call EXCEPT !.pos = Unit * (Wanted(call) + 1)])
  <2>1. CASE call.at = "read"
    BY <1>1, <1>2, <1>3, <1>6, <2>1, PcEnds, PcQuiet
  <2>2. CASE call.at = "prefetch"
    <3> DEFINE pos == Unit * (Wanted(call) + 1)
    <3>1. pos \in Nat
      BY <1>2 DEF Unit
    <3>2. [call EXCEPT !.pos = pos] = [at |-> "prefetch", pos |-> pos, end |-> call.end]
      BY <1>2, <2>2
    <3>3. PcGo(t, [at |-> "prefetch", pos |-> pos, end |-> call.end])
      BY <1>6, <2>2, <3>2
    <3> HIDE DEF pos
    <3> QED BY <1>1, <1>2, <1>3, <1>6, <3>1, <3>3, PcSpans, PcQuiet
  <2> QED BY <1>1, <2>1, <2>2
<1> QED BY <1>5, <1>6 DEF LoadStart

(* What is known of a load, and where it goes when it ends.                *)
LEMMA LoadForm ==
    ASSUME PcInv, NEW t \in PcThread, Loading(t)
    PROVE  LET call == pcCall[t]
               p == Wanted(call)
           IN  /\ call = [at |-> "load", for |-> call.for, pos |-> call.pos, end |-> call.end,
                          frame |-> call.frame, got |-> call.got, seen |-> call.seen]
               /\ call.at = "load" /\ HeldBy(call) = {call.frame}
               /\ call.frame \in CacheFrames /\ call.got \in Seq(Nat) /\ call.seen \in Nat
               /\ call.for \in {"read", "prefetch"}
               /\ call.pos \in Nat /\ call.end \in 0..MaxSize /\ call.pos < call.end
               /\ p \in Pages /\ p \in Nat /\ LoadFresh(call)
               /\ \A after \in {PcIdle, AfterLoad(call)} :
                    after \in PcCallOf /\ InRange(after) /\ HeldBy(after) = {} /\ after.at # "load"
<1> DEFINE call == pcCall[t]
           p == Wanted(call)
<1>1. call \in PcCallOf /\ call.at = "load"
  BY DEF Loading, PcInv, PcTypeOK
<1>2. call \in [at : {"load"}, for : {"read", "prefetch"}, pos : Nat, end : 0..MaxSize,
                frame : CacheFrames, got : Seq(Nat), seen : Nat]
  BY <1>1, PcCallForms
<1>3. /\ call.pos \in Nat /\ call.end \in Nat /\ call.end <= MaxSize
      /\ call.pos < call.end /\ p \in Nat /\ p \in Pages
  BY <1>1, PcSpanForm
<1>4. HeldBy(call) = {call.frame}
  BY <1>1 DEF HeldBy
<1>5. LoadFresh(call)
  BY <1>1 DEF PcInv, LoadsFresh
<1>6. LET after == AfterLoad(call)
      IN  after \in PcCallOf /\ InRange(after) /\ HeldBy(after) = {} /\ after.at # "load"
  <2> DEFINE pos == Unit * (Wanted(call) + 1)
  <2>1. pos \in Nat
    BY <1>3 DEF Unit
  <2>2. \/ AfterLoad(call) = [at |-> "read", pos |-> call.pos, end |-> call.end]
        \/ AfterLoad(call) = [at |-> "prefetch", pos |-> pos, end |-> call.end]
    BY DEF AfterLoad
  <2> HIDE DEF pos, call
  <2> QED BY <1>3, <2>1, <2>2, PcSpans
<1>7. PcIdle \in PcCallOf /\ InRange(PcIdle) /\ HeldBy(PcIdle) = {} /\ PcIdle.at # "load"
  BY PcEnds
<1> QED BY <1>1, <1>2, <1>3, <1>4, <1>5, <1>6, <1>7

(* A load that comes to nothing gives its frame back.                      *)
LEMMA LoadGivesBack ==
    ASSUME PcInv, NEW t \in PcThread, Loading(t), NEW after \in {PcIdle, AfterLoad(pcCall[t])},
           PcGo(t, after), freeFrames' = freeFrames \cup {pcCall[t].frame},
           UNCHANGED <<file, pages, pcCalls, changed>>
    PROVE  PcInv'
<1>1. /\ after \in PcCallOf /\ InRange(after) /\ HeldBy(after) = {} /\ after.at # "load"
      /\ HeldBy(pcCall[t]) = {pcCall[t].frame} /\ pcCall[t].at = "load"
  BY LoadForm
<1>2. FramesSpread
  BY FramesForm DEF PcInv
<1>3. pcCalls' \in Nat
  BY DEF PcInv, PcTypeOK
<1>4. \A q \in DOMAIN pages' : Enters(t, q)
  BY DEF Enters
<1>5. \A q \in DOMAIN pages' : pages'[q].frame \notin freeFrames' \cup HeldBy(after)
  BY <1>1, <1>2 DEF FramesSpread
<1>6. \A g \in HeldBy(after) : g \notin freeFrames'
  BY <1>1
<1>7. \A g : (\/ g \in freeFrames
              \/ \E q \in DOMAIN pages : pages[q].frame = g
              \/ g \in HeldBy(pcCall[t]))
             <=> \/ g \in freeFrames'
                 \/ \E q \in DOMAIN pages' : pages'[q].frame = g
                 \/ g \in HeldBy(after)
  BY <1>1
<1> QED BY <1>1, <1>3, <1>4, <1>5, <1>6, <1>7, PcMoves

(* A failed read of the file ends a load.                                  *)
LEMMA LoadFailKeeps ==
    ASSUME PcInv, NEW t \in PcThread, LoadFail(t)
    PROVE  PcInv'
  BY LoadGivesBack DEF LoadFail

(* What is read more is what the file holds now.                           *)
LEMMA LoadChunkKeeps ==
    ASSUME PcInv, NEW t \in PcThread, LoadChunk(t)
    PROVE  PcInv'
<1> DEFINE call == pcCall[t]
           p == Wanted(call)
           len == PageLen(file, p)
<1>1. Loading(t) /\ UNCHANGED <<file, pages, freeFrames, pcCalls, changed>>
  BY DEF LoadChunk
<1>2. PICK n \in 1..(len - Len(call.got)) :
        PcGo(t, [call EXCEPT !.got = @ \o
                   [k \in 1..n |-> file.units[Unit * p + Len(call.got) + k - 1]]])
  BY DEF LoadChunk
<1>3. /\ call = [at |-> "load", for |-> call.for, pos |-> call.pos, end |-> call.end,
                 frame |-> call.frame, got |-> call.got, seen |-> call.seen]
      /\ call.at = "load" /\ HeldBy(call) = {call.frame}
      /\ call.frame \in CacheFrames /\ call.got \in Seq(Nat) /\ call.seen \in Nat
      /\ call.for \in {"read", "prefetch"}
      /\ call.pos \in Nat /\ call.end \in 0..MaxSize /\ call.pos < call.end
      /\ p \in Pages /\ p \in Nat /\ LoadFresh(call)
  BY <1>1, LoadForm
<1>4. /\ file.size \in 0..MaxSize /\ file.units \in [0..(MaxSize - 1) -> Nat]
      /\ pcCalls' \in Nat
  BY <1>1 DEF PcInv, PcTypeOK
<1>5. len \in Nat /\ \A k \in 0..(len - 1) : Unit * p + k \in 0..(MaxSize - 1)
  BY <1>3, <1>4, PageLength DEF Unit
<1> DEFINE more == [k \in 1..n |-> file.units[Unit * p + Len(call.got) + k - 1]]
           got == call.got \o more
           next == [at |-> "load", for |-> call.for, pos |-> call.pos, end |-> call.end,
                    frame |-> call.frame, got |-> got, seen |-> call.seen]
<1>6. Len(call.got) \in Nat /\ n \in Nat /\ Len(call.got) + n <= len
  <2>1. Len(call.got) \in Nat
    BY <1>3, LenProperties
  <2> HIDE DEF call, len
  <2> QED BY <1>5, <2>1
<1>7. more \in Seq(Nat) /\ Len(more) = n
  <2>1. ASSUME NEW k \in 1..n PROVE file.units[Unit * p + Len(call.got) + k - 1] \in Nat
    <3> DEFINE m == Len(call.got) + k - 1
    <3> HIDE DEF len, call, p
    <3>1. m \in 0..(len - 1) /\ Unit * p + m = Unit * p + Len(call.got) + k - 1
      BY <1>3, <1>5, <1>6, SMTT(40) DEF Unit
    <3>2. Unit * p + m \in 0..(MaxSize - 1)
      BY <1>5, <3>1
    <3> QED BY <1>4, <3>1, <3>2
  <2>2. more \in [1..n -> Nat]
    BY <2>1
  <2> QED BY <1>6, <2>2, IsASeq, LenProperties
<1>8. /\ got \in Seq(Nat) /\ Len(got) = Len(call.got) + n
      /\ \A i \in 1..(Len(call.got) + n) :
           got[i] = IF i <= Len(call.got) THEN call.got[i] ELSE more[i - Len(call.got)]
  BY <1>3, <1>7, ConcatProperties
<1>9. PcGo(t, next)
  <2>1. [call EXCEPT !.got = got] = next
    <3> HIDE DEF got, call
    <3> QED BY <1>3
  <2> QED BY <1>2, <2>1
<1>10. next \in PcCallOf /\ InRange(next) /\ HeldBy(next) = HeldBy(call) /\ Wanted(next) = p
  <2>1. next \in [at : {"load"}, for : {"read", "prefetch"}, pos : Nat, end : 0..MaxSize,
                  frame : CacheFrames, got : Seq(Nat), seen : Nat]
    <3> HIDE DEF got
    <3> QED BY <1>3, <1>8
  <2>2. next.at = "load" /\ next.frame = call.frame /\ next.pos = call.pos /\ next.end = call.end
    OBVIOUS
  <2> HIDE DEF next
  <2> QED BY <1>3, <2>1, <2>2 DEF PcCallOf, InRange, HeldBy, Wanted
<1>11. LoadFresh(next)
  <2>1. next.got = got /\ next.seen = call.seen /\ Wanted(next) = p
    BY <1>10
  <2>2. ASSUME call.seen = changed[p]
        PROVE  /\ Len(got) <= PageLen(file, p)
               /\ \A k \in 1..Len(got) : got[k] = file.units[Unit * p + k - 1]
    <3>1. \A k \in 1..Len(call.got) : call.got[k] = file.units[Unit * p + k - 1]
      BY <1>3, <2>2 DEF LoadFresh
    <3>2. ASSUME NEW k \in 1..Len(got) PROVE got[k] = file.units[Unit * p + k - 1]
      <4>1. CASE k <= Len(call.got)
        BY <1>6, <1>8, <3>1, <3>2, <4>1
      <4>2. CASE ~(k <= Len(call.got))
        <5> DEFINE i == k - Len(call.got)
        <5>1. got[k] = more[i]
          <6> HIDE DEF got, more, call
          <6> QED BY <1>6, <1>8, <4>2
        <5>2. i \in 1..n /\ Unit * p + Len(call.got) + i - 1 = Unit * p + k - 1
          <6> DEFINE l == Len(call.got)
          <6>1. l \in Nat /\ n \in Nat /\ k \in 1..(l + n) /\ ~(k <= l) /\ p \in Nat
            BY <1>3, <1>6, <1>8, <4>2
          <6>2. Unit * p \in Nat
            BY <6>1 DEF Unit
          <6> HIDE DEF l
          <6>3. k - l \in 1..n /\ Unit * p + l + (k - l) - 1 = Unit * p + k - 1
            BY <6>1, <6>2
          <6> QED BY <6>3 DEF l
        <5>3. more[i] = file.units[Unit * p + Len(call.got) + i - 1]
          BY <5>2
        <5> QED BY <5>1, <5>2, <5>3
      <4> QED BY <4>1, <4>2
    <3> QED BY <1>6, <1>8, <3>2
  <2>3. call.seen <= changed[p]
    BY <1>3 DEF LoadFresh
  <2> HIDE DEF next, got, p, call
  <2> QED BY <2>1, <2>2, <2>3 DEF LoadFresh
<1> HIDE DEF next
<1>12. pcCall[t].at # "invalidate"
  BY <1>3
<1> QED BY <1>1, <1>4, <1>9, <1>10, <1>11, <1>12, PcQuiet

(* A page that nobody has entered before enters with what the file holds,  *)
(* and the page it displaces gives its frame back.                         *)
LEMMA PageEnters ==
    ASSUME PcInv, NEW t \in PcThread, Loading(t), ~LoadMore(t),
           NEW p, p = Wanted(pcCall[t]), p \notin DOMAIN pages,
           NEW out \in SUBSET DOMAIN pages, NEW entry,
           entry = [frame |-> pcCall[t].frame, len |-> Len(pcCall[t].got), got |-> pcCall[t].got,
                    raced |-> pcCall[t].seen # changed[p], missed |-> FALSE],
           pages' = [q \in (DOMAIN pages \ out) \cup {p} |-> IF q = p THEN entry ELSE pages[q]],
           freeFrames' = freeFrames \cup {pages[q].frame : q \in out},
           PcGo(t, AfterLoad(pcCall[t])), UNCHANGED <<file, pcCalls, changed>>
    PROVE  PcInv'
<1> DEFINE call == pcCall[t]
           after == AfterLoad(call)
           raced == call.seen # changed[p]
<1>1. /\ call.at = "load" /\ HeldBy(call) = {call.frame}
      /\ call.frame \in CacheFrames /\ call.got \in Seq(Nat) /\ call.seen \in Nat
      /\ p \in Pages /\ p \in Nat /\ LoadFresh(call)
      /\ after \in PcCallOf /\ InRange(after) /\ HeldBy(after) = {} /\ after.at # "load"
  BY LoadForm
<1>2. FramesSpread /\ pcCalls' \in Nat /\ file.size \in 0..MaxSize
  BY FramesForm DEF PcInv, PcTypeOK
<1>3. /\ DOMAIN pages' = (DOMAIN pages \ out) \cup {p}
      /\ pages'[p] = entry
      /\ \A q \in DOMAIN pages \ out : pages'[q] = pages[q]
  OBVIOUS
<1>4. entry = [frame |-> call.frame, len |-> Len(call.got), got |-> call.got,
               raced |-> raced, missed |-> FALSE]
  OBVIOUS
<1>5. /\ entry.frame = call.frame /\ entry.len = Len(call.got) /\ entry.got = call.got
      /\ entry.raced = raced /\ EntryOf(entry)
  <2> HIDE DEF raced, call
  <2>1. /\ entry.frame = call.frame /\ entry.len = Len(call.got) /\ entry.got = call.got
        /\ entry.raced = raced /\ entry.missed = FALSE
    BY <1>4
  <2> QED BY <1>1, <1>4, <2>1 DEF EntryOf
<1>6. EntryFresh(entry, p)
  <2>1. CASE raced
    BY <1>5, <2>1 DEF EntryFresh
  <2>2. CASE ~raced
    <3> DEFINE len == PageLen(file, p)
               l == Len(call.got)
    <3>1. len \in Nat /\ l \in Nat
      BY <1>1, <1>2, PageLength, LenProperties, SMTT(40) DEF Unit
    <3>2. l <= len /\ \A k \in 1..l : call.got[k] = file.units[Unit * p + k - 1]
      BY <1>1, <2>2 DEF LoadFresh
    <3>3. ~(len > l)
      BY DEF LoadMore
    <3>4. l = len
      <4> HIDE DEF l, len
      <4> QED BY <3>1, <3>2, <3>3
    <3>5. ASSUME NEW k \in 0..(l - 1)
          PROVE  entry.got[k + 1] = file.units[Unit * p + k]
      <4>1. k + 1 \in 1..l /\ Unit * p + (k + 1) - 1 = Unit * p + k
        <5> HIDE DEF l
        <5> QED BY <1>1, <3>1 DEF Unit
      <4> QED BY <1>5, <3>2, <4>1
    <3>6. [k \in 0..(entry.len - 1) |-> entry.got[k + 1]] = PageOf(file, p)
      <4>1. entry.len = len
        BY <1>5, <3>4
      <4> HIDE DEF l, len
      <4>2. [k \in 0..(len - 1) |-> entry.got[k + 1]] = [k \in 0..(len - 1) |-> file.units[Unit * p + k]]
        BY <3>4, <3>5
      <4> QED BY <4>1, <4>2 DEF PageOf, len
    <3> QED BY <3>6 DEF EntryFresh
  <2> QED BY <2>1, <2>2
<1>7. \A q \in DOMAIN pages' : Enters(t, q)
  BY <1>1, <1>3, <1>5, <1>6 DEF Enters
<1>8. \A q, r \in DOMAIN pages' : q \notin DOMAIN pages /\ r \notin DOMAIN pages => q = r
  BY <1>3
<1>9. \A g : (\/ g \in freeFrames
              \/ \E q \in DOMAIN pages : pages[q].frame = g
              \/ g \in HeldBy(call))
             <=> \/ g \in freeFrames'
                 \/ \E q \in DOMAIN pages' : pages'[q].frame = g
                 \/ g \in HeldBy(after)
  <2> HIDE DEF after, call
  <2> SUFFICES ASSUME NEW g
               PROVE  (\/ g \in freeFrames
                       \/ \E q \in DOMAIN pages : pages[q].frame = g
                       \/ g \in HeldBy(call))
                      <=> \/ g \in freeFrames'
                          \/ \E q \in DOMAIN pages' : pages'[q].frame = g
                          \/ g \in HeldBy(after)
    OBVIOUS
  <2>1. g \in HeldBy(call) <=> pages'[p].frame = g
    BY <1>1, <1>3, <1>5
  <2>2. (\E q \in DOMAIN pages' : pages'[q].frame = g) <=>
           pages'[p].frame = g \/ \E q \in DOMAIN pages \ out : pages[q].frame = g
    BY <1>3
  <2>3. g \in freeFrames' <=> g \in freeFrames \/ \E q \in out : pages[q].frame = g
    OBVIOUS
  <2>4. (\E q \in DOMAIN pages : pages[q].frame = g) <=>
           (\E q \in out : pages[q].frame = g) \/ \E q \in DOMAIN pages \ out : pages[q].frame = g
    OBVIOUS
  <2> QED BY <1>1, <2>1, <2>2, <2>3, <2>4
<1>10. \A q \in DOMAIN pages' : pages'[q].frame \notin freeFrames' \cup HeldBy(after)
  <2>1. call.frame \notin freeFrames /\ \A q \in DOMAIN pages : pages[q].frame # call.frame
    BY <1>1, <1>2 DEF FramesSpread
  <2>2. ASSUME NEW q \in DOMAIN pages \ out PROVE pages[q].frame \notin freeFrames'
    BY <1>2 DEF FramesSpread
  <2> HIDE DEF after, call
  <2>3. entry.frame \notin freeFrames'
    BY <1>5, <2>1
  <2> QED BY <1>1, <1>3, <2>2, <2>3
<1> HIDE DEF after
<1>11. \A g \in HeldBy(after) : g \notin freeFrames'
  BY <1>1
<1>12. pcCall[t].at # "invalidate" /\ PcGo(t, after)
  BY <1>1 DEF after
<1> QED BY <1>1, <1>2, <1>7, <1>8, <1>9, <1>10, <1>11, <1>12, PcMoves

(* insert_page: whoever enters a page first keeps it there.                *)
LEMMA LoadInsertKeeps ==
    ASSUME PcInv, NEW t \in PcThread, LoadInsert(t)
    PROVE  PcInv'
<1> DEFINE call == pcCall[t]
           p == Wanted(call)
           entry == [frame |-> call.frame, len |-> Len(call.got), got |-> call.got,
                     raced |-> call.seen # changed[p], missed |-> FALSE]
<1>1. Loading(t) /\ ~LoadMore(t) /\ UNCHANGED <<file, pcCalls, changed>>
  BY DEF LoadInsert
<1>2. CASE call.got = <<>>
  BY <1>2, <1>1, LoadGivesBack DEF LoadInsert
<1>3. CASE call.got # <<>> /\ p \in DOMAIN pages
  BY <1>3, <1>1, LoadGivesBack DEF LoadInsert, Losers
<1>4. CASE call.got # <<>> /\ p \notin DOMAIN pages
  <2>1. /\ pages' = [q \in (DOMAIN pages \ Evicted) \cup {p} |-> IF q = p THEN entry ELSE pages[q]]
        /\ freeFrames' = freeFrames \cup {} \cup {pages[q].frame : q \in Evicted}
        /\ PcGo(t, AfterLoad(call))
    BY <1>4 DEF LoadInsert, Losers
  <2>2. freeFrames' = freeFrames \cup {pages[q].frame : q \in Evicted}
    BY <2>1
  <2>3. Evicted \in SUBSET DOMAIN pages
    BY DEF Evicted
  <2> HIDE DEF entry
  <2>4. entry = [frame |-> pcCall[t].frame, len |-> Len(pcCall[t].got), got |-> pcCall[t].got,
                 raced |-> pcCall[t].seen # changed[p], missed |-> FALSE]
    BY DEF entry
  <2> HIDE DEF p
  <2>5. p = Wanted(pcCall[t])
    BY DEF p
  <2> QED BY <1>1, <1>4, <2>1, <2>2, <2>3, <2>4, <2>5, PageEnters
<1> QED BY <1>2, <1>3, <1>4

(* The pages of the range go, and their frames are free.                   *)
LEMMA InvalidateKeeps ==
    ASSUME PcInv, NEW t \in PcThread, Invalidate(t)
    PROVE  PcInv'
<1> DEFINE drop == pcCall[t].drop \cap DOMAIN pages
<1>1. /\ pcCall[t].at = "invalidate" /\ PcGo(t, PcIdle) /\ UNCHANGED <<file, pcCalls, changed>>
      /\ freeFrames' = freeFrames \cup {pages[p].frame : p \in drop}
      /\ pages' = [p \in DOMAIN pages \ drop |-> pages[p]]
  BY DEF Invalidate, Invalidated
<1>2. FramesSpread /\ pcCalls' \in Nat
  BY <1>1, FramesForm DEF PcInv, PcTypeOK
<1>3. HeldBy(pcCall[t]) = {} /\ HeldBy(PcIdle) = {} /\ PcIdle \in PcCallOf /\ InRange(PcIdle)
        /\ PcIdle.at # "load"
  BY <1>1, PcEnds DEF HeldBy
<1>4. DOMAIN pages' = DOMAIN pages \ drop /\ \A p \in DOMAIN pages' : pages'[p] = pages[p]
  BY <1>1
<1>5. DOMAIN pages' \cap pcCall[t].drop = {}
  BY <1>4
<1> HIDE DEF drop
<1>6. \A p \in DOMAIN pages' : Enters(t, p)
  BY <1>4 DEF Enters
<1>7. \A g : (\/ g \in freeFrames
              \/ \E p \in DOMAIN pages : pages[p].frame = g
              \/ g \in HeldBy(pcCall[t]))
             <=> \/ g \in freeFrames'
                 \/ \E p \in DOMAIN pages' : pages'[p].frame = g
                 \/ g \in HeldBy(PcIdle)
  BY <1>1, <1>3, <1>4 DEF drop
<1>8. ASSUME NEW p \in DOMAIN pages' PROVE pages'[p].frame \notin freeFrames' \cup HeldBy(PcIdle)
  BY <1>4, <1>2, <1>1, <1>3 DEF drop, FramesSpread
<1> QED BY <1>1, <1>2, <1>3, <1>4, <1>5, <1>6, <1>7, <1>8, PcMoves

(* Memory shortage: everything leaves the cache at once, and is free when  *)
(* the handler has released it.                                            *)
LEMMA ReclaimKeeps ==
    ASSUME PcInv, NEW t \in PcThread, Reclaim(t) \/ ReclaimRelease(t)
    PROVE  PcInv'
<1>0. FramesSpread /\ pcCalls \in Nat
  BY FramesForm DEF PcInv, PcTypeOK
<1>1. CASE Reclaim(t)
  <2> DEFINE frames == {pages[p].frame : p \in DOMAIN pages}
             call == [at |-> "release", frames |-> frames]
  <2>1. /\ pcCall[t] = PcIdle /\ pcCalls' = pcCalls + 1 /\ PcGo(t, call)
        /\ pages' = <<>> /\ UNCHANGED <<file, freeFrames, changed>>
    BY <1>1 DEF Reclaim, PcStarts
  <2>2. DOMAIN pages' = {} /\ pcCalls' \in Nat
    BY <1>0, <2>1
  <2>3. frames \in SUBSET CacheFrames
    BY DEF PcInv, PcTypeOK, EntryOf
  <2>4. call \in PcCallOf /\ InRange(call) /\ HeldBy(call) = frames /\ call.at # "load"
    <3> HIDE DEF frames
    <3> QED BY <2>3 DEF PcCallOf, InRange, HeldBy
  <2>5. HeldBy(pcCall[t]) = {} /\ pcCall[t].at # "invalidate"
    BY <2>1, PcEnds
  <2> HIDE DEF call
  <2>6. \A p \in DOMAIN pages' : Enters(t, p)
    BY <2>2
  <2>7. \A g \in HeldBy(call) : g \notin freeFrames'
    BY <1>0, <2>1, <2>4 DEF FramesSpread
  <2>8. \A g : (\/ g \in freeFrames
                \/ \E p \in DOMAIN pages : pages[p].frame = g
                \/ g \in HeldBy(pcCall[t]))
               <=> \/ g \in freeFrames'
                   \/ \E p \in DOMAIN pages' : pages'[p].frame = g
                   \/ g \in HeldBy(call)
    BY <2>1, <2>2, <2>4, <2>5
  <2> QED BY <2>1, <2>2, <2>4, <2>5, <2>6, <2>7, <2>8, PcMoves
<1>2. CASE ReclaimRelease(t)
  BY <1>2, PcEnds, <1>0, PcMoves DEF ReclaimRelease, HeldBy, Enters, FramesSpread
<1> QED BY <1>1, <1>2

(* The file after a write, or cut, is a file.                              *)
LEMMA FileForms ==
    ASSUME PcInv, pcCalls' \in Nat
    PROVE  /\ \A pos \in Nat : \A end \in 0..MaxSize :
                PcWritten(pos, end) \in [size : 0..MaxSize, units : [0..(MaxSize - 1) -> Nat]]
           /\ \A size \in 0..MaxSize :
                [size |-> size, units |-> [u \in DOMAIN file.units |-> IF u < size THEN file.units[u] ELSE 0]]
                  \in [size : 0..MaxSize, units : [0..(MaxSize - 1) -> Nat]]
<1>1. file.size \in 0..MaxSize /\ file.units \in [0..(MaxSize - 1) -> Nat]
  BY DEF PcInv, PcTypeOK
<1>2. ASSUME NEW pos \in Nat, NEW end \in 0..MaxSize
      PROVE  PcWritten(pos, end) \in [size : 0..MaxSize, units : [0..(MaxSize - 1) -> Nat]]
  <2> DEFINE units == [u \in DOMAIN file.units |-> IF pos <= u /\ u < end THEN pcCalls' + 1 ELSE file.units[u]]
             size == IF end > file.size THEN end ELSE file.size
  <2>1. units \in [0..(MaxSize - 1) -> Nat]
    <3> DEFINE value == pcCalls' + 1
    <3>1. value \in Nat
      <4>1. \A n \in Nat : n + 1 \in Nat
        OBVIOUS
      <4>2. pcCalls' \in Nat
        OBVIOUS
      <4> QED BY ONLY <4>1, <4>2
    <3>2. units = [u \in DOMAIN file.units |-> IF pos <= u /\ u < end THEN value ELSE file.units[u]]
      OBVIOUS
    <3> HIDE DEF value, units
    <3> QED BY <1>1, <3>1, <3>2
  <2>2. size \in 0..MaxSize
    BY <1>1
  <2>3. PcWritten(pos, end) = [size |-> size, units |-> units]
    BY DEF PcWritten
  <2> HIDE DEF size, units
  <2> QED BY <2>1, <2>2, <2>3
<1>3. ASSUME NEW size \in 0..MaxSize
      PROVE  [size |-> size, units |-> [u \in DOMAIN file.units |-> IF u < size THEN file.units[u] ELSE 0]]
               \in [size : 0..MaxSize, units : [0..(MaxSize - 1) -> Nat]]
  BY <1>1
<1> QED BY <1>2, <1>3

(* A step that changes the file, by a call that holds no frame.            *)
LEMMA FileChanges ==
    ASSUME PcInv, NEW t \in PcThread, NEW call \in PcCallOf, InRange(call), PcGo(t, call),
           NEW new \in [size : 0..MaxSize, units : [0..(MaxSize - 1) -> Nat]], NEW told,
           FileBecomes(new, told), UNCHANGED freeFrames, pcCalls' \in Nat,
           pcCall[t].at \in {"idle", "write"},
           \/ call = PcIdle /\ told = {}
           \/ call.at = "invalidate" /\ told = call.drop
    PROVE  PcInv'
<1>1. /\ pcCall' \in [PcThread -> PcCallOf] /\ \A o \in PcThread : InRange(pcCall'[o])
      /\ \A o \in PcThread : pcCall'[o] = IF o = t THEN call ELSE pcCall[o]
  BY PcGoes DEF PcInv
<1>2. call.at \in {"idle", "invalidate"} /\ HeldBy(call) = {} /\ HeldBy(pcCall[t]) = {}
  BY PcEnds DEF HeldBy
<1>3. \A o \in PcThread : pcCall'[o].at = "load" => pcCall'[o] = pcCall[o]
  BY <1>1, <1>2
<1>4. \A o \in PcThread : pcCall[o].at = "invalidate" => pcCall'[o] = pcCall[o]
  BY <1>1
<1>5. \A p \in told : \E o \in PcThread : pcCall'[o].at = "invalidate" /\ p \in pcCall'[o].drop
  BY <1>1
<1>6. /\ LoadsFresh' /\ CacheFresh'
      /\ DOMAIN pages' = DOMAIN pages
      /\ \A p \in DOMAIN pages : EntryOf(pages'[p]) /\ pages'[p].frame = pages[p].frame
      /\ changed' \in [Pages -> Nat]
  BY <1>3, <1>4, <1>5, FileStep
<1>7. file' = new
  BY DEF FileBecomes
<1>8. PcTypeOK'
  BY <1>1, <1>6, <1>7 DEF PcInv, PcTypeOK, InRange, EntryOf
<1>9. CacheFramesExact'
  BY FramesForm, <1>1, <1>2, <1>6, FramesStep DEF PcInv, FramesSpread
<1> QED BY <1>6, <1>8, <1>9 DEF PcInv

(* write, pwrite and truncate.                                             *)
LEMMA PcWritesKeep ==
    ASSUME PcInv, NEW t \in PcThread,
           \/ WriteFile(t)
           \/ \E pos, end \in 0..MaxSize : PcPwrite(t, pos, end)
           \/ \E size \in 0..MaxSize : PcTruncate(t, size)
    PROVE  PcInv'
<1>0. pcCalls \in Nat /\ 0..MaxSize \subseteq Nat /\ pcCall \in [PcThread -> PcCallOf]
  BY PcNumbers DEF PcInv, PcTypeOK
<1>1. CASE WriteFile(t)
  <2> DEFINE call == pcCall[t]
             drop == Touched(call.pos, call.end)
  <2>1. /\ call.at = "write" /\ call.end <= MaxSize /\ UNCHANGED <<freeFrames, pcCalls>>
        /\ FileBecomes(PcWritten(call.pos, call.end), drop)
        /\ PcGo(t, [at |-> "invalidate", drop |-> drop])
    BY <1>1 DEF WriteFile
  <2>2. call.pos \in Nat /\ call.end \in Nat
    BY <1>0, <2>1, PcCallForms
  <2>3. call.end \in 0..MaxSize
    BY <2>1, <2>2, PcNumbers
  <2>4. PcWritten(call.pos, call.end) \in [size : 0..MaxSize, units : [0..(MaxSize - 1) -> Nat]]
    BY <1>0, <2>1, <2>2, <2>3, FileForms
  <2>5. drop \in SUBSET Pages
    BY DEF Touched
  <2> DEFINE next == [at |-> "invalidate", drop |-> drop]
  <2>6. next \in PcCallOf /\ InRange(next) /\ next.at = "invalidate" /\ next.drop = drop
    BY <2>5, PcEnds
  <2> HIDE DEF next, drop
  <2>7. PcGo(t, next)
    BY <2>1 DEF next
  <2> QED BY <1>0, <2>1, <2>4, <2>6, <2>7, FileChanges
<1>2. ASSUME NEW pos \in 0..MaxSize, NEW end \in 0..MaxSize, PcPwrite(t, pos, end) PROVE PcInv'
  <2>1. /\ pcCall[t] = PcIdle /\ pcCalls' \in Nat /\ FileBecomes(PcWritten(pos, end), {})
        /\ UNCHANGED freeFrames /\ pcCall' = pcCall
    BY <1>0, <1>2 DEF PcPwrite, PcStarts
  <2>2. PcGo(t, PcIdle)
    BY <1>0, <2>1 DEF PcGo
  <2>3. PcWritten(pos, end) \in [size : 0..MaxSize, units : [0..(MaxSize - 1) -> Nat]]
    BY <1>0, <2>1, FileForms
  <2> QED BY <2>1, <2>2, <2>3, PcEnds, FileChanges
<1>3. ASSUME NEW size \in 0..MaxSize, PcTruncate(t, size) PROVE PcInv'
  <2> DEFINE cut == [size |-> size, units |-> [u \in DOMAIN file.units |->
                                                 IF u < size THEN file.units[u] ELSE 0]]
             next == [at |-> "invalidate", drop |-> Pages]
  <2>1. /\ pcCall[t] = PcIdle /\ pcCalls' \in Nat /\ FileBecomes(cut, Pages)
        /\ UNCHANGED freeFrames /\ PcGo(t, next)
    BY <1>0, <1>3 DEF PcTruncate, PcStarts
  <2>2. cut \in [size : 0..MaxSize, units : [0..(MaxSize - 1) -> Nat]]
    BY <2>1, FileForms
  <2>3. next \in PcCallOf /\ InRange(next) /\ next.at = "invalidate" /\ next.drop = Pages
    BY PcEnds
  <2> HIDE DEF cut, next
  <2> QED BY <2>1, <2>2, <2>3, PcEnds, FileChanges
<1> QED BY <1>1, <1>2, <1>3

(* Every step of the page cache keeps its invariant.                       *)
LEMMA PcInvHolds == PcSpec => []PcInv
<1>1. PcInit => PcInv
  <2> SUFFICES ASSUME PcInit PROVE PcInv
    OBVIOUS
  <2>1. PICK n \in FirstSizes : file = [size |-> n, units |-> [u \in 0..(MaxSize - 1) |-> IF u < n THEN 1 ELSE 0]]
    BY DEF PcInit
  <2>2. file \in [size : 0..MaxSize, units : [0..(MaxSize - 1) -> Nat]]
    BY <2>1, PageCacheAssumption
  <2>3. /\ DOMAIN pages = {} /\ freeFrames = CacheFrames /\ pcCalls = 0 /\ changed = [p \in Pages |-> 0]
        /\ pcCall = [t \in PcThread |-> PcIdle]
    BY DEF PcInit
  <2>4. PcTypeOK
    BY <2>2, <2>3, PcEnds DEF PcTypeOK
  <2>5. LoadsFresh /\ CacheFresh
    BY <2>3, PcEnds DEF LoadsFresh, CacheFresh
  <2>6. FramesSpread
    BY <2>3, PcEnds DEF FramesSpread
  <2> QED BY <2>4, <2>5, <2>6, FramesForm DEF PcInv
<1>2. PcInv /\ [PcNext]_pcVars => PcInv'
  <2> SUFFICES ASSUME PcInv, [PcNext]_pcVars PROVE PcInv'
    OBVIOUS
  <2>1. CASE UNCHANGED pcVars
    <3>1. PcTypeOK'
      BY <2>1 DEF pcVars, PcInv, PcTypeOK, InRange, EntryOf
    <3>2. LoadsFresh'
      BY <2>1 DEF pcVars, PcInv, LoadsFresh, LoadFresh, Wanted, PageLen
    <3>3. CacheFresh'
      BY <2>1 DEF pcVars, PcInv, CacheFresh, PageOf, PageLen
    <3>4. CacheFramesExact'
      BY <2>1 DEF pcVars, PcInv, CacheFramesExact, HeldFrames
    <3> QED BY <3>1, <3>2, <3>3, <3>4 DEF PcInv
  <2>2. ASSUME NEW t \in PcThread,
               \/ /\ pcCall[t] = PcIdle /\ pcCalls < MaxPcCalls
                  /\ \/ \E pos, end \in 0..MaxSize :
                          PcRead(t, pos, end) \/ PcWrite(t, pos, end) \/ PcPwrite(t, pos, end) \/ PcDontNeed(t, pos, end)
                     \/ \E p \in Pages : \E n \in 1..(FilePages - p) : PcPrefetch(t, p, n)
                     \/ \E n \in 1..Unit : PcAppend(t, n)
                     \/ \E size \in 0..MaxSize : PcTruncate(t, size)
               \/ ReadCopy(t) \/ LoadStart(t) \/ PrefetchSkip(t) \/ LoadChunk(t) \/ LoadFail(t) \/ LoadInsert(t)
               \/ WriteFile(t) \/ Invalidate(t) \/ Reclaim(t) \/ ReclaimRelease(t)
        PROVE  PcInv'
    <3>1. CASE \/ \E pos, end \in 0..MaxSize : PcRead(t, pos, end) \/ PcWrite(t, pos, end) \/ PcDontNeed(t, pos, end)
               \/ \E p \in Pages : \E n \in 1..(FilePages - p) : PcPrefetch(t, p, n)
               \/ \E n \in 1..Unit : PcAppend(t, n)
      BY <3>1, PcStartsKeep
    <3>2. CASE \/ WriteFile(t)
               \/ \E pos, end \in 0..MaxSize : PcPwrite(t, pos, end)
               \/ \E size \in 0..MaxSize : PcTruncate(t, size)
      BY <3>2, PcWritesKeep
    <3> QED BY <2>2, <3>1, <3>2, ReadCopyKeeps, LoadStartKeeps, PrefetchSkipKeeps, LoadChunkKeeps,
               LoadFailKeeps, LoadInsertKeeps, InvalidateKeeps, ReclaimKeeps
  <2> QED BY <2>1, <2>2 DEF PcNext
<1> QED BY <1>1, <1>2, PTL DEF PcSpec

(* The cache shows what the file holds, but for the known races, and every *)
(* frame is free, in the cache or with one call (page_cache.rs, file.rs):  *)
(* for any number of threads, pages and frames and any limit of the cache. *)
THEOREM CacheSound == PcSpec => []PageCacheSound
<1>1. PcInv => PageCacheSound
  BY DEF PcInv, PageCacheSound
<1> QED BY <1>1, PcInvHolds, PTL

---------------------------------------------------------------------------
(* System V shared memory                                                  *)

ShmSegmentOf == [key : ShmKey \cup {Private}, size : ShmSizes, nattch : Nat, destroy : BOOLEAN]
ShmAttachmentOf == [id : Nat, address : Addresses]
ShmSpaceOf == [owners : Nat, at : Seq(ShmAttachmentOf)]
ShmCallOf == {ShmIdle} \cup [at : {"attach"}, id : Nat, address : Addresses]
               \cup [at : {"detach"}, this : ShmAttachmentOf] \cup [at : {"exec"}, new : ShmSpace]
ShmTypeOK ==
    /\ nextShmid \in Nat \ {0}
    /\ segments \in [DOMAIN segments -> ShmSegmentOf]
    /\ attached \in [ShmSpace -> ShmSpaceOf]
    /\ space \in [ShmThread -> ShmSpace \cup {NoSpace}]
    /\ shmCall \in [ShmThread -> ShmCallOf]

(* Segments have numbers given out before, and so do the attachments; a    *)
(* call is made in an address space; and one without owners is empty.      *)
ShmSettled ==
    /\ DOMAIN segments \subseteq 1..(nextShmid - 1)
    /\ \A s \in ShmSpace : attached[s].owners = 0 => attached[s].at = <<>>
    /\ \A t \in ShmThread : shmCall[t] # ShmIdle => space[t] # NoSpace

(* The same counts with the state as arguments.                            *)
ShmOf(list, id) == {k \in DOMAIN list : list[k].id = id}
ShmAll(att, id) == UNION {{s} \X ShmOf(att[s].at, id) : s \in ShmSpace}
ShmCounted(segs, att, past, n) ==
    \A id \in (1..(n - 1)) \ past :
      IF id \in DOMAIN segs THEN segs[id].nattch = Cardinality(ShmAll(att, id))
      ELSE Cardinality(ShmAll(att, id)) = 0
ShmIn(spc, s) == {t \in ShmThread : spc[t] = s}
ShmTo(call, s) == {t \in ShmThread : call[t].at = "exec" /\ call[t].new = s}
ShmOwned(att, spc, call) ==
    \A s \in ShmSpace : att[s].owners = Cardinality(ShmIn(spc, s)) + Cardinality(ShmTo(call, s))
\* Attachments not yet numbered are nowhere.
ShmFresh(att, n) ==
    \A s \in ShmSpace : \A k \in DOMAIN att[s].at : att[s].at[k].id < n
ShmInv ==
    /\ ShmTypeOK /\ ShmSettled
    /\ ShmCounted(segments, attached, shmPast, nextShmid)
    /\ ShmOwned(attached, space, shmCall)
    /\ ShmFresh(attached, nextShmid)

(* A list has finitely many attachments of a segment.                      *)
LEMMA ShmOfFinite ==
    ASSUME NEW list \in Seq(ShmAttachmentOf), NEW id
    PROVE  IsFiniteSet(ShmOf(list, id)) /\ Cardinality(ShmOf(list, id)) \in Nat
<1>1. ShmOf(list, id) \in SUBSET (1..Len(list))
  BY DEF ShmOf
<1>2. IsFiniteSet(1..Len(list))
  BY FS_Interval
<1> QED
  BY <1>1, <1>2, FS_Subset, FS_CardinalityType

(* And so have all the address spaces together.                            *)
LEMMA ShmAllFinite ==
    ASSUME NEW att \in [ShmSpace -> ShmSpaceOf], NEW id
    PROVE  IsFiniteSet(ShmAll(att, id))
<1> DEFINE Part(s) == {s} \X ShmOf(att[s].at, id)
           Parts == {Part(s) : s \in ShmSpace}
           f == [s \in ShmSpace |-> Part(s)]
<1>1. f \in Surjection(ShmSpace, Parts)
  BY DEF Surjection
<1>2. IsFiniteSet(Parts)
  BY <1>1, FS_Surjection, ShmAssumption
<1>3. \A p \in Parts : IsFiniteSet(p)
  <2> SUFFICES ASSUME NEW s \in ShmSpace PROVE IsFiniteSet(Part(s))
    OBVIOUS
  <2>1. IsFiniteSet(ShmOf(att[s].at, id))
    BY ShmOfFinite DEF ShmSpaceOf
  <2>2. IsFiniteSet({s})
    BY FS_Singleton
  <2> QED
    BY <2>1, <2>2, FS_Product
<1>4. IsFiniteSet(UNION Parts)
  <2> HIDE DEF Parts
  <2> QED
    BY <1>2, <1>3, FS_UNION
<1> QED
  BY <1>4 DEF ShmAll

ShmElsewhere(att, s, id) == UNION {{u} \X ShmOf(att[u].at, id) : u \in ShmSpace \ {s}}
(* One address space and the others: what is attached anywhere is what is  *)
(* attached here and what is attached elsewhere.                           *)
LEMMA ShmSplit ==
    ASSUME NEW att \in [ShmSpace -> ShmSpaceOf], NEW s \in ShmSpace, NEW id
    PROVE  /\ Cardinality(ShmElsewhere(att, s, id)) \in Nat
           /\ Cardinality(ShmOf(att[s].at, id)) \in Nat
           /\ Cardinality(ShmAll(att, id)) =
                Cardinality(ShmOf(att[s].at, id)) + Cardinality(ShmElsewhere(att, s, id))
<1> DEFINE here == {s} \X ShmOf(att[s].at, id)
           rest == ShmElsewhere(att, s, id)
<1>1. /\ IsFiniteSet(ShmOf(att[s].at, id))
      /\ Cardinality(ShmOf(att[s].at, id)) \in Nat
  BY ShmOfFinite DEF ShmSpaceOf
<1>2. /\ IsFiniteSet(here)
      /\ Cardinality(here) = Cardinality(ShmOf(att[s].at, id))
  <2>1. IsFiniteSet({s}) /\ Cardinality({s}) = 1
    BY FS_Singleton
  <2>2. IsFiniteSet(here) /\ Cardinality(here) = Cardinality({s}) * Cardinality(ShmOf(att[s].at, id))
    BY <1>1, <2>1, FS_Product
  <2> QED
    BY <2>1, <2>2, <1>1
<1>3. ShmAll(att, id) = here \cup rest
  BY DEF ShmAll, ShmElsewhere
<1>4. here \cap rest = {}
  BY DEF ShmElsewhere
<1>5. IsFiniteSet(rest) /\ Cardinality(rest) \in Nat
  BY <1>3, ShmAllFinite, FS_Subset, FS_CardinalityType
<1>6. Cardinality(here \cup rest) = Cardinality(here) + Cardinality(rest) - Cardinality(here \cap rest)
  <2> HIDE DEF here
  <2> QED
    BY <1>2, <1>5, FS_Union
<1>7. Cardinality(here \cap rest) = 0
  BY <1>4, FS_EmptySet
<1> HIDE DEF here
<1> QED
  BY <1>1, <1>2, <1>3, <1>5, <1>6, <1>7

(* When the list of one address space changes, the count changes by the    *)
(* difference in that list.                                                *)
LEMMA ShmOneSpace ==
    ASSUME NEW att \in [ShmSpace -> ShmSpaceOf], NEW next \in [ShmSpace -> ShmSpaceOf],
           NEW s \in ShmSpace, NEW id,
           \A u \in ShmSpace \ {s} : next[u].at = att[u].at
    PROVE  /\ Cardinality(ShmAll(att, id)) \in Nat /\ Cardinality(ShmAll(next, id)) \in Nat
           /\ Cardinality(ShmOf(att[s].at, id)) \in Nat /\ Cardinality(ShmOf(next[s].at, id)) \in Nat
           /\ Cardinality(ShmOf(att[s].at, id)) <= Cardinality(ShmAll(att, id))
           /\ Cardinality(ShmAll(next, id)) =
                Cardinality(ShmAll(att, id)) - Cardinality(ShmOf(att[s].at, id))
                  + Cardinality(ShmOf(next[s].at, id))
<1> DEFINE rest == ShmElsewhere(att, s, id)
           other == ShmElsewhere(next, s, id)
<1>1. rest = other
  <2>1. \A x : x \in rest <=> \E u \in ShmSpace \ {s} : x \in {u} \X ShmOf(att[u].at, id)
    BY DEF ShmElsewhere
  <2>2. \A x : x \in other <=> \E u \in ShmSpace \ {s} : x \in {u} \X ShmOf(next[u].at, id)
    BY DEF ShmElsewhere
  <2>3. \A x : x \in rest <=> x \in other
    BY <2>1, <2>2
  <2> HIDE DEF other, rest
  <2> QED
    BY <2>3
<1>2. /\ Cardinality(rest) \in Nat
      /\ Cardinality(ShmOf(att[s].at, id)) \in Nat
      /\ Cardinality(ShmAll(att, id)) = Cardinality(ShmOf(att[s].at, id)) + Cardinality(rest)
  BY ShmSplit
<1>3. /\ Cardinality(ShmOf(next[s].at, id)) \in Nat
      /\ Cardinality(ShmAll(next, id)) = Cardinality(ShmOf(next[s].at, id)) + Cardinality(other)
  BY ShmSplit
<1> HIDE DEF rest, other
<1> QED
  BY <1>1, <1>2, <1>3

(* Nothing else changes when no list does.                                 *)
LEMMA ShmSameLists ==
    ASSUME NEW att, NEW next, \A u \in ShmSpace : next[u].at = att[u].at
    PROVE  \A id : ShmAll(next, id) = ShmAll(att, id)
  BY DEF ShmAll

(* An attachment more.                                                     *)
LEMMA ShmAppended ==
    ASSUME NEW list \in Seq(ShmAttachmentOf), NEW a \in ShmAttachmentOf, NEW id
    PROVE  /\ Append(list, a) \in Seq(ShmAttachmentOf)
           /\ Cardinality(ShmOf(Append(list, a), id)) =
                Cardinality(ShmOf(list, id)) + (IF a.id = id THEN 1 ELSE 0)
           /\ \A k \in DOMAIN Append(list, a) :
                Append(list, a)[k] = a \/ \E i \in DOMAIN list : Append(list, a)[k] = list[i]
<1> DEFINE n == Len(list) + 1
<1>1. /\ Append(list, a) \in Seq(ShmAttachmentOf) /\ Len(Append(list, a)) = n
      /\ \A k \in 1..Len(list) : Append(list, a)[k] = list[k]
      /\ Append(list, a)[n] = a
      /\ DOMAIN Append(list, a) = 1..n /\ DOMAIN list = 1..Len(list) /\ Len(list) \in Nat
  OBVIOUS
<1>2. ShmOf(Append(list, a), id) = IF a.id = id THEN ShmOf(list, id) \cup {n} ELSE ShmOf(list, id)
  BY <1>1 DEF ShmOf
<1>3. n \notin ShmOf(list, id)
  BY <1>1 DEF ShmOf
<1>4. IsFiniteSet(ShmOf(list, id)) /\ Cardinality(ShmOf(list, id)) \in Nat
  BY ShmOfFinite
<1>5. Cardinality(ShmOf(list, id) \cup {n}) = Cardinality(ShmOf(list, id)) + 1
  <2> HIDE DEF n
  <2> QED
    BY <1>3, <1>4, FS_AddElement
<1> QED
  BY <1>1, <1>2, <1>4, <1>5

(* An attachment less.                                                     *)
LEMMA ShmCut ==
    ASSUME NEW list \in Seq(ShmAttachmentOf), NEW k \in DOMAIN list, NEW id
    PROVE  /\ Cut(list, k) \in Seq(ShmAttachmentOf)
           /\ Cardinality(ShmOf(Cut(list, k), id)) =
                Cardinality(ShmOf(list, id)) - (IF list[k].id = id THEN 1 ELSE 0)
           /\ \A j \in DOMAIN Cut(list, k) : \E i \in DOMAIN list : Cut(list, k)[j] = list[i]
<1> DEFINE f(j) == IF j < k THEN j ELSE j + 1
           A == ShmOf(Cut(list, k), id)
           B == ShmOf(list, id) \ {k}
<1>1. /\ Len(list) \in Nat /\ k \in 1..Len(list) /\ DOMAIN list = 1..Len(list)
  OBVIOUS
<1>2. /\ SubSeq(list, 1, k - 1) \in Seq(ShmAttachmentOf) /\ Len(SubSeq(list, 1, k - 1)) = k - 1
      /\ \A j \in 1..(k - 1) : SubSeq(list, 1, k - 1)[j] = list[j]
  BY <1>1
<1>3. /\ SubSeq(list, k + 1, Len(list)) \in Seq(ShmAttachmentOf)
      /\ Len(SubSeq(list, k + 1, Len(list))) = Len(list) - k
      /\ \A j \in 1..(Len(list) - k) : SubSeq(list, k + 1, Len(list))[j] = list[k + j]
  BY <1>1
<1>4. /\ Cut(list, k) \in Seq(ShmAttachmentOf) /\ Len(Cut(list, k)) = Len(list) - 1
      /\ DOMAIN Cut(list, k) = 1..(Len(list) - 1)
      /\ \A j \in 1..(Len(list) - 1) : Cut(list, k)[j] = list[f(j)]
  <2>1. PICK a \in Seq(ShmAttachmentOf) : a = SubSeq(list, 1, k - 1)
    BY <1>2
  <2>2. PICK b \in Seq(ShmAttachmentOf) : b = SubSeq(list, k + 1, Len(list))
    BY <1>3
  <2>3. /\ a \o b \in Seq(ShmAttachmentOf) /\ Len(a \o b) = Len(a) + Len(b)
        /\ DOMAIN (a \o b) = 1..(Len(a) + Len(b))
        /\ \A j \in 1..(Len(a) + Len(b)) : (a \o b)[j] = IF j <= Len(a) THEN a[j] ELSE b[j - Len(a)]
    <3> HIDE <1>2, <1>3, <2>1, <2>2
    <3> QED
      BY ConcatProperties
  <2>4. Len(a) = k - 1 /\ Len(b) = Len(list) - k /\ Len(a) + Len(b) = Len(list) - 1
    <3>1. Len(a) = k - 1
      BY <1>2, <2>1, Zenon
    <3>2. Len(b) = Len(list) - k
      BY <1>3, <2>2, Zenon
    <3> QED
      BY <1>1, <3>1, <3>2
  <2>5. Cut(list, k) = a \o b
    BY <2>1, <2>2 DEF Cut
  <2>6. ASSUME NEW j \in 1..(Len(list) - 1) PROVE (a \o b)[j] = list[f(j)]
    <3>1. CASE j < k
      BY <1>1, <1>2, <2>1, <2>3, <2>4, <3>1
    <3>2. CASE ~(j < k)
      <4>1. j - (k - 1) \in 1..(Len(list) - k) /\ k + (j - (k - 1)) = j + 1 /\ ~(j <= k - 1)
        BY <1>1, <3>2
      <4>2. b[j - (k - 1)] = list[j + 1]
        BY <1>3, <2>2, <4>1
      <4> QED
        BY <2>3, <2>4, <3>2, <4>1, <4>2
    <3> QED
      BY <3>1, <3>2
  <2> QED
    BY <2>3, <2>4, <2>5, <2>6
<1>5. \A j \in 1..(Len(list) - 1) : f(j) \in DOMAIN list /\ f(j) # k
  BY <1>1
<1>6. \A i \in DOMAIN list : i # k => \E j \in 1..(Len(list) - 1) : f(j) = i
  <2> SUFFICES ASSUME NEW i \in DOMAIN list, i # k PROVE \E j \in 1..(Len(list) - 1) : f(j) = i
    OBVIOUS
  <2>1. CASE i < k
    BY <1>1, <2>1
  <2>2. CASE i > k
    <3>1. i - 1 \in 1..(Len(list) - 1) /\ f(i - 1) = i
      BY <1>1, <2>2
    <3> QED
      BY <3>1
  <2> QED
    BY <1>1, <2>1, <2>2
<1>7. PICK g : g = [j \in A |-> f(j)]
  OBVIOUS
<1>8. g \in Bijection(A, B)
  <2>1. \A j \in A : j \in 1..(Len(list) - 1) /\ list[f(j)].id = id
    BY <1>4 DEF ShmOf
  <2>2. g \in [A -> B]
    BY <1>5, <1>7, <2>1 DEF ShmOf
  <2>3. \A i, j \in A : f(i) = f(j) => i = j
    BY <1>1, <2>1
  <2>4. \A i \in B : \E j \in A : f(j) = i
    BY <1>6, <1>4 DEF ShmOf
  <2> HIDE DEF A, B, f
  <2>5. g \in Injection(A, B)
    BY <2>2, <2>3, <1>7 DEF Injection, IsInjective
  <2>6. g \in Surjection(A, B)
    BY <2>2, <2>4, <1>7 DEF Surjection
  <2> QED
    BY <2>5, <2>6 DEF Bijection
<1>9. IsFiniteSet(A) /\ Cardinality(B) = Cardinality(A)
  <2>1. IsFiniteSet(A)
    BY <1>4, ShmOfFinite
  <2> HIDE DEF A, B
  <2> QED
    BY <1>8, <2>1, FS_Bijection DEF ExistsBijection
<1>10. Cardinality(B) = IF k \in ShmOf(list, id) THEN Cardinality(ShmOf(list, id)) - 1 ELSE Cardinality(ShmOf(list, id))
  BY ShmOfFinite, FS_RemoveElement
<1>11. k \in ShmOf(list, id) <=> list[k].id = id
  BY DEF ShmOf
<1>12. Cardinality(ShmOf(list, id)) \in Nat
  BY ShmOfFinite
<1>13. \A j \in DOMAIN Cut(list, k) : \E i \in DOMAIN list : Cut(list, k)[j] = list[i]
  BY <1>4, <1>5
<1> QED
  BY <1>4, <1>9, <1>10, <1>11, <1>12, <1>13

---------------------------------------------------------------------------
(* Counting members: one element of a finite set comes or goes.            *)
LEMMA OneMember ==
    ASSUME NEW S, IsFiniteSet(S), NEW A \in SUBSET S, NEW B \in SUBSET S, NEW t \in S,
           \A u \in S \ {t} : u \in A <=> u \in B
    PROVE  /\ Cardinality(A) \in Nat /\ Cardinality(B) \in Nat
           /\ Cardinality(B) + (IF t \in A THEN 1 ELSE 0) = Cardinality(A) + (IF t \in B THEN 1 ELSE 0)
  BY FS_Subset, FS_CardinalityType, FS_RemoveElement

ShmSits(x, s) == x = s
(* A thread that changes its address space leaves one and enters another.  *)
LEMMA ShmMoved ==
    ASSUME NEW spc, NEW next, NEW t \in ShmThread, \A w \in ShmThread \ {t} : next[w] = spc[w], NEW s
    PROVE  /\ Cardinality(ShmIn(spc, s)) \in Nat /\ Cardinality(ShmIn(next, s)) \in Nat
           /\ Cardinality(ShmIn(next, s)) + (IF ShmSits(spc[t], s) THEN 1 ELSE 0)
                = Cardinality(ShmIn(spc, s)) + (IF ShmSits(next[t], s) THEN 1 ELSE 0)
  BY OneMember, ShmAssumption DEF ShmIn, ShmSits

ShmExecsTo(r, s) == r.at = "exec" /\ r.new = s
(* And an exec in progress holds its new address space.                    *)
LEMMA ShmExecs ==
    ASSUME NEW call, NEW next, NEW t \in ShmThread, \A w \in ShmThread \ {t} : next[w] = call[w], NEW s
    PROVE  /\ Cardinality(ShmTo(call, s)) \in Nat /\ Cardinality(ShmTo(next, s)) \in Nat
           /\ Cardinality(ShmTo(next, s)) + (IF ShmExecsTo(call[t], s) THEN 1 ELSE 0)
                = Cardinality(ShmTo(call, s)) + (IF ShmExecsTo(next[t], s) THEN 1 ELSE 0)
<1>1. PICK A : A = ShmTo(call, s)
  OBVIOUS
<1>2. PICK B : B = ShmTo(next, s)
  OBVIOUS
<1>3. A \in SUBSET ShmThread /\ B \in SUBSET ShmThread /\ \A u \in ShmThread \ {t} : u \in A <=> u \in B
  BY <1>1, <1>2 DEF ShmTo
<1>4. (t \in A <=> ShmExecsTo(call[t], s)) /\ (t \in B <=> ShmExecsTo(next[t], s))
  BY <1>1, <1>2 DEF ShmTo, ShmExecsTo
<1>5. /\ Cardinality(A) \in Nat /\ Cardinality(B) \in Nat
      /\ Cardinality(B) + (IF t \in A THEN 1 ELSE 0) = Cardinality(A) + (IF t \in B THEN 1 ELSE 0)
  BY <1>3, OneMember, ShmAssumption
<1> QED
  BY <1>1, <1>2, <1>4, <1>5

---------------------------------------------------------------------------
(* The registry after each change                                          *)

ShmSegsOf(segs) == segs \in [DOMAIN segs -> ShmSegmentOf]

(* A segment attached once more counts one more.                           *)
LEMMA ShmAttachCounts ==
    ASSUME NEW segs, ShmSegsOf(segs), NEW n \in Nat, NEW past,
           NEW att \in [ShmSpace -> ShmSpaceOf], NEW next \in [ShmSpace -> ShmSpaceOf],
           NEW s \in ShmSpace, \A u \in ShmSpace \ {s} : next[u].at = att[u].at,
           NEW a \in ShmAttachmentOf, a.id \in DOMAIN segs, next[s].at = Append(att[s].at, a),
           ShmCounted(segs, att, past, n)
    PROVE  /\ ShmCounted(Counts(segs, a.id, 1), next, past, n)
           /\ ShmSegsOf(Counts(segs, a.id, 1)) /\ DOMAIN Counts(segs, a.id, 1) = DOMAIN segs
<1>1. PICK segs2 : segs2 = Counts(segs, a.id, 1)
  OBVIOUS
<1>2. segs[a.id].nattch \in Nat /\ segs2 = [segs EXCEPT ![a.id].nattch = @ + 1]
  BY <1>1 DEF Counts, ShmSegsOf, ShmSegmentOf
<1>3. /\ DOMAIN segs2 = DOMAIN segs /\ ShmSegsOf(segs2)
      /\ \A id \in DOMAIN segs : segs2[id].nattch = segs[id].nattch + (IF id = a.id THEN 1 ELSE 0)
  <2>1. PICK c \in Nat : c = segs[a.id].nattch + 1
    BY <1>2
  <2>2. segs2 = [segs EXCEPT ![a.id].nattch = c]
    BY <1>2, <2>1
  <2>3. /\ DOMAIN segs2 = DOMAIN segs /\ ShmSegsOf(segs2) /\ segs2[a.id].nattch = c
        /\ \A id \in DOMAIN segs : id # a.id => segs2[id] = segs[id]
    BY <2>2 DEF ShmSegsOf, ShmSegmentOf
  <2>4. \A id \in DOMAIN segs : segs[id].nattch \in Nat
    BY DEF ShmSegsOf, ShmSegmentOf
  <2> QED
    BY <2>1, <2>3, <2>4
<1>4. ASSUME NEW id \in (1..(n - 1)) \ past
      PROVE  IF id \in DOMAIN segs2 THEN segs2[id].nattch = Cardinality(ShmAll(next, id))
             ELSE Cardinality(ShmAll(next, id)) = 0
  <2>1. PICK all1, all2, of1, of2 :
          /\ all1 = Cardinality(ShmAll(att, id)) /\ all2 = Cardinality(ShmAll(next, id))
          /\ of1 = Cardinality(ShmOf(att[s].at, id)) /\ of2 = Cardinality(ShmOf(next[s].at, id))
    OBVIOUS
  <2>2. all1 \in Nat /\ all2 \in Nat /\ of1 \in Nat /\ of2 \in Nat /\ all2 = all1 - of1 + of2
    BY <2>1, ShmOneSpace
  <2>3. of2 = of1 + (IF a.id = id THEN 1 ELSE 0)
    BY <2>1, ShmAppended DEF ShmSpaceOf
  <2>4. IF id \in DOMAIN segs THEN segs[id].nattch = all1 ELSE all1 = 0
    BY <2>1 DEF ShmCounted
  <2>5. IF id \in DOMAIN segs2 THEN segs2[id].nattch = all2 ELSE all2 = 0
    BY <1>3, <2>2, <2>3, <2>4
  <2> QED
    BY <2>1, <2>5
<1> QED
  BY <1>1, <1>3, <1>4 DEF ShmCounted

(* A segment detached counts one less, and goes with the last attachment   *)
(* once it is removed.                                                     *)
LEMMA ShmDetachCounts ==
    ASSUME NEW segs, ShmSegsOf(segs), NEW n \in Nat, NEW past,
           NEW att \in [ShmSpace -> ShmSpaceOf], NEW next \in [ShmSpace -> ShmSpaceOf],
           NEW s \in ShmSpace, \A u \in ShmSpace \ {s} : next[u].at = att[u].at,
           NEW k \in DOMAIN att[s].at, next[s].at = Cut(att[s].at, k),
           NEW this, this = att[s].at[k].id,
           ShmCounted(segs, att, past, n)
    PROVE  ShmCounted(Reaped(Counts(segs, this, -1), this), next, past, n)
<1>1. PICK segs1 : segs1 = Counts(segs, this, -1)
  OBVIOUS
<1>2. PICK segs2 : segs2 = Reaped(segs1, this)
  OBVIOUS
<1>3. /\ DOMAIN segs1 = DOMAIN segs
      /\ \A id \in DOMAIN segs : id # this => segs1[id] = segs[id]
      /\ (this \in DOMAIN segs /\ segs[this].nattch > 0) => segs1[this].nattch = segs[this].nattch - 1
  BY <1>1 DEF ShmSegsOf, ShmSegmentOf, Counts
<1>4. \A id : id # this => ((id \in DOMAIN segs2 <=> id \in DOMAIN segs1)
                            /\ (id \in DOMAIN segs1 => segs2[id] = segs1[id]))
  BY <1>2 DEF Reaped, Minus
<1>5. \/ segs2 = segs1
      \/ segs1[this].nattch = 0 /\ this \notin DOMAIN segs2
  BY <1>2 DEF Reaped, Minus
<1>6. ASSUME NEW id \in (1..(n - 1)) \ past
      PROVE  IF id \in DOMAIN segs2 THEN segs2[id].nattch = Cardinality(ShmAll(next, id))
             ELSE Cardinality(ShmAll(next, id)) = 0
  <2>1. PICK all1, all2, of1, of2 :
          /\ all1 = Cardinality(ShmAll(att, id)) /\ all2 = Cardinality(ShmAll(next, id))
          /\ of1 = Cardinality(ShmOf(att[s].at, id)) /\ of2 = Cardinality(ShmOf(next[s].at, id))
    OBVIOUS
  <2>2. /\ all1 \in Nat /\ all2 \in Nat /\ of1 \in Nat /\ of2 \in Nat /\ of1 <= all1
        /\ all2 = all1 - of1 + of2
    BY <2>1, ShmOneSpace
  <2>3. of2 = of1 - (IF this = id THEN 1 ELSE 0)
    BY <2>1, ShmCut DEF ShmSpaceOf
  <2>4. IF id \in DOMAIN segs THEN segs[id].nattch = all1 ELSE all1 = 0
    BY <2>1 DEF ShmCounted
  <2>5. CASE id = this
    <3>1. all1 > 0 /\ id \in DOMAIN segs /\ segs[id].nattch = all1 /\ all2 = all1 - 1
      BY <2>2, <2>3, <2>4, <2>5
    <3>2. segs1[id].nattch = all2 /\ id \in DOMAIN segs1
      BY <1>3, <2>2, <2>5, <3>1
    <3> QED
      BY <1>5, <2>1, <2>5, <3>2
  <2>6. CASE id # this
    BY <2>2, <2>3, <2>6, <1>3, <1>4, <2>1, <2>4
  <2> QED
    BY <2>5, <2>6
<1> QED
  BY <1>1, <1>2, <1>6 DEF ShmCounted

(* A detach of what is no longer attached spoils the count of that segment *)
(* and of no other.                                                        *)
LEMMA ShmDetachMissed ==
    ASSUME NEW segs, ShmSegsOf(segs), NEW n \in Nat, NEW past, NEW att, NEW next,
           \A u \in ShmSpace : next[u].at = att[u].at,
           NEW this, ShmCounted(segs, att, past, n)
    PROVE  ShmCounted(Reaped(Counts(segs, this, -1), this), next, past \cup {this}, n)
  BY ShmSameLists DEF Counts, ShmSegsOf, ShmSegmentOf, Reaped, Minus, ShmCounted

(* What Counts and Reaped leave is a table of segments.                    *)
LEMMA ShmDetachTypes ==
    ASSUME NEW segs, ShmSegsOf(segs), NEW this
    PROVE  /\ ShmSegsOf(Reaped(Counts(segs, this, -1), this))
           /\ DOMAIN Reaped(Counts(segs, this, -1), this) \subseteq DOMAIN segs
  BY DEF Counts, ShmSegsOf, ShmSegmentOf, Reaped, Minus

(* A copied address space counts once more in every segment attached.      *)
LEMMA ShmInheritCounts ==
    ASSUME NEW segs, ShmSegsOf(segs), NEW n \in Nat, NEW past,
           NEW att \in [ShmSpace -> ShmSpaceOf], NEW next \in [ShmSpace -> ShmSpaceOf],
           NEW s \in ShmSpace, NEW v \in ShmSpace, \A u \in ShmSpace \ {v} : next[u].at = att[u].at,
           att[v].at = <<>>, next[v].at = att[s].at,
           NEW segs2, DOMAIN segs2 = DOMAIN segs,
           \A id \in DOMAIN segs : segs2[id].nattch = segs[id].nattch + Cardinality(ShmOf(att[s].at, id)),
           ShmCounted(segs, att, past, n)
    PROVE  ShmCounted(segs2, next, past, n)
<1>1. ASSUME NEW id \in (1..(n - 1)) \ past
      PROVE  IF id \in DOMAIN segs2 THEN segs2[id].nattch = Cardinality(ShmAll(next, id))
             ELSE Cardinality(ShmAll(next, id)) = 0
  <2>1. PICK all1, all2, of1, of2, ofs :
          /\ all1 = Cardinality(ShmAll(att, id)) /\ all2 = Cardinality(ShmAll(next, id))
          /\ of1 = Cardinality(ShmOf(att[v].at, id)) /\ of2 = Cardinality(ShmOf(next[v].at, id))
          /\ ofs = Cardinality(ShmOf(att[s].at, id))
    OBVIOUS
  <2>2. all1 \in Nat /\ all2 \in Nat /\ of1 \in Nat /\ of2 \in Nat /\ all2 = all1 - of1 + of2
    BY <2>1, ShmOneSpace, SMTT(40)
  <2>3. of1 = 0
    BY <2>1, FS_EmptySet DEF ShmOf
  <2>4. of2 = ofs /\ ofs <= all1
    BY <2>1, ShmOneSpace
  <2>5. IF id \in DOMAIN segs THEN segs[id].nattch = all1 ELSE all1 = 0
    BY <2>1 DEF ShmCounted
  <2>6. IF id \in DOMAIN segs2 THEN segs2[id].nattch = all2 ELSE all2 = 0
    BY <2>1, <2>2, <2>3, <2>4, <2>5
  <2> QED
    BY <2>1, <2>6
<1> QED
  BY <1>1 DEF ShmCounted

(* An address space left by its last owner detaches all it has.            *)
LEMMA ShmLeaveCounts ==
    ASSUME NEW segs, ShmSegsOf(segs), NEW n \in Nat, NEW past,
           NEW att \in [ShmSpace -> ShmSpaceOf], NEW next \in [ShmSpace -> ShmSpaceOf],
           NEW s \in ShmSpace, \A u \in ShmSpace \ {s} : next[u].at = att[u].at,
           next[s].at = <<>>,
           NEW segs2, DOMAIN segs2 \subseteq DOMAIN segs,
           \A id \in DOMAIN segs :
             LET c == Cardinality(ShmOf(att[s].at, id))
                 less == IF segs[id].nattch < c THEN 0 ELSE segs[id].nattch - c
             IN  IF id \in DOMAIN segs2 THEN segs2[id].nattch = less ELSE less = 0,
           ShmCounted(segs, att, past, n)
    PROVE  ShmCounted(segs2, next, past, n)
<1>1. ASSUME NEW id \in (1..(n - 1)) \ past
      PROVE  IF id \in DOMAIN segs2 THEN segs2[id].nattch = Cardinality(ShmAll(next, id))
             ELSE Cardinality(ShmAll(next, id)) = 0
  <2>1. PICK all1, all2, of1, of2 :
          /\ all1 = Cardinality(ShmAll(att, id)) /\ all2 = Cardinality(ShmAll(next, id))
          /\ of1 = Cardinality(ShmOf(att[s].at, id)) /\ of2 = Cardinality(ShmOf(next[s].at, id))
    OBVIOUS
  <2>2. /\ all1 \in Nat /\ all2 \in Nat /\ of1 \in Nat /\ of2 \in Nat /\ of1 <= all1
        /\ all2 = all1 - of1 + of2
    BY <2>1, ShmOneSpace
  <2>3. of2 = 0
    BY <2>1, FS_EmptySet DEF ShmOf
  <2>4. IF id \in DOMAIN segs THEN segs[id].nattch = all1 ELSE all1 = 0
    BY <2>1 DEF ShmCounted
  <2>5. id \in DOMAIN segs =>
          LET less == IF segs[id].nattch < of1 THEN 0 ELSE segs[id].nattch - of1
          IN  IF id \in DOMAIN segs2 THEN segs2[id].nattch = less ELSE less = 0
    BY <2>1
  <2>6. IF id \in DOMAIN segs2 THEN segs2[id].nattch = all2 ELSE all2 = 0
    BY <2>2, <2>3, <2>4, <2>5
  <2> QED
    BY <2>1, <2>6
<1> QED
  BY <1>1 DEF ShmCounted

(* SegmentLeft, seen from the outside.                                     *)
LEMMA ShmSegmentLeft ==
    ASSUME ShmTypeOK, NEW s \in ShmSpace, NEW segs2, segs2 = SegmentLeft(segments, s)
    PROVE  /\ DOMAIN segs2 \subseteq DOMAIN segments /\ ShmSegsOf(segs2)
           /\ \A id \in DOMAIN segments :
                LET c == Cardinality(ShmOf(attached[s].at, id))
                    less == IF segments[id].nattch < c THEN 0 ELSE segments[id].nattch - c
                IN  IF id \in DOMAIN segs2 THEN segs2[id].nattch = less ELSE less = 0
<1>1. \A id : AttachedAt(s, id) = Cardinality(ShmOf(attached[s].at, id))
  BY DEF AttachedAt, AttachedIn, ShmOf
<1>2. \A id : AttachedAt(s, id) \in Nat
  BY <1>1, ShmOfFinite DEF ShmTypeOK, ShmSpaceOf
<1> DEFINE Less(id) == IF segments[id].nattch < AttachedAt(s, id) THEN 0
                       ELSE segments[id].nattch - AttachedAt(s, id)
<1>3. \A id \in DOMAIN segments : segments[id] \in ShmSegmentOf /\ segments[id].nattch \in Nat /\ Less(id) \in Nat
  BY <1>2 DEF ShmTypeOK, ShmSegmentOf
<1>4. PICK less : less = [id \in DOMAIN segments |-> [segments[id] EXCEPT !.nattch = Less(id)]]
  OBVIOUS
<1>5. \A id \in DOMAIN segments : less[id] \in ShmSegmentOf /\ less[id].nattch = Less(id)
  BY <1>3, <1>4 DEF ShmSegmentOf
<1>6. segs2 = [id \in {i \in DOMAIN segments :
                        ~(AttachedAt(s, i) > 0 /\ less[i].destroy /\ less[i].nattch = 0)} |-> less[id]]
  BY <1>4 DEF SegmentLeft
<1>7. /\ DOMAIN segs2 \subseteq DOMAIN segments /\ ShmSegsOf(segs2)
      /\ \A id \in DOMAIN segments :
           IF id \in DOMAIN segs2 THEN segs2[id].nattch = Less(id) ELSE Less(id) = 0
  BY <1>5, <1>6 DEF ShmSegsOf
<1> QED
  BY <1>1, <1>7

---------------------------------------------------------------------------
(* The invariant                                                           *)

(* A call that is not idle, by its kind.                                   *)
LEMMA ShmCallForms ==
    ASSUME NEW call \in ShmCallOf
    PROVE  /\ call.at = "attach" => call.id \in Nat /\ call.address \in Addresses
           /\ call.at = "detach" => call.this \in ShmAttachmentOf
           /\ call.at = "exec" => call.new \in ShmSpace
           /\ call.at \in {"attach", "detach", "exec"} => call # ShmIdle
  BY DEF ShmCallOf, ShmIdle

(* Threads in an address space: a call that leaves them where they are.    *)
LEMMA ShmSameOwners ==
    ASSUME ShmTypeOK, NEW t \in ShmThread, NEW r, r.at # "exec", shmCall[t].at # "exec",
           NEW att, \A s \in ShmSpace : att[s].owners = attached[s].owners,
           ShmOwned(attached, space, shmCall)
    PROVE  ShmOwned(att, space, [shmCall EXCEPT ![t] = r])
  BY DEF ShmTo, ShmTypeOK, ShmOwned

(* A thread in an address space is one of its owners.                      *)
LEMMA ShmHasOwner ==
    ASSUME ShmTypeOK, NEW t \in ShmThread, space[t] # NoSpace, ShmOwned(attached, space, shmCall)
    PROVE  /\ space[t] \in ShmSpace
           /\ attached[space[t]].owners \in Nat \ {0}
           /\ ShmExecsTo(shmCall[t], space[t]) => attached[space[t]].owners > 1
<1>1. space[t] \in ShmSpace
  BY DEF ShmTypeOK
<1>2. PICK s \in ShmSpace : s = space[t]
  BY <1>1
<1>3. PICK A, B : A = ShmIn(space, s) /\ B = ShmTo(shmCall, s)
  OBVIOUS
<1>4. A \in SUBSET ShmThread /\ B \in SUBSET ShmThread /\ t \in A /\ (ShmExecsTo(shmCall[t], s) => t \in B)
  BY <1>2, <1>3 DEF ShmIn, ShmTo, ShmExecsTo
<1>5. IsFiniteSet(A) /\ IsFiniteSet(B)
  BY <1>4, FS_Subset, ShmAssumption
<1>6. Cardinality(A) \in Nat /\ Cardinality(B) \in Nat /\ Cardinality(A) # 0 /\ (t \in B => Cardinality(B) # 0)
  BY <1>4, <1>5, FS_CardinalityType, FS_EmptySet
<1>7. attached[s].owners = Cardinality(A) + Cardinality(B)
  BY <1>3 DEF ShmOwned
<1> QED
  BY <1>1, <1>2, <1>4, <1>6, <1>7

(* Calls about segments.                                                   *)
LEMMA ShmgetKeeps ==
    ASSUME ShmInv, NEW t \in ShmThread, NEW key \in ShmKey \cup {Private}, NEW size \in ShmSizes,
           NEW creat \in BOOLEAN, Shmget(t, key, size, creat)
    PROVE  ShmInv'
<1>1. /\ nextShmid \in Nat \ {0} /\ nextShmid' = nextShmid + 1
      /\ UNCHANGED <<attached, space, mapped, shmCall, shmPast>>
  BY DEF Shmget, ShmInv, ShmTypeOK
<1>2. /\ segments' \in [DOMAIN segments' -> ShmSegmentOf]
      /\ \A id \in DOMAIN segments : id \in DOMAIN segments' /\ segments'[id] = segments[id]
      /\ \A id \in DOMAIN segments' : id \in DOMAIN segments \/ (id = nextShmid /\ segments'[id].nattch = 0)
  <2>1. DOMAIN segments \subseteq 1..(nextShmid - 1) /\ segments \in [DOMAIN segments -> ShmSegmentOf]
    BY DEF ShmInv, ShmTypeOK, ShmSettled
  <2>2. nextShmid \notin DOMAIN segments
    BY <1>1, <2>1
  <2>3. NewSegment(key, size) \in ShmSegmentOf /\ NewSegment(key, size).nattch = 0
    BY DEF NewSegment, ShmSegmentOf
  <2>4. CASE segments' = Plus(segments, nextShmid, NewSegment(key, size))
    BY <2>1, <2>2, <2>3, <2>4 DEF Plus
  <2>5. CASE UNCHANGED segments
    BY <2>1, <2>5
  <2> QED
    BY <2>4, <2>5 DEF Shmget
<1>3. ShmTypeOK'
  BY <1>1, <1>2 DEF ShmInv, ShmTypeOK
<1>4. ShmSettled'
  BY <1>1, <1>2 DEF ShmInv, ShmTypeOK, ShmSettled
<1>5. ShmFresh(attached, nextShmid)'
  <2> SUFFICES ShmFresh(attached, nextShmid + 1)
    BY <1>1
  <2> SUFFICES ASSUME NEW s \in ShmSpace, NEW k \in DOMAIN attached[s].at
               PROVE  attached[s].at[k].id < nextShmid + 1
    BY DEF ShmFresh
  <2>1. attached[s].at \in Seq(ShmAttachmentOf) /\ attached[s].at[k].id < nextShmid
    BY DEF ShmInv, ShmTypeOK, ShmSpaceOf, ShmFresh
  <2>2. attached[s].at[k] \in ShmAttachmentOf
    BY <2>1
  <2>3. attached[s].at[k].id \in Nat
    BY <2>2 DEF ShmAttachmentOf
  <2> QED
    BY <1>1, <2>1, <2>3
<1>6. ShmCounted(segments, attached, shmPast, nextShmid)'
  <2>1. Cardinality(ShmAll(attached, nextShmid)) = 0
    BY <1>1, FS_EmptySet DEF ShmInv, ShmFresh, ShmOf, ShmAll
  <2>2. ASSUME NEW id \in (1..nextShmid) \ shmPast
        PROVE  IF id \in DOMAIN segments' THEN segments'[id].nattch = Cardinality(ShmAll(attached, id))
               ELSE Cardinality(ShmAll(attached, id)) = 0
    BY <1>1, <1>2, <2>1 DEF ShmInv, ShmSettled, ShmCounted
  <2>3. nextShmid' - 1 = nextShmid
    BY <1>1
  <2> QED
    BY <1>1, <2>2, <2>3 DEF ShmCounted
<1>7. ShmOwned(attached, space, shmCall)'
  BY <1>1 DEF ShmInv
<1> QED
  BY <1>3, <1>4, <1>5, <1>6, <1>7 DEF ShmInv

LEMMA ShmctlKeeps ==
    ASSUME ShmInv, NEW t \in ShmThread, NEW this, ShmctlRmid(t, this)
    PROVE  ShmInv'
<1>1. /\ UNCHANGED <<nextShmid, attached, space, mapped, shmCall, shmPast>>
      /\ this \in DOMAIN segments /\ segments' = Reaped([segments EXCEPT ![this].destroy = TRUE], this)
      /\ segments \in [DOMAIN segments -> ShmSegmentOf] /\ DOMAIN segments \subseteq 1..(nextShmid - 1)
  BY DEF ShmctlRmid, ShmInv, ShmTypeOK, ShmSettled
<1>2. PICK segs : segs = [segments EXCEPT ![this].destroy = TRUE]
  OBVIOUS
<1>3. segments[this] \in ShmSegmentOf /\ segs[this] = [segments[this] EXCEPT !.destroy = TRUE]
  BY <1>1, <1>2
<1>4. segs[this] \in ShmSegmentOf /\ segs[this].nattch = segments[this].nattch
  BY <1>3 DEF ShmSegmentOf
<1>5. /\ DOMAIN segs = DOMAIN segments /\ \A id \in DOMAIN segments : segs[id].nattch = segments[id].nattch
      /\ segs \in [DOMAIN segments -> ShmSegmentOf]
  BY <1>1, <1>2, <1>4
<1>6. /\ DOMAIN segments' \subseteq DOMAIN segments /\ segments' \in [DOMAIN segments' -> ShmSegmentOf]
      /\ \A id \in DOMAIN segments :
           IF id \in DOMAIN segments' THEN segments'[id].nattch = segments[id].nattch
           ELSE segments[id].nattch = 0
  BY <1>1, <1>2, <1>5 DEF Reaped, Minus
<1>7. ShmCounted(segments, attached, shmPast, nextShmid)'
  BY <1>1, <1>6 DEF ShmInv, ShmCounted
<1>8. ShmTypeOK' /\ ShmSettled'
  BY <1>1, <1>6 DEF ShmInv, ShmTypeOK, ShmSettled
<1> QED
  BY <1>1, <1>7, <1>8 DEF ShmInv, ShmFresh, ShmOwned

---------------------------------------------------------------------------
(* Attaching and detaching                                                 *)

(* The first steps of shmat and shmdt, and munmap, change only mappings    *)
(* and the call.                                                           *)
LEMMA ShmCallKeeps ==
    ASSUME ShmInv, NEW t \in ShmThread, NEW r \in ShmCallOf, r.at # "exec",
           space[t] # NoSpace, shmCall[t].at # "exec",
           shmCall' = [shmCall EXCEPT ![t] = r],
           UNCHANGED <<segments, nextShmid, attached, space, shmPast>>
    PROVE  ShmInv'
  BY ShmSameOwners DEF ShmInv, ShmTypeOK, ShmSettled, ShmCounted, ShmFresh

LEMMA ShmatMapKeeps ==
    ASSUME ShmInv, NEW t \in ShmThread, NEW this, ShmatMap(t, this)
    PROVE  ShmInv'
<1>1. PICK address \in Addresses :
        shmCall' = [shmCall EXCEPT ![t] = [at |-> "attach", id |-> this, address |-> address]]
  BY DEF ShmatMap, ShmGo
<1>2. /\ this \in DOMAIN segments /\ space[t] # NoSpace /\ shmCall[t] = ShmIdle
      /\ UNCHANGED <<segments, nextShmid, attached, space, shmPast>>
  BY DEF ShmatMap, ShmStarts
<1>3. this \in Nat
  BY <1>2 DEF ShmInv, ShmSettled
<1>4. PICK r : r = [at |-> "attach", id |-> this, address |-> address]
  OBVIOUS
<1>5. r \in ShmCallOf /\ r.at # "exec" /\ shmCall[t].at # "exec"
  BY <1>2, <1>3, <1>4 DEF ShmCallOf, ShmIdle
<1> QED
  BY <1>1, <1>2, <1>4, <1>5, ShmCallKeeps

LEMMA ShmdtUnmapKeeps ==
    ASSUME ShmInv, NEW t \in ShmThread, NEW address, ShmdtUnmap(t, address)
    PROVE  ShmInv'
<1>1. PICK k \in DOMAIN attached[space[t]].at :
        shmCall' = [shmCall EXCEPT ![t] = [at |-> "detach", this |-> attached[space[t]].at[k]]]
  BY DEF ShmdtUnmap, ShmGo
<1>2. /\ space[t] # NoSpace /\ shmCall[t] = ShmIdle
      /\ UNCHANGED <<segments, nextShmid, attached, space, shmPast>>
  BY DEF ShmdtUnmap, ShmStarts
<1>3. attached[space[t]].at[k] \in ShmAttachmentOf
  BY <1>2 DEF ShmInv, ShmTypeOK, ShmSpaceOf
<1>4. PICK r : r = [at |-> "detach", this |-> attached[space[t]].at[k]]
  OBVIOUS
<1>5. r \in ShmCallOf /\ r.at # "exec" /\ shmCall[t].at # "exec"
  BY <1>2, <1>3, <1>4 DEF ShmCallOf, ShmIdle
<1> QED
  BY <1>1, <1>2, <1>4, <1>5, ShmCallKeeps

(* A step of the list of one address space that keeps its owners.          *)
LEMMA ShmListKeeps ==
    ASSUME ShmInv, NEW t \in ShmThread, shmCall[t].at \in {"attach", "detach"},
           shmCall' = [shmCall EXCEPT ![t] = ShmIdle],
           NEW list \in Seq(ShmAttachmentOf),
           \A k \in DOMAIN list : list[k].id < nextShmid,
           attached' = [attached EXCEPT ![space[t]] = [owners |-> @.owners, at |-> list]],
           ShmSegsOf(segments'), DOMAIN segments' \subseteq DOMAIN segments,
           ShmCounted(segments', attached', shmPast', nextShmid),
           UNCHANGED <<nextShmid, space>>
    PROVE  ShmInv'
<1>1. /\ shmCall[t].at # "exec" /\ space[t] # NoSpace /\ space[t] \in ShmSpace
  BY DEF ShmIdle, ShmInv, ShmSettled, ShmTypeOK
<1>2. attached[space[t]].owners \in Nat \ {0}
  BY <1>1, ShmHasOwner DEF ShmInv
<1>3. /\ attached' \in [ShmSpace -> ShmSpaceOf]
      /\ \A s \in ShmSpace : attached'[s].owners = attached[s].owners
      /\ \A s \in ShmSpace : s # space[t] => attached'[s] = attached[s]
      /\ attached'[space[t]].at = list /\ attached'[space[t]].owners # 0
  BY <1>1, <1>2 DEF ShmInv, ShmTypeOK, ShmSpaceOf
<1>4. shmCall' \in [ShmThread -> ShmCallOf]
  BY DEF ShmInv, ShmTypeOK, ShmCallOf
<1>5. ShmTypeOK'
  BY <1>3, <1>4 DEF ShmInv, ShmTypeOK, ShmSegsOf
<1>6. ShmSettled'
  BY <1>3 DEF ShmInv, ShmSettled, ShmTypeOK
<1>7. ShmOwned(attached, space, shmCall)'
  BY <1>1, <1>3, ShmSameOwners DEF ShmIdle, ShmInv
<1>8. ShmFresh(attached, nextShmid)'
  BY <1>3 DEF ShmInv, ShmFresh
<1> QED
  BY <1>5, <1>6, <1>7, <1>8 DEF ShmInv

LEMMA ShmOwnersKept ==
    ASSUME NEW x \in ShmSpaceOf, NEW list
    PROVE  [x EXCEPT !.owners = x.owners, !.at = list] = [owners |-> x.owners, at |-> list]
<1>1. x = [owners |-> x.owners, at |-> x.at]
  BY DEF ShmSpaceOf
<1>2. PICK o, l : o = x.owners /\ l = x.at
  OBVIOUS
<1>3. x = [owners |-> o, at |-> l]
  BY <1>1, <1>2
<1>4. [x EXCEPT !.owners = o] = x
  BY <1>3
<1>5. [x EXCEPT !.at = list] = [owners |-> o, at |-> list]
  BY <1>3
<1> QED
  BY <1>2, <1>4, <1>5

LEMMA ShmatCountKeeps ==
    ASSUME ShmInv, NEW t \in ShmThread, ShmatCount(t)
    PROVE  ShmInv'
<1>1. /\ shmCall[t].at = "attach" /\ shmCall' = [shmCall EXCEPT ![t] = ShmIdle]
      /\ UNCHANGED <<nextShmid, space, shmPast>>
  BY DEF ShmatCount, ShmGo
<1>2. shmCall[t].id \in Nat /\ shmCall[t].address \in Addresses /\ shmCall[t] # ShmIdle
  BY <1>1, ShmCallForms DEF ShmInv, ShmTypeOK
<1>3. /\ space[t] # NoSpace /\ space[t] \in ShmSpace /\ attached[space[t]].owners \in Nat \ {0}
  BY <1>2, ShmHasOwner DEF ShmInv, ShmSettled
<1>4. PICK s \in ShmSpace : s = space[t]
  BY <1>3
<1>5. PICK a \in ShmAttachmentOf : a = [id |-> shmCall[t].id, address |-> shmCall[t].address]
  BY <1>2 DEF ShmAttachmentOf
<1>6. /\ attached \in [ShmSpace -> ShmSpaceOf] /\ attached[s] \in ShmSpaceOf
      /\ attached[s].at \in Seq(ShmAttachmentOf) /\ ShmSegsOf(segments) /\ nextShmid \in Nat
      /\ DOMAIN segments \subseteq 1..(nextShmid - 1)
  BY <1>4 DEF ShmInv, ShmTypeOK, ShmSpaceOf, ShmSegsOf, ShmSettled
<1>7. CASE a.id \in DOMAIN segments
  <2>1. PICK list : list = Append(attached[s].at, a)
    OBVIOUS
  <2>2. list \in Seq(ShmAttachmentOf) /\ \A k \in DOMAIN list : list[k] = a \/ \E i \in DOMAIN attached[s].at : list[k] = attached[s].at[i]
    BY <1>6, <2>1, ShmAppended
  <2>3. \A k \in DOMAIN list : list[k].id < nextShmid
    BY <1>6, <1>7, <2>2 DEF ShmInv, ShmFresh
  <2>4. /\ segments' = Counts(segments, a.id, 1)
        /\ attached' = [attached EXCEPT ![s].owners = IF @ = 0 THEN 1 ELSE @, ![s].at = Append(@, a)]
    BY <1>4, <1>5, <1>7 DEF ShmatCount
  <2>5. attached' = [attached EXCEPT ![s] = [owners |-> @.owners, at |-> list]]
    BY <1>6, <1>3, <1>4, <2>1, <2>4, ShmOwnersKept
  <2>6. attached' \in [ShmSpace -> ShmSpaceOf] /\ attached'[s].at = list /\ \A u \in ShmSpace \ {s} : attached'[u].at = attached[u].at
    BY <1>6, <2>2, <2>5 DEF ShmSpaceOf
  <2>7. /\ ShmCounted(Counts(segments, a.id, 1), attached', shmPast, nextShmid)
        /\ ShmSegsOf(Counts(segments, a.id, 1)) /\ DOMAIN Counts(segments, a.id, 1) = DOMAIN segments
    <3>1. PICK next \in [ShmSpace -> ShmSpaceOf] : next = attached'
      BY <2>6
    <3>2. next[s].at = Append(attached[s].at, a) /\ \A u \in ShmSpace \ {s} : next[u].at = attached[u].at
      BY <2>1, <2>6, <3>1
    <3>3. ShmCounted(segments, attached, shmPast, nextShmid)
      BY DEF ShmInv
    <3>4. /\ ShmCounted(Counts(segments, a.id, 1), next, shmPast, nextShmid)
          /\ ShmSegsOf(Counts(segments, a.id, 1)) /\ DOMAIN Counts(segments, a.id, 1) = DOMAIN segments
      BY <1>6, <1>7, <3>2, <3>3, ShmAttachCounts
    <3> QED
      BY <3>1, <3>4
  <2> QED
    BY <1>1, <1>4, <2>2, <2>3, <2>4, <2>5, <2>7, ShmListKeeps
<1>8. CASE a.id \notin DOMAIN segments
  BY <1>5, <1>8, <1>1, <1>3, ShmCallKeeps DEF ShmatCount, ShmCallOf, ShmIdle
<1> QED
  BY <1>7, <1>8

(* A set of positions has a first.                                         *)
LEMMA ShmLowest ==
    ASSUME NEW S, S \subseteq Nat, S # {}
    PROVE  \E x \in S : \A y \in S : x <= y
<1>1. IsWellFoundedOn(OpToRel(<, Nat), Nat)
  BY NatLessThanWellFounded, Zenon
<1>2. PICK x \in S : \A y \in S : ~(<<y, x>> \in OpToRel(<, Nat))
  BY <1>1, WFMin, Zenon
<1>3. \A y \in S : x <= y
  <2> SUFFICES ASSUME NEW y \in S PROVE x <= y
    OBVIOUS
  <2>1. x \in Nat /\ y \in Nat
    OBVIOUS
  <2>2. ~(<<y, x>> \in OpToRel(<, Nat))
    BY <1>2
  <2>3. ~(y < x)
    BY <2>1, <2>2 DEF OpToRel
  <2> QED BY <2>1, <2>3
<1> QED BY <1>3

LEMMA ShmdtCountKeeps ==
    ASSUME ShmInv, NEW t \in ShmThread, ShmdtCount(t)
    PROVE  ShmInv'
<1>1. /\ shmCall[t].at = "detach" /\ shmCall' = [shmCall EXCEPT ![t] = ShmIdle]
      /\ UNCHANGED <<nextShmid, space>>
  BY DEF ShmdtCount, ShmGo
<1>2. shmCall[t].this \in ShmAttachmentOf /\ shmCall[t] # ShmIdle
  BY <1>1, ShmCallForms DEF ShmInv, ShmTypeOK
<1>3. /\ space[t] # NoSpace /\ space[t] \in ShmSpace
  BY <1>2 DEF ShmInv, ShmSettled, ShmTypeOK
<1>4. PICK s \in ShmSpace : s = space[t]
  BY <1>3
<1>5. PICK this : this = shmCall[t].this
  OBVIOUS
<1>6. /\ attached \in [ShmSpace -> ShmSpaceOf] /\ attached[s] \in ShmSpaceOf
      /\ attached[s].at \in Seq(ShmAttachmentOf) /\ ShmSegsOf(segments) /\ nextShmid \in Nat
      /\ ShmCounted(segments, attached, shmPast, nextShmid)
  BY <1>4 DEF ShmInv, ShmTypeOK, ShmSpaceOf, ShmSegsOf, ShmSettled
<1>7. PICK there : there = {k \in DOMAIN attached[s].at : attached[s].at[k] = this}
  OBVIOUS
<1>8. /\ attached' = [attached EXCEPT ![s].at =
                        IF there = {} THEN @ ELSE Cut(@, CHOOSE k \in there : \A j \in there : k <= j)]
      /\ segments' = Reaped(Counts(segments, this.id, -1), this.id)
      /\ shmPast' = IF there = {} THEN shmPast \cup {this.id} ELSE shmPast
  BY <1>4, <1>5, <1>7 DEF ShmdtCount
<1>9. ShmSegsOf(segments') /\ DOMAIN segments' \subseteq DOMAIN segments
  BY <1>6, <1>8, ShmDetachTypes
<1> DEFINE first == CHOOSE k \in there : \A j \in there : k <= j
<1>9b. attached' = [attached EXCEPT ![s].at = IF there = {} THEN @ ELSE Cut(@, first)]
  BY <1>8
<1>9a. there # {} => first \in there
  <2>1. there \in SUBSET Nat
    BY <1>6, <1>7
  <2>2. there # {} => \E k \in there : \A j \in there : k <= j
    BY <2>1, ShmLowest
  <2> QED
    BY <2>2
<1> HIDE DEF first
<1>10. PICK list : list = IF there = {} THEN attached[s].at ELSE Cut(attached[s].at, first)
  OBVIOUS
<1>11. attached' = [attached EXCEPT ![s] = [owners |-> @.owners, at |-> list]]
  <2>1. PICK x \in ShmSpaceOf : x = attached[s]
    BY <1>6
  <2>2. attached' = [attached EXCEPT ![s] = [x EXCEPT !.at = list]]
    BY <1>6, <1>9b, <1>10, <2>1
  <2>3. [x EXCEPT !.at = list] = [owners |-> x.owners, at |-> list]
    BY DEF ShmSpaceOf
  <2> QED
    BY <2>1, <2>2, <2>3
<1>12. ASSUME list \in Seq(ShmAttachmentOf)
       PROVE  /\ attached' \in [ShmSpace -> ShmSpaceOf] /\ attached'[s].at = list
              /\ \A u \in ShmSpace \ {s} : attached'[u].at = attached[u].at
  BY <1>6, <1>11, <1>12 DEF ShmSpaceOf
<1>13. \A i \in DOMAIN attached[s].at : attached[s].at[i].id < nextShmid
  BY DEF ShmInv, ShmFresh
<1>14. CASE there = {}
  <2>1. list = attached[s].at /\ list \in Seq(ShmAttachmentOf)
    BY <1>6, <1>10, <1>14
  <2>2. /\ attached' \in [ShmSpace -> ShmSpaceOf]
        /\ \A u \in ShmSpace : attached'[u].at = attached[u].at
    BY <1>12, <2>1
  <2>3. PICK next : next = attached'
    OBVIOUS
  <2>4. \A u \in ShmSpace : next[u].at = attached[u].at
    BY <2>2, <2>3
  <2>5. ShmCounted(Reaped(Counts(segments, this.id, -1), this.id), next, shmPast \cup {this.id}, nextShmid)
    BY <1>6, <2>4, ShmDetachMissed
  <2>6. ShmCounted(segments', attached', shmPast', nextShmid)
    BY <1>8, <1>14, <2>3, <2>5
  <2>7. \A k \in DOMAIN list : list[k].id < nextShmid
    BY <1>13, <2>1
  <2> QED
    BY <1>1, <1>4, <1>9, <1>11, <2>1, <2>6, <2>7, ShmListKeeps
<1>15. CASE there # {}
  <2>1. PICK k \in there : list = Cut(attached[s].at, k)
    BY <1>9a, <1>10, <1>15
  <2>2. k \in DOMAIN attached[s].at /\ attached[s].at[k] = this
    BY <1>7
  <2>3. /\ list \in Seq(ShmAttachmentOf)
        /\ \A j \in DOMAIN list : \E i \in DOMAIN attached[s].at : list[j] = attached[s].at[i]
    BY <1>6, <2>1, <2>2, ShmCut
  <2>4. PICK next \in [ShmSpace -> ShmSpaceOf] : next = attached'
    BY <1>12, <2>3
  <2>5. next[s].at = Cut(attached[s].at, k) /\ \A u \in ShmSpace \ {s} : next[u].at = attached[u].at
    BY <1>12, <2>1, <2>3, <2>4
  <2>6. PICK number : number = attached[s].at[k].id
    OBVIOUS
  <2>7. ShmCounted(Reaped(Counts(segments, number, -1), number), next, shmPast, nextShmid)
    BY <1>6, <2>2, <2>5, <2>6, ShmDetachCounts
  <2>8. number = this.id
    BY <2>2, <2>6
  <2>9. ShmCounted(segments', attached', shmPast', nextShmid)
    BY <1>8, <1>15, <2>4, <2>7, <2>8
  <2>10. \A j \in DOMAIN list : list[j].id < nextShmid
    BY <1>13, <2>3
  <2> QED
    BY <1>1, <1>4, <1>9, <1>11, <2>3, <2>9, <2>10, ShmListKeeps
<1> QED
  BY <1>14, <1>15

---------------------------------------------------------------------------
(* Processes                                                               *)

(* Leaving an address space takes one owner away, and what it had attached *)
(* with the last one.                                                      *)
LEMMA ShmUnlists ==
    ASSUME ShmInv, NEW s \in ShmSpace, attached[s].owners # 0, Unlisted(s)
    PROVE  /\ attached' \in [ShmSpace -> ShmSpaceOf]
           /\ ShmSegsOf(segments') /\ DOMAIN segments' \subseteq DOMAIN segments
           /\ ShmCounted(segments', attached', shmPast, nextShmid)
           /\ ShmFresh(attached', nextShmid)
           /\ \A u \in ShmSpace : attached'[u].owners = attached[u].owners - (IF u = s THEN 1 ELSE 0)
           /\ \A u \in ShmSpace : attached'[u].owners = 0 => attached'[u].at = <<>>
<1>1. /\ attached \in [ShmSpace -> ShmSpaceOf] /\ attached[s] \in ShmSpaceOf
      /\ ShmSegsOf(segments) /\ nextShmid \in Nat /\ attached[s].owners \in Nat \ {0}
      /\ ShmCounted(segments, attached, shmPast, nextShmid) /\ ShmFresh(attached, nextShmid)
      /\ \A u \in ShmSpace : attached[u].owners \in Nat /\ (attached[u].owners = 0 => attached[u].at = <<>>)
  BY DEF ShmInv, ShmTypeOK, ShmSpaceOf, ShmSegsOf, ShmSettled
<1>2. CASE Left(s)
  <2>1. attached' = [attached EXCEPT ![s] = NoAttachments] /\ segments' = SegmentLeft(segments, s)
    BY <1>2 DEF Unlisted
  <2>2. attached[s].owners = 1
    BY <1>1, <1>2 DEF Left
  <2>3. NoAttachments \in ShmSpaceOf /\ NoAttachments.at = <<>> /\ NoAttachments.owners = 0
    BY DEF NoAttachments, ShmSpaceOf
  <2>4. /\ attached' \in [ShmSpace -> ShmSpaceOf] /\ attached'[s] = NoAttachments
        /\ \A u \in ShmSpace \ {s} : attached'[u] = attached[u]
    BY <1>1, <2>1, <2>3
  <2>5. PICK segs2 : segs2 = segments'
    OBVIOUS
  <2>6. /\ DOMAIN segs2 \subseteq DOMAIN segments /\ ShmSegsOf(segs2)
        /\ \A id \in DOMAIN segments :
             LET c == Cardinality(ShmOf(attached[s].at, id))
                 less == IF segments[id].nattch < c THEN 0 ELSE segments[id].nattch - c
             IN  IF id \in DOMAIN segs2 THEN segs2[id].nattch = less ELSE less = 0
    BY <2>1, <2>5, ShmSegmentLeft DEF ShmInv
  <2>7. PICK next \in [ShmSpace -> ShmSpaceOf] : next = attached'
    BY <2>4
  <2>8. next[s].at = <<>> /\ \A u \in ShmSpace \ {s} : next[u].at = attached[u].at
    BY <2>3, <2>4, <2>7
  <2>9. ShmCounted(segs2, next, shmPast, nextShmid)
    BY <1>1, <2>6, <2>8, ShmLeaveCounts
  <2>10. ShmFresh(next, nextShmid)
    BY <1>1, <2>8 DEF ShmFresh
  <2>11. \A u \in ShmSpace : attached'[u].owners = attached[u].owners - (IF u = s THEN 1 ELSE 0)
    BY <1>1, <2>2, <2>3, <2>4
  <2>12. \A u \in ShmSpace : attached'[u].owners = 0 => attached'[u].at = <<>>
    BY <1>1, <2>3, <2>4
  <2> QED
    BY <2>4, <2>5, <2>6, <2>7, <2>9, <2>10, <2>11, <2>12
<1>3. CASE ~Left(s)
  <2>1. attached' = [attached EXCEPT ![s].owners = @ - 1] /\ segments' = segments
    BY <1>3 DEF Unlisted
  <2>2. attached[s].owners - 1 \in Nat \ {0}
    BY <1>1, <1>3 DEF Left
  <2>3. /\ attached' \in [ShmSpace -> ShmSpaceOf]
        /\ \A u \in ShmSpace : attached'[u].at = attached[u].at
        /\ \A u \in ShmSpace : attached'[u].owners = attached[u].owners - (IF u = s THEN 1 ELSE 0)
    BY <1>1, <2>1, <2>2 DEF ShmSpaceOf
  <2>4. \A u \in ShmSpace : attached'[u].owners = 0 => attached'[u].at = <<>>
    BY <1>1, <2>2, <2>3
  <2>5. PICK next : next = attached'
    OBVIOUS
  <2>6. \A id : ShmAll(next, id) = ShmAll(attached, id)
    BY <2>3, <2>5, ShmSameLists
  <2>7. ShmCounted(segments, next, shmPast, nextShmid)
    BY <1>1, <2>6 DEF ShmCounted
  <2>8. ShmFresh(next, nextShmid)
    BY <1>1, <2>3, <2>5 DEF ShmFresh
  <2> QED
    BY <1>1, <2>1, <2>3, <2>4, <2>5, <2>7, <2>8
<1> QED
  BY <1>2, <1>3

(* One owner more.                                                         *)
LEMMA ShmOwnerMore ==
    ASSUME NEW att \in [ShmSpace -> ShmSpaceOf], NEW v \in ShmSpace, NEW next,
           NEW o, o = att[v].owners + 1, next = [att EXCEPT ![v].owners = o]
    PROVE  /\ next \in [ShmSpace -> ShmSpaceOf]
           /\ \A u \in ShmSpace : next[u].at = att[u].at
           /\ \A u \in ShmSpace : next[u].owners = att[u].owners + (IF u = v THEN 1 ELSE 0)
  BY DEF ShmSpaceOf

(* exit leaves for good,                                                   *)
LEMMA ShmExitKeeps ==
    ASSUME ShmInv, NEW t \in ShmThread, ShmExit(t)
    PROVE  ShmInv'
<1>1. /\ space[t] # NoSpace /\ shmCall[t] = ShmIdle /\ Unlisted(space[t])
      /\ space' = [space EXCEPT ![t] = NoSpace] /\ UNCHANGED <<nextShmid, shmCall, shmPast>>
  BY DEF ShmExit
<1>2. /\ space[t] \in ShmSpace /\ attached[space[t]].owners # 0
  BY <1>1, ShmHasOwner DEF ShmInv
<1>3. PICK s \in ShmSpace : s = space[t]
  BY <1>2
<1>4. /\ attached' \in [ShmSpace -> ShmSpaceOf]
      /\ ShmSegsOf(segments') /\ DOMAIN segments' \subseteq DOMAIN segments
      /\ ShmCounted(segments', attached', shmPast, nextShmid)
      /\ ShmFresh(attached', nextShmid)
      /\ \A u \in ShmSpace : attached'[u].owners = attached[u].owners - (IF u = s THEN 1 ELSE 0)
      /\ \A u \in ShmSpace : attached'[u].owners = 0 => attached'[u].at = <<>>
  BY <1>1, <1>2, <1>3, ShmUnlists
<1>5. ShmTypeOK'
  BY <1>1, <1>4 DEF ShmInv, ShmTypeOK, ShmSegsOf
<1>6. ShmSettled'
  BY <1>1, <1>4 DEF ShmInv, ShmSettled, ShmTypeOK
<1>7. ShmOwned(attached, space, shmCall)'
  <2> SUFFICES ASSUME NEW u \in ShmSpace
               PROVE  attached'[u].owners = Cardinality(ShmIn(space', u)) + Cardinality(ShmTo(shmCall, u))
    BY <1>1 DEF ShmOwned
  <2>1. PICK a, b : a = Cardinality(ShmIn(space, u)) /\ b = Cardinality(ShmIn(space', u))
    OBVIOUS
  <2>2. a \in Nat /\ b \in Nat /\ b + (IF space[t] = u THEN 1 ELSE 0) = a + (IF NoSpace = u THEN 1 ELSE 0)
    <3>1. PICK next : next = space'
      OBVIOUS
    <3>2. (\A w \in ShmThread \ {t} : next[w] = space[w]) /\ next[t] = NoSpace
      BY <1>1, <3>1 DEF ShmInv, ShmTypeOK
    <3>3. /\ Cardinality(ShmIn(space, u)) \in Nat /\ Cardinality(ShmIn(next, u)) \in Nat
         /\ Cardinality(ShmIn(next, u)) + (IF ShmSits(space[t], u) THEN 1 ELSE 0)
              = Cardinality(ShmIn(space, u)) + (IF ShmSits(next[t], u) THEN 1 ELSE 0)
      BY <3>2, ShmMoved, Zenon
    <3> QED
      BY <2>1, <3>1, <3>2, <3>3 DEF ShmSits
  <2>3. NoSpace # u
    BY ShmAssumption
  <2>4. PICK c : c = Cardinality(ShmTo(shmCall, u))
    OBVIOUS
  <2>5. c \in Nat
    BY <2>4, FS_Subset, FS_CardinalityType, ShmAssumption DEF ShmTo
  <2>6. attached[u].owners = a + c
    BY <2>1, <2>4 DEF ShmInv, ShmOwned
  <2>7. attached'[u].owners = b + c
    BY <1>3, <1>4, <2>2, <2>3, <2>5, <2>6
  <2> QED
    BY <1>1, <2>1, <2>4, <2>7
<1> QED
  BY <1>1, <1>4, <1>5, <1>6, <1>7 DEF ShmInv

(* exec holds its new address space before it leaves the old one,          *)
LEMMA ShmExecRegisterKeeps ==
    ASSUME ShmInv, NEW t \in ShmThread, ShmExecRegister(t)
    PROVE  ShmInv'
<1>1. PICK v \in Vacant : /\ attached' = [attached EXCEPT ![v].owners = 1]
                          /\ shmCall' = [shmCall EXCEPT ![t] = [at |-> "exec", new |-> v]]
  BY DEF ShmExecRegister, ShmGo
<1>2. /\ space[t] # NoSpace /\ shmCall[t] = ShmIdle
      /\ UNCHANGED <<segments, nextShmid, space, shmPast>>
      /\ v \in ShmSpace /\ attached[v].owners = 0
  BY <1>1 DEF ShmExecRegister, ShmStarts, Vacant
<1>3. /\ attached' \in [ShmSpace -> ShmSpaceOf]
      /\ \A u \in ShmSpace : attached'[u].at = attached[u].at
      /\ \A u \in ShmSpace : attached'[u].owners = attached[u].owners + (IF u = v THEN 1 ELSE 0)
  BY <1>2, <1>1, ShmOwnerMore DEF ShmInv, ShmTypeOK
<1>4. PICK r \in ShmCallOf : r = [at |-> "exec", new |-> v]
  BY <1>2 DEF ShmCallOf
<1>5. ShmTypeOK'
  BY <1>1, <1>2, <1>3, <1>4 DEF ShmInv, ShmTypeOK
<1>6. ShmSettled'
  <2>1. \A s \in ShmSpace : attached'[s].owners = 0 => attached'[s].at = <<>>
    <3>1. \A u \in ShmSpace : attached[u].owners \in Nat
      BY DEF ShmInv, ShmTypeOK, ShmSpaceOf
    <3>2. \A u \in ShmSpace : attached'[u].owners = 0 => attached[u].owners = 0
      BY <1>3, <3>1
    <3>3. \A u \in ShmSpace : attached[u].owners = 0 => attached[u].at = <<>>
      BY DEF ShmInv, ShmSettled
    <3> QED
      BY <1>3, <3>2, <3>3
  <2>2. \A u \in ShmThread : shmCall'[u] # ShmIdle => space'[u] # NoSpace
    BY <1>1, <1>2 DEF ShmInv, ShmSettled, ShmTypeOK
  <2> QED
    BY <1>2, <2>1, <2>2 DEF ShmInv, ShmSettled
<1>7. ShmOwned(attached, space, shmCall)'
  <2> SUFFICES ASSUME NEW u \in ShmSpace
               PROVE  attached'[u].owners = Cardinality(ShmIn(space, u)) + Cardinality(ShmTo(shmCall', u))
    BY <1>2 DEF ShmOwned
  <2>1. PICK a, b : a = Cardinality(ShmTo(shmCall, u)) /\ b = Cardinality(ShmTo(shmCall', u))
    OBVIOUS
  <2>2. a \in Nat /\ b \in Nat
        /\ b + (IF ShmExecsTo(shmCall[t], u) THEN 1 ELSE 0) = a + (IF ShmExecsTo(r, u) THEN 1 ELSE 0)
    <3>1. PICK next : next = shmCall'
      OBVIOUS
    <3>2. (\A w \in ShmThread \ {t} : next[w] = shmCall[w]) /\ next[t] = r
      BY <1>1, <1>4, <3>1 DEF ShmInv, ShmTypeOK
    <3>3. /\ Cardinality(ShmTo(shmCall, u)) \in Nat /\ Cardinality(ShmTo(next, u)) \in Nat
         /\ Cardinality(ShmTo(next, u)) + (IF ShmExecsTo(shmCall[t], u) THEN 1 ELSE 0)
              = Cardinality(ShmTo(shmCall, u)) + (IF ShmExecsTo(next[t], u) THEN 1 ELSE 0)
      BY <3>2, ShmExecs, Zenon
    <3> QED
      BY <2>1, <3>1, <3>2, <3>3
  <2>3. ~ShmExecsTo(shmCall[t], u) /\ (ShmExecsTo(r, u) <=> u = v)
    BY <1>2, <1>4 DEF ShmExecsTo, ShmIdle
  <2>4. PICK c : c = Cardinality(ShmIn(space, u))
    OBVIOUS
  <2>5. c \in Nat
    BY <2>4, FS_Subset, FS_CardinalityType, ShmAssumption DEF ShmIn
  <2>6. attached[u].owners = c + a
    BY <2>1, <2>4 DEF ShmInv, ShmOwned
  <2>7. attached'[u].owners = c + b
    BY <1>3, <2>2, <2>3, <2>5, <2>6
  <2> QED
    BY <1>1, <1>4, <2>1, <2>4, <2>7
<1>8. ShmCounted(segments, attached, shmPast, nextShmid)'
  BY <1>3, ShmSameLists, <1>2 DEF ShmCounted, ShmInv
<1>9. ShmFresh(attached, nextShmid)'
  BY <1>2, <1>3 DEF ShmFresh, ShmInv
<1> QED
  BY <1>5, <1>6, <1>7, <1>8, <1>9 DEF ShmInv

(* and then leaves it.                                                     *)
LEMMA ShmExecLeaveKeeps ==
    ASSUME ShmInv, NEW t \in ShmThread, ShmExecLeave(t)
    PROVE  ShmInv'
<1>1. /\ shmCall[t].at = "exec" /\ Unlisted(space[t]) /\ space' = [space EXCEPT ![t] = shmCall[t].new]
      /\ shmCall' = [shmCall EXCEPT ![t] = ShmIdle] /\ UNCHANGED <<nextShmid, shmPast>>
  BY DEF ShmExecLeave, ShmGo
<1>2. shmCall[t].new \in ShmSpace /\ shmCall[t] # ShmIdle
  BY <1>1, ShmCallForms DEF ShmInv, ShmTypeOK
<1>3. /\ space[t] # NoSpace /\ space[t] \in ShmSpace /\ attached[space[t]].owners # 0
  BY <1>2, ShmHasOwner DEF ShmInv, ShmSettled
<1>4. PICK s \in ShmSpace : s = space[t]
  BY <1>3
<1>5. PICK v \in ShmSpace : v = shmCall[t].new
  BY <1>2
<1>6. /\ attached' \in [ShmSpace -> ShmSpaceOf]
      /\ ShmSegsOf(segments') /\ DOMAIN segments' \subseteq DOMAIN segments
      /\ ShmCounted(segments', attached', shmPast, nextShmid)
      /\ ShmFresh(attached', nextShmid)
      /\ \A u \in ShmSpace : attached'[u].owners = attached[u].owners - (IF u = s THEN 1 ELSE 0)
      /\ \A u \in ShmSpace : attached'[u].owners = 0 => attached'[u].at = <<>>
  BY <1>1, <1>3, <1>4, ShmUnlists
<1>7. ShmTypeOK'
  BY <1>1, <1>2, <1>6 DEF ShmCallOf, ShmInv, ShmTypeOK, ShmSegsOf
<1>8. ShmSettled'
  BY <1>1, <1>6 DEF ShmInv, ShmTypeOK, ShmSettled
<1>9. ShmOwned(attached, space, shmCall)'
  <2> SUFFICES ASSUME NEW u \in ShmSpace
               PROVE  attached'[u].owners = Cardinality(ShmIn(space', u)) + Cardinality(ShmTo(shmCall', u))
    BY DEF ShmOwned
  <2>1. PICK a, b : a = Cardinality(ShmTo(shmCall, u)) /\ b = Cardinality(ShmTo(shmCall', u))
    OBVIOUS
  <2>2. a \in Nat /\ b \in Nat
        /\ b + (IF ShmExecsTo(shmCall[t], u) THEN 1 ELSE 0) = a + (IF ShmExecsTo(ShmIdle, u) THEN 1 ELSE 0)
    <3>1. PICK next : next = shmCall'
      OBVIOUS
    <3>2. (\A w \in ShmThread \ {t} : next[w] = shmCall[w]) /\ next[t] = ShmIdle
      BY <1>1, <3>1 DEF ShmInv, ShmTypeOK
    <3>3. /\ Cardinality(ShmTo(shmCall, u)) \in Nat /\ Cardinality(ShmTo(next, u)) \in Nat
         /\ Cardinality(ShmTo(next, u)) + (IF ShmExecsTo(shmCall[t], u) THEN 1 ELSE 0)
              = Cardinality(ShmTo(shmCall, u)) + (IF ShmExecsTo(next[t], u) THEN 1 ELSE 0)
      BY <3>2, ShmExecs, Zenon
    <3> QED
      BY <2>1, <3>1, <3>2, <3>3
  <2>3. ~ShmExecsTo(ShmIdle, u) /\ (ShmExecsTo(shmCall[t], u) <=> u = v)
    BY <1>1, <1>5 DEF ShmExecsTo, ShmIdle
  <2>4. PICK c, d : c = Cardinality(ShmIn(space, u)) /\ d = Cardinality(ShmIn(space', u))
    OBVIOUS
  <2>5. c \in Nat /\ d \in Nat /\ d + (IF space[t] = u THEN 1 ELSE 0) = c + (IF v = u THEN 1 ELSE 0)
    <3>1. PICK next : next = space'
      OBVIOUS
    <3>2. (\A w \in ShmThread \ {t} : next[w] = space[w]) /\ next[t] = v
      BY <1>1, <1>5, <3>1 DEF ShmInv, ShmTypeOK
    <3>3. /\ Cardinality(ShmIn(space, u)) \in Nat /\ Cardinality(ShmIn(next, u)) \in Nat
         /\ Cardinality(ShmIn(next, u)) + (IF ShmSits(space[t], u) THEN 1 ELSE 0)
              = Cardinality(ShmIn(space, u)) + (IF ShmSits(next[t], u) THEN 1 ELSE 0)
      BY <3>2, ShmMoved, Zenon
    <3> QED
      BY <2>4, <3>1, <3>2, <3>3 DEF ShmSits
  <2>6. attached[u].owners = c + a
    BY <2>1, <2>4 DEF ShmInv, ShmOwned
  <2>7. attached'[u].owners = d + b
    BY <1>4, <1>6, <2>2, <2>3, <2>5, <2>6
  <2> QED
    BY <1>1, <1>5, <2>1, <2>4, <2>7
<1> QED
  BY <1>1, <1>6, <1>7, <1>8, <1>9 DEF ShmInv

(* clone adds an owner, or an address space with all the attachments of    *)
(* the parent's.                                                           *)
LEMMA ShmCloneOwns ==
    ASSUME NEW child \in Unborn, NEW v \in ShmSpace
    PROVE  (/\ ShmInv /\ space' = [space EXCEPT ![child] = v] /\ UNCHANGED shmCall
            /\ \A u \in ShmSpace : attached'[u].owners = attached[u].owners + (IF u = v THEN 1 ELSE 0))
             => ShmOwned(attached', space', shmCall')
<1>0. SUFFICES ASSUME ShmInv, space' = [space EXCEPT ![child] = v], UNCHANGED shmCall,
                      \A u \in ShmSpace : attached'[u].owners = attached[u].owners + (IF u = v THEN 1 ELSE 0),
                      NEW u \in ShmSpace
               PROVE  attached'[u].owners = Cardinality(ShmIn(space', u)) + Cardinality(ShmTo(shmCall', u))
  BY DEF ShmOwned
<1>1. PICK a, b : a = Cardinality(ShmIn(space, u)) /\ b = Cardinality(ShmIn(space', u))
  OBVIOUS
<1>2. a \in Nat /\ b \in Nat /\ b + (IF space[child] = u THEN 1 ELSE 0) = a + (IF v = u THEN 1 ELSE 0)
  <2>1. PICK next : next = space'
    OBVIOUS
  <2>2. (\A w \in ShmThread \ {child} : next[w] = space[w]) /\ child \in ShmThread
    BY <1>0, <2>1 DEF ShmInv, ShmTypeOK, Unborn
  <2>4. next[child] = v
    BY <1>0, <2>1, <2>2 DEF ShmInv, ShmTypeOK
  <2>3. /\ Cardinality(ShmIn(space, u)) \in Nat /\ Cardinality(ShmIn(next, u)) \in Nat
       /\ Cardinality(ShmIn(next, u)) + (IF ShmSits(space[child], u) THEN 1 ELSE 0)
            = Cardinality(ShmIn(space, u)) + (IF ShmSits(next[child], u) THEN 1 ELSE 0)
    BY <2>2, ShmMoved, ZenonT(40)
  <2> QED
    BY <1>1, <2>1, <2>3, <2>4 DEF ShmSits
<1>3. space[child] # u
  BY ShmAssumption DEF Unborn
<1>4. PICK c : c = Cardinality(ShmTo(shmCall, u))
  OBVIOUS
<1>5. c \in Nat
  <2>1. ShmTo(shmCall, u) \in SUBSET ShmThread
    BY DEF ShmTo
  <2> QED
    BY <1>4, <2>1, FS_Subset, FS_CardinalityType, ShmAssumption
<1>6. attached[u].owners = a + c
  BY <1>0, <1>1, <1>4 DEF ShmInv, ShmOwned
<1>7. attached'[u].owners = b + c
  BY <1>0, <1>2, <1>3, <1>5, <1>6
<1> QED
  BY <1>0, <1>1, <1>4, <1>7

LEMMA ShmCloneKeeps ==
    ASSUME ShmInv, NEW t \in ShmThread, NEW child \in ShmThread, ShmClone(t, child)
    PROVE  ShmInv'
<1>1. /\ space[t] # NoSpace /\ space[child] = NoSpace /\ shmCall[child] = ShmIdle
      /\ UNCHANGED <<nextShmid, shmCall, shmPast>> /\ child \in Unborn
  BY DEF ShmClone, ShmStarts, Unborn
<1>2. PICK s \in ShmSpace : s = space[t]
  BY <1>1 DEF ShmInv, ShmTypeOK
<1>3. /\ attached \in [ShmSpace -> ShmSpaceOf] /\ ShmSegsOf(segments) /\ nextShmid \in Nat
      /\ space \in [ShmThread -> ShmSpace \cup {NoSpace}]
      /\ \A u \in ShmSpace : attached[u] \in ShmSpaceOf /\ attached[u].owners \in Nat
      /\ ShmCounted(segments, attached, shmPast, nextShmid) /\ ShmFresh(attached, nextShmid)
      /\ \A u \in ShmSpace : attached[u].owners = 0 => attached[u].at = <<>>
  BY DEF ShmInv, ShmTypeOK, ShmSpaceOf, ShmSegsOf, ShmSettled
<1>4. ASSUME NEW v \in ShmSpace, space' = [space EXCEPT ![child] = v],
             attached' \in [ShmSpace -> ShmSpaceOf], ShmSegsOf(segments'),
             DOMAIN segments' \subseteq DOMAIN segments,
             \A u \in ShmSpace : attached'[u].owners = attached[u].owners + (IF u = v THEN 1 ELSE 0),
             \A u \in ShmSpace : u # v => attached'[u].at = attached[u].at,
             ShmCounted(segments', attached', shmPast, nextShmid), ShmFresh(attached', nextShmid)
      PROVE  ShmInv'
  <2>1. ShmTypeOK'
    BY <1>1, <1>4 DEF ShmInv, ShmTypeOK, ShmSegsOf
  <2>2. ShmSettled'
    BY <1>3, <1>4, <1>1 DEF ShmInv, ShmSettled
  <2>3. ShmOwned(attached, space, shmCall)'
    BY <1>1, <1>4, ShmCloneOwns
  <2> QED
    BY <1>1, <1>4, <2>1, <2>2, <2>3 DEF ShmInv
<1>5. CASE /\ space' = [space EXCEPT ![child] = space[t]]
           /\ attached' = [attached EXCEPT ![space[t]].owners = @ + 1]
           /\ UNCHANGED segments
  <2>1. PICK next : next = attached'
    OBVIOUS
  <2>2. PICK o : o = attached[s].owners + 1
    OBVIOUS
  <2>3. next = [attached EXCEPT ![s].owners = o]
    BY <1>2, <1>5, <2>1, <2>2
  <2>4. /\ next \in [ShmSpace -> ShmSpaceOf]
        /\ \A u \in ShmSpace : next[u].at = attached[u].at
        /\ \A u \in ShmSpace : next[u].owners = attached[u].owners + (IF u = s THEN 1 ELSE 0)
    BY <1>3, <2>2, <2>3, ShmOwnerMore
  <2>5. \A id : ShmAll(next, id) = ShmAll(attached, id)
    BY <2>4, ShmSameLists
  <2>6. ShmCounted(segments, next, shmPast, nextShmid)
    BY <1>3, <2>5 DEF ShmCounted
  <2>7. ShmFresh(next, nextShmid)
    BY <1>3, <2>4 DEF ShmFresh
  <2> QED
    BY <1>2, <1>3, <1>4, <1>5, <2>1, <2>4, <2>6, <2>7
<1>6. CASE \E v \in Vacant :
             /\ space' = [space EXCEPT ![child] = v]
             /\ attached' = [attached EXCEPT ![v] = [owners |-> 1, at |-> attached[space[t]].at]]
             /\ segments' = Inherited(space[t])
  <2>1. PICK v \in Vacant :
             /\ space' = [space EXCEPT ![child] = v]
             /\ attached' = [attached EXCEPT ![v] = [owners |-> 1, at |-> attached[s].at]]
             /\ segments' = Inherited(s)
    BY <1>2, <1>6
  <2>2. v \in ShmSpace /\ attached[v].owners = 0 /\ attached[v].at = <<>>
    BY <1>3 DEF Vacant
  <2>3. /\ attached' \in [ShmSpace -> ShmSpaceOf] /\ attached'[v].at = attached[s].at
        /\ attached'[v].owners = 1 /\ \A u \in ShmSpace : u # v => attached'[u] = attached[u]
    BY <1>3, <2>1, <2>2 DEF ShmSpaceOf
  <2>4. \A u \in ShmSpace : attached'[u].owners = attached[u].owners + (IF u = v THEN 1 ELSE 0)
    BY <1>3, <2>2, <2>3
  <2>5. \A id : AttachedAt(s, id) = Cardinality(ShmOf(attached[s].at, id)) /\ AttachedAt(s, id) \in Nat
    BY <1>3, ShmOfFinite DEF AttachedAt, AttachedIn, ShmOf, ShmSpaceOf
  <2>6. PICK segs2 : segs2 = segments'
    OBVIOUS
  <2>7. \A id \in DOMAIN segments : segments[id] \in ShmSegmentOf
    BY <1>3 DEF ShmSegsOf
  <2>8. /\ DOMAIN segs2 = DOMAIN segments
        /\ \A id \in DOMAIN segments :
             segs2[id] = [segments[id] EXCEPT !.nattch = @ + AttachedAt(s, id)]
        /\ segs2 = [id \in DOMAIN segs2 |-> segs2[id]]
    BY <2>1, <2>6 DEF Inherited
  <2>9. \A id \in DOMAIN segments :
           segs2[id] \in ShmSegmentOf /\ segs2[id].nattch = segments[id].nattch + AttachedAt(s, id)
    BY <2>5, <2>7, <2>8 DEF ShmSegmentOf
  <2>10. ShmSegsOf(segs2)
    BY <2>8, <2>9 DEF ShmSegsOf
  <2>11. PICK next \in [ShmSpace -> ShmSpaceOf] : next = attached'
    BY <2>3
  <2>12. next[v].at = attached[s].at /\ \A u \in ShmSpace \ {v} : next[u].at = attached[u].at
    BY <2>3, <2>11
  <2>13. \A id \in DOMAIN segments :
           segs2[id].nattch = segments[id].nattch + Cardinality(ShmOf(attached[s].at, id))
    BY <2>5, <2>9
  <2>14. ShmCounted(segs2, next, shmPast, nextShmid)
    BY <1>3, <2>2, <2>8, <2>12, <2>13, ShmInheritCounts
  <2>15. ShmFresh(next, nextShmid)
    BY <1>3, <2>2, <2>12 DEF ShmFresh
  <2> QED
    BY <1>4, <2>1, <2>2, <2>3, <2>4, <2>6, <2>8, <2>10, <2>11, <2>14, <2>15
<1> QED
  BY <1>5, <1>6 DEF ShmClone

---------------------------------------------------------------------------
(* ShmInv is an invariant of shared memory.                                *)
LEMMA ShmInvHolds == ShmSpec => []ShmInv
<1>1. ShmInit => ShmInv
  <2> SUFFICES ASSUME ShmInit PROVE ShmInv
    OBVIOUS
  <2>1. PICK first \in ShmThread, home \in ShmSpace :
          /\ segments = <<>> /\ nextShmid = 1 /\ shmPast = {}
          /\ attached = [s \in ShmSpace |-> IF s = home THEN [owners |-> 1, at |-> <<>>] ELSE NoAttachments]
          /\ space = [t \in ShmThread |-> IF t = first THEN home ELSE NoSpace]
          /\ shmCall = [t \in ShmThread |-> ShmIdle]
    BY DEF ShmInit
  <2>2. DOMAIN segments = {} /\ segments \in [DOMAIN segments -> ShmSegmentOf]
    BY <2>1
  <2>3. \A s \in ShmSpace : attached[s] \in ShmSpaceOf /\ attached[s].at = <<>>
    BY <2>1 DEF NoAttachments, ShmSpaceOf
  <2>4. attached \in [ShmSpace -> ShmSpaceOf]
    BY <2>1, <2>3
  <2>5. ShmTypeOK
    BY <2>1, <2>2, <2>4 DEF ShmTypeOK, ShmCallOf
  <2>6. ShmSettled
    BY <2>1, <2>2, <2>3 DEF ShmSettled
  <2>7. ShmCounted(segments, attached, shmPast, nextShmid)
    BY <2>1 DEF ShmCounted
  <2>8. ShmFresh(attached, nextShmid)
    BY <2>3 DEF ShmFresh
  <2>9. ShmOwned(attached, space, shmCall)
    <3> SUFFICES ASSUME NEW s \in ShmSpace
                 PROVE  attached[s].owners = Cardinality(ShmIn(space, s)) + Cardinality(ShmTo(shmCall, s))
      BY DEF ShmOwned
    <3>1. ShmTo(shmCall, s) = {}
      BY <2>1 DEF ShmTo, ShmIdle
    <3>2. ShmIn(space, s) = IF s = home THEN {first} ELSE {}
      BY <2>1, ShmAssumption DEF ShmIn
    <3>3. attached[s].owners = IF s = home THEN 1 ELSE 0
      BY <2>1 DEF NoAttachments
    <3>4. Cardinality(ShmTo(shmCall, s)) = 0
      BY <3>1, FS_EmptySet
    <3>5. CASE s = home
      <4>1. Cardinality({first}) = 1
        BY FS_Singleton
      <4> QED
        BY <3>2, <3>3, <3>4, <3>5, <4>1
    <3>6. CASE s # home
      BY <3>2, <3>3, <3>4, <3>6, FS_EmptySet
    <3> QED
      BY <3>5, <3>6
  <2> QED
    BY <2>5, <2>6, <2>7, <2>8, <2>9 DEF ShmInv
<1>2. ShmInv /\ [ShmNext]_shmVars => ShmInv'
  <2> SUFFICES ASSUME ShmInv, [ShmNext]_shmVars PROVE ShmInv'
    OBVIOUS
  <2>1. CASE UNCHANGED shmVars
    BY <2>1 DEF shmVars, ShmInv, ShmTypeOK, ShmSettled, ShmCounted, ShmOwned, ShmFresh
  <2>2. ASSUME NEW t \in ShmThread, NEW address, ShmMunmap(t, address) PROVE ShmInv'
    BY <2>2 DEF ShmMunmap, ShmInv, ShmTypeOK, ShmSettled, ShmCounted, ShmOwned, ShmFresh
  <2> QED
    BY <2>1, <2>2, ShmgetKeeps, ShmctlKeeps, ShmatMapKeeps, ShmatCountKeeps, ShmdtUnmapKeeps,
       ShmdtCountKeeps, ShmExitKeeps, ShmExecRegisterKeeps, ShmExecLeaveKeeps, ShmCloneKeeps
    DEF ShmNext
<1> QED
  BY <1>1, <1>2, PTL DEF ShmSpec

(* The number of attachments a segment counts is the number of places it   *)
(* is attached in all address spaces, and the owners of an address space   *)
(* are the threads in it and the calls of exec that hold it, whatever      *)
(* shmget, shmat, shmdt, clone, exec and exit interleave (fs/shm.rs).      *)
THEOREM Attachments == ShmSpec => []AttachmentsCounted
<1>1. ShmInv => AttachmentsCounted
  <2> SUFFICES ASSUME ShmInv PROVE AttachmentsCounted
    OBVIOUS
  <2>1. \A id : AttachedAnywhere(id) = ShmAll(attached, id)
    BY DEF AttachedAnywhere, AttachedIn, ShmAll, ShmOf
  <2>2. \A id : Cardinality(ShmAll(attached, id)) = 0 => ShmAll(attached, id) = {}
    BY ShmAllFinite, FS_EmptySet DEF ShmInv, ShmTypeOK
  <2>3. \A id \in (1..(nextShmid - 1)) \ shmPast :
          IF id \in DOMAIN segments THEN segments[id].nattch = Cardinality(AttachedAnywhere(id))
          ELSE AttachedAnywhere(id) = {}
    BY <2>1, <2>2 DEF ShmInv, ShmCounted
  <2>4. \A s \in ShmSpace :
          attached[s].owners = Cardinality({t \in ShmThread : space[t] = s})
            + Cardinality({t \in ShmThread : shmCall[t].at = "exec" /\ shmCall[t].new = s})
    BY DEF ShmInv, ShmOwned, ShmIn, ShmTo
  <2> QED
    BY <2>3, <2>4 DEF AttachmentsCounted
<1> QED
  BY <1>1, ShmInvHolds, PTL

---------------------------------------------------------------------------
(* Data through open files                                                 *)

(* A unit, and a call that has begun.                                      *)
IoUnit == Int \X Int
IoPlaces == [from : Int, to : Int]
IoRecords ==
    [at : {"run", "wait", "append", "deliver", "returned"}, op : {"read", "write", "sendfile", "copy"},
     from : IoFile \cup {"channel", "user"}, to : IoFile \cup {"channel", "user"},
     segments : Seq(Nat), left : Seq(Nat), start : IoPlaces, place : IoPlaces,
     first : Int, whole : BOOLEAN, hand : Seq(IoUnit), part : Nat, total : Nat,
     took : Nat, gave : Nat, stale : BOOLEAN, id : Nat]
IoIdle == [at |-> "idle"]

(* The types of the state; the channel holds no more than it has room for. *)
IoTypes ==
    /\ ioSetup \in IoSetups
    /\ content \in Seq(IoUnit) /\ stream \in Seq(IoUnit)
    /\ position \in [IoFile -> Nat]
    /\ drained \in Nat /\ drained <= Len(stream) /\ Len(stream) - drained <= ChannelRoom
    /\ ioLock \in [IoFile \cup {"reader", "writer"} -> IoThread \cup {Unlocked}]
    /\ ioCalls \in Nat
    /\ ioCall \in [IoThread -> IoRecords \cup {IoIdle}]

(* Calls are numbered, no two threads are in the same, and what is in the  *)
(* channel is of calls that have begun.                                    *)
IoIds ==
    /\ \A t \in IoThread : ioCall[t].at # "idle" => ioCall[t].id \in 1..ioCalls
    /\ \A s, t \in IoThread : (s # t /\ ioCall[s].at # "idle" /\ ioCall[t].at # "idle")
                                => ioCall[s].id # ioCall[t].id
    /\ \A k \in DOMAIN stream : stream[k][1] \in 1..ioCalls

(* What a call has told so far, by its operation: lost are the calls that  *)
(* got EAGAIN after they had moved something or dropped what they had read.*)
ReadSound(r, lost) ==
    /\ r.to = "user" /\ r.start.to < 0 /\ r.from \in IoFile \cup {"channel"}
    /\ r.at \in {"run", "wait", "returned"} /\ (r.at = "wait" => r.from = "channel")
    /\ r.start.from >= 0 => r.from \in IoFile /\ r.place.from - r.start.from = r.total
    /\ (r.id \notin lost /\ r.start.from < 0) => r.took = r.total
WriteSound(r, lost) ==
    /\ r.from = "user" /\ r.start.from < 0 /\ r.to \in IoFile \cup {"channel"}
    /\ r.at \in {"run", "wait", "append", "returned"}
    /\ r.at = "append" => r.place.to < 0 /\ r.to \in IoFile
    /\ r.start.to >= 0 => r.to \in IoFile /\ r.place.to - r.start.to = r.total
    /\ r.id \notin lost => r.gave = r.total
CopySound(r, lost) ==
    /\ r.from \in IoFile /\ r.to \in IoFile \cup {"channel"}
    /\ r.at \in {"run", "wait", "deliver", "returned"}
    /\ r.segments # <<>> /\ r.total <= Head(r.segments)
    /\ r.at = "deliver" => Len(r.hand) > 0 /\ r.total + Len(r.hand) <= Head(r.segments)
    /\ r.start.to >= 0 => r.place.to - r.start.to = r.total
    /\ (r.op = "sendfile" /\ r.start.from >= 0) => r.place.from - r.start.from = r.total
    /\ r.id \notin lost =>
         /\ r.gave = r.total
         /\ r.start.from >= 0 => r.place.from - r.start.from = r.total
         /\ r.start.from < 0 => r.took = r.total + (IF r.at = "deliver" THEN Len(r.hand) ELSE 0)
CallSound(r, lost) ==
    /\ r.whole
    /\ r.at # "returned" => r.left # <<>>
    /\ r.segments # <<>>
    /\ r.start.from >= 0 <=> r.place.from >= 0
    /\ r.start.to >= 0 <=> r.place.to >= 0
    /\ r.op = "read" => ReadSound(r, lost)
    /\ r.op = "write" => WriteSound(r, lost)
    /\ r.op \in {"sendfile", "copy"} => CopySound(r, lost)
CallsSound == \A t \in IoThread : ioCall[t].at # "idle" => CallSound(ioCall[t], broken)

(* A readv on a position holds its lock from the first segment on, and the *)
(* position is where the last segment ended.                               *)
ReadHeld(t, r) ==
    (r.at = "run" /\ r.op = "read" /\ r.from \in IoFile) =>
      /\ r.first = -1 => r.total = 0
      /\ (r.first # -1 /\ r.place.from >= 0) => r.place.from = r.first + r.total
      /\ (r.first # -1 /\ r.place.from < 0) =>
           ioLock[r.from] = t /\ position[r.from] = r.first + r.total

(* Between setting the position and writing an append holds the lock; the  *)
(* position is behind all that was appended, unless the size is outdated.  *)
AppendHeld(t, r) ==
    r.at = "append" =>
      /\ ioLock[r.to] = t
      /\ ~ r.stale => \A p \in DOMAIN appended \ overrun : p < position[r.to]
CallsHeld == \A t \in IoThread : ReadHeld(t, ioCall[t]) /\ AppendHeld(t, ioCall[t])

(* What was appended is within the file.                                   *)
AppendsPlaced == /\ DOMAIN appended \subseteq 0..(Len(content) - 1)
                 /\ AppendsKept

(* The units of a call that is under way end with its count.               *)
StreamFor(r) ==
    (r.at # "idle" /\ r.to = "channel" /\ r.id \notin broken) =>
      /\ \A k \in DOMAIN stream : stream[k][1] = r.id => stream[k][2] <= r.total
      /\ r.total > 0 => \E k \in DOMAIN stream : stream[k] = <<r.id, r.total>>
StreamSound == StreamInOrder /\ \A t \in IoThread : StreamFor(ioCall[t])

(* The inductive invariant.                                                *)
IoInv == /\ IoTypes /\ IoIds /\ CallsSound /\ CallsHeld /\ AppendsPlaced /\ StreamSound

(* The same call: its operation, its ends, what it was given, its number.  *)
IoLike(q, r) ==
    /\ q.op = r.op /\ q.from = r.from /\ q.to = r.to /\ q.segments = r.segments
    /\ q.start = r.start /\ q.id = r.id

(* A sequence with elements is not the empty one.                          *)
LEMMA IoNotEmpty == ASSUME NEW s, Len(s) # 0 PROVE s # <<>>
  OBVIOUS

(* A call that returns keeps its count and its offsets.                    *)
LEMMA IoReturnedIs ==
    ASSUME NEW r \in IoRecords
    PROVE  /\ IoReturned(r) \in IoRecords /\ IoLike(IoReturned(r), r)
           /\ IoReturned(r).at = "returned" /\ IoReturned(r).whole = r.whole
           /\ IoReturned(r).place = r.place /\ IoReturned(r).total = r.total
           /\ IoReturned(r).took = r.took /\ IoReturned(r).gave = r.gave
           /\ IoReturned(r).hand = r.hand /\ IoReturned(r).first = r.first
BY DEF IoRecords, IoReturned, IoLike

(* A call whose count is dropped keeps the rest.                           *)
LEMMA IoZeroed ==
    ASSUME NEW r \in IoRecords
    PROVE  LET q == [r EXCEPT !.total = 0]
           IN  /\ q \in IoRecords /\ IoLike(q, r) /\ q.at = r.at /\ q.whole = r.whole
               /\ q.place = r.place /\ q.total = 0 /\ q.took = r.took /\ q.gave = r.gave
               /\ q.hand = r.hand
BY DEF IoRecords, IoLike

(* A call that waits starts over: its count and its offsets are those it   *)
(* began with.                                                             *)
LEMMA RetriedIs ==
    ASSUME NEW r \in IoRecords
    PROVE  /\ Retried(r) \in IoRecords /\ IoLike(Retried(r), r)
           /\ Retried(r).at = "wait" /\ Retried(r).whole = r.whole
           /\ Retried(r).place = r.start /\ Retried(r).total = 0 /\ Retried(r).left = r.segments
           /\ Retried(r).took = r.took /\ Retried(r).gave = r.gave
<1>1. /\ r.segments \in Seq(Nat) /\ r.start \in IoPlaces /\ -1 \in Int /\ 0 \in Nat
      /\ <<>> \in Seq(IoUnit)
  BY DEF IoRecords
<1>2. Retried(r) \in IoRecords
  <2>1. Retried(r) = [[r EXCEPT !.at = "wait", !.left = r.segments, !.total = 0, !.place = r.start]
                       EXCEPT !.first = -1, !.hand = <<>>, !.part = 0]
    BY DEF IoRecords, Retried
  <2> DEFINE q == [r EXCEPT !.at = "wait", !.left = r.segments, !.total = 0, !.place = r.start]
  <2>2. q \in IoRecords
    BY <1>1 DEF IoRecords
  <2> HIDE DEF q
  <2>3. [q EXCEPT !.first = -1, !.hand = <<>>, !.part = 0] \in IoRecords
    BY <1>1, <2>2 DEF IoRecords
  <2>4. Retried(r) = [q EXCEPT !.first = -1, !.hand = <<>>, !.part = 0]
    BY <2>1 DEF q
  <2> QED BY <2>3, <2>4
<1>3. IoLike(Retried(r), r)
  BY DEF IoRecords, Retried, IoLike
<1>4. /\ Retried(r).at = "wait" /\ Retried(r).whole = r.whole
      /\ Retried(r).place = r.start /\ Retried(r).total = 0 /\ Retried(r).left = r.segments
      /\ Retried(r).took = r.took /\ Retried(r).gave = r.gave
  BY DEF IoRecords, Retried
<1> QED BY <1>2, <1>3, <1>4

(* A call that goes on to another stage keeps what it has done.            *)
LEMMA IoRunsIs ==
    ASSUME NEW r \in IoRecords, NEW a \in {"run", "wait", "append", "deliver", "returned"}
    PROVE  LET q == [r EXCEPT !.at = a]
           IN  /\ q \in IoRecords /\ IoLike(q, r) /\ q.at = a /\ q.whole = r.whole /\ q.left = r.left
               /\ q.place = r.place /\ q.total = r.total /\ q.took = r.took /\ q.gave = r.gave
               /\ q.hand = r.hand /\ q.first = r.first /\ q.stale = r.stale
BY DEF IoRecords, IoLike

(* An append whose size is outdated keeps what it has done.                *)
LEMMA StaleIs ==
    ASSUME NEW r \in IoRecords
    PROVE  LET q == [r EXCEPT !.stale = TRUE]
           IN  /\ q \in IoRecords /\ IoLike(q, r) /\ q.at = r.at /\ q.whole = r.whole /\ q.left = r.left
               /\ q.place = r.place /\ q.total = r.total /\ q.took = r.took /\ q.gave = r.gave
               /\ q.hand = r.hand /\ q.first = r.first /\ q.stale
BY DEF IoRecords, IoLike

(* A segment that is filled adds to the count and to what was taken, and   *)
(* the next one is there unless the call ends.                             *)
LEMMA AfterReadIs ==
    ASSUME NEW r \in IoRecords, NEW n \in Nat, r.left # <<>>
    PROVE  /\ AfterRead(r, n) \in IoRecords /\ IoLike(AfterRead(r, n), r)
           /\ AfterRead(r, n).at \in {r.at, "returned"} /\ AfterRead(r, n).whole = r.whole
           /\ AfterRead(r, n).at # "returned" => AfterRead(r, n).left # <<>>
           /\ AfterRead(r, n).place = r.place /\ AfterRead(r, n).total = r.total + n
           /\ AfterRead(r, n).took = r.took + n /\ AfterRead(r, n).first = r.first
<1>1. r.left \in Seq(Nat) /\ r.total \in Nat /\ r.took \in Nat
  BY DEF IoRecords
<1>2. Tail(r.left) \in Seq(Nat) /\ Len(Tail(r.left)) = Len(r.left) - 1
  BY <1>1, HeadTailProperties
<1>3. r.total + n \in Nat /\ r.took + n \in Nat
  BY <1>1
<1> DEFINE q == [r EXCEPT !.total = @ + n, !.took = @ + n, !.left = Tail(@)]
<1>4. /\ q \in IoRecords /\ IoLike(q, r) /\ q.at = r.at /\ q.whole = r.whole /\ q.place = r.place
      /\ q.total = r.total + n /\ q.took = r.took + n /\ q.first = r.first /\ q.left = Tail(r.left)
  BY <1>2, <1>3 DEF IoRecords, IoLike
<1>5. AfterRead(r, n) = IF n < Head(r.left) \/ Len(r.left) = 1 THEN IoReturned(q) ELSE q
  BY DEF AfterRead
<1>6. CASE n < Head(r.left) \/ Len(r.left) = 1
  <2>1. AfterRead(r, n) = IoReturned(q)
    BY <1>5, <1>6
  <2> HIDE DEF q
  <2> QED BY <2>1, <1>4, IoReturnedIs DEF IoLike
<1>7. CASE ~ (n < Head(r.left) \/ Len(r.left) = 1)
  <2>1. AfterRead(r, n) = q
    BY <1>5, <1>7
  <2> HIDE DEF q
  <2>2. Len(Tail(r.left)) # 0
    BY <1>1, <1>7, LenProperties, <1>2
  <2>3. Tail(r.left) # <<>>
    BY <2>2, IoNotEmpty
  <2>4. q.left # <<>>
    BY <2>3, <1>4
  <2> QED BY <2>1, <2>4, <1>4
<1> QED BY <1>6, <1>7

(* What was written adds to the count and to what was given, and there is  *)
(* a segment left unless the call ends.                                    *)
LEMMA AfterWriteIs ==
    ASSUME NEW r \in IoRecords, NEW n \in Nat, r.left # <<>>
    PROVE  /\ AfterWrite(r, n) \in IoRecords /\ IoLike(AfterWrite(r, n), r)
           /\ AfterWrite(r, n).at \in {"run", "returned"} /\ AfterWrite(r, n).whole = r.whole
           /\ AfterWrite(r, n).at # "returned" => AfterWrite(r, n).left # <<>>
           /\ AfterWrite(r, n).place = r.place /\ AfterWrite(r, n).total = r.total + n
           /\ AfterWrite(r, n).gave = r.gave + n
<1>1. r.left \in Seq(Nat) /\ r.total \in Nat /\ r.gave \in Nat /\ r.part \in Nat
  BY DEF IoRecords
<1>2. Tail(r.left) \in Seq(Nat) /\ Len(Tail(r.left)) = Len(r.left) - 1
  BY <1>1, HeadTailProperties
<1>3. r.total + n \in Nat /\ r.gave + n \in Nat /\ r.part + n \in Nat
  BY <1>1
<1> DEFINE q == [r EXCEPT !.at = "run", !.total = @ + n, !.gave = @ + n, !.part = @ + n, !.stale = FALSE]
<1>4. q \in IoRecords
  BY <1>3 DEF IoRecords
<1>5. /\ IoLike(q, r) /\ q.at = "run" /\ q.whole = r.whole /\ q.place = r.place
      /\ q.total = r.total + n /\ q.gave = r.gave + n /\ q.left = r.left
  BY DEF IoRecords, IoLike
<1>6. AfterWrite(r, n) = IF q.part < Head(r.left) THEN q
                         ELSE IF Len(r.left) = 1 THEN IoReturned(q) ELSE [q EXCEPT !.left = Tail(@), !.part = 0]
  BY DEF AfterWrite
<1> HIDE DEF q
<1>7. CASE q.part < Head(r.left)
  BY <1>4, <1>5, <1>6, <1>7
<1>8. CASE ~ (q.part < Head(r.left)) /\ Len(r.left) = 1
  BY <1>6, <1>8, <1>4, <1>5, IoReturnedIs DEF IoLike
<1>9. CASE ~ (q.part < Head(r.left)) /\ Len(r.left) # 1
  <2> DEFINE w == [q EXCEPT !.left = Tail(@), !.part = 0]
  <2>1. AfterWrite(r, n) = w
    BY <1>6, <1>9
  <2>2. Len(r.left) \in Nat /\ Len(r.left) # 1
    BY <1>1, <1>9, LenProperties
  <2>3. Len(Tail(r.left)) # 0
    BY <1>2, <2>2
  <2>4. Tail(r.left) # <<>>
    BY <2>3, IoNotEmpty
  <2>5. w \in IoRecords
    BY <1>2, <1>4, <1>5 DEF IoRecords
  <2>6. /\ IoLike(w, q) /\ w.at = q.at /\ w.whole = q.whole /\ w.place = q.place
        /\ w.total = q.total /\ w.gave = q.gave /\ w.left = Tail(q.left)
    BY <1>4 DEF IoRecords, IoLike
  <2> HIDE DEF w
  <2>7. IoLike(w, r)
    BY <1>5, <2>6 DEF IoLike
  <2>8. w.left # <<>>
    BY <1>5, <2>4, <2>6
  <2> QED BY <2>1, <2>5, <2>6, <2>7, <2>8, <1>5
<1> QED BY <1>7, <1>8, <1>9

(* What was delivered of a chunk adds to the count, and moves the offsets  *)
(* that were given.                                                        *)
LEMMA AfterDeliverIs ==
    ASSUME NEW r \in IoRecords, NEW w \in Nat, w <= Len(r.hand)
    PROVE  /\ AfterDeliver(r, w) \in IoRecords /\ IoLike(AfterDeliver(r, w), r)
           /\ AfterDeliver(r, w).at \in {"run", "returned"} /\ AfterDeliver(r, w).whole = r.whole
           /\ AfterDeliver(r, w).at = "run" => AfterDeliver(r, w).total # Head(r.segments)
           /\ AfterDeliver(r, w).left = r.left
           /\ AfterDeliver(r, w).total = r.total + w
           /\ AfterDeliver(r, w).gave = r.gave + w /\ AfterDeliver(r, w).took = r.took
           /\ AfterDeliver(r, w).place.from =
                IF r.place.from >= 0 THEN r.place.from + Advanced(r, w) ELSE -1
           /\ AfterDeliver(r, w).place.to = IF r.place.to >= 0 THEN r.place.to + w ELSE -1
<1>1. /\ r.total \in Nat /\ r.gave \in Nat /\ r.place \in IoPlaces /\ r.hand \in Seq(IoUnit)
  BY DEF IoRecords
<1>2. r.place.from \in Int /\ r.place.to \in Int /\ Len(r.hand) \in Nat
  BY <1>1, LenProperties DEF IoPlaces
<1>3. Advanced(r, w) \in Nat
  BY <1>2 DEF Advanced
<1>4. PICK from : from = IF r.place.from >= 0 THEN r.place.from + Advanced(r, w) ELSE -1
  OBVIOUS
<1>5. PICK to : to = IF r.place.to >= 0 THEN r.place.to + w ELSE -1
  OBVIOUS
<1>6. from \in Int /\ to \in Int
  BY <1>2, <1>3, <1>4, <1>5
<1> DEFINE pl == [from |-> from, to |-> to]
<1>7. pl \in IoPlaces /\ pl.from = from /\ pl.to = to
  BY <1>6 DEF IoPlaces
<1> DEFINE q == [r EXCEPT !.at = "run", !.hand = <<>>, !.total = @ + w, !.gave = @ + w, !.place = pl]
<1>8. AfterDeliver(r, w) = IF w < Len(r.hand) \/ q.total = Head(r.segments) THEN IoReturned(q) ELSE q
  BY <1>4, <1>5 DEF AfterDeliver
<1> HIDE DEF pl
<1>9. r.total + w \in Nat /\ r.gave + w \in Nat /\ <<>> \in Seq(IoUnit)
  BY <1>1
<1>10. q \in IoRecords
  BY <1>7, <1>9 DEF IoRecords
<1>11. /\ IoLike(q, r) /\ q.at = "run" /\ q.whole = r.whole /\ q.place = pl /\ q.left = r.left
       /\ q.total = r.total + w /\ q.gave = r.gave + w /\ q.took = r.took
  BY DEF IoRecords, IoLike
<1> HIDE DEF q
<1>12. CASE w < Len(r.hand) \/ q.total = Head(r.segments)
  <2>1. AfterDeliver(r, w) = IoReturned(q)
    BY <1>8, <1>12
  <2>2. IoReturned(q).left = q.left
    BY <1>10 DEF IoRecords, IoReturned
  <2>3. IoReturned(q) \in IoRecords /\ IoLike(IoReturned(q), q)
    BY <1>10, IoReturnedIs
  <2>4. IoLike(IoReturned(q), r)
    BY <1>11, <2>3 DEF IoLike
  <2>5. /\ IoReturned(q).at = "returned" /\ IoReturned(q).whole = q.whole
        /\ IoReturned(q).place = q.place /\ IoReturned(q).total = q.total
        /\ IoReturned(q).took = q.took /\ IoReturned(q).gave = q.gave
    BY <1>10, IoReturnedIs
  <2> QED BY <2>1, <2>2, <2>3, <2>4, <2>5, <1>11, <1>7, <1>4, <1>5
<1>13. CASE ~ (w < Len(r.hand) \/ q.total = Head(r.segments))
  BY <1>8, <1>13, <1>10, <1>11, <1>7, <1>4, <1>5
<1> QED BY <1>12, <1>13

(* The types of the fields of a call.                                      *)
LEMMA IoFields ==
    ASSUME NEW r \in IoRecords
    PROVE  /\ r.place.from \in Int /\ r.place.to \in Int /\ r.start.from \in Int /\ r.start.to \in Int
           /\ r.total \in Nat /\ r.took \in Nat /\ r.gave \in Nat /\ r.id \in Nat /\ r.first \in Int
           /\ r.part \in Nat
           /\ r.at # "idle" /\ r.op \in {"read", "write", "sendfile", "copy"}
           /\ r.segments \in Seq(Nat) /\ r.left \in Seq(Nat) /\ r.hand \in Seq(IoUnit)
  BY DEF IoRecords, IoPlaces

(* A call that tells the truth does so when more calls are lost.           *)
LEMMA SoundMore ==
    ASSUME NEW r \in IoRecords, NEW lost, NEW more, lost \subseteq more, CallSound(r, lost)
    PROVE  CallSound(r, more)
BY IoFields DEF CallSound, ReadSound, WriteSound, CopySound

(* A call may return wherever it stands, but with a chunk in hand only if  *)
(* it is lost or has an offset to go by.                                   *)
LEMMA SoundReturned ==
    ASSUME NEW r \in IoRecords, NEW lost, CallSound(r, lost),
           r.at = "deliver" => (r.id \in lost \/ r.start.from >= 0)
    PROVE  CallSound(IoReturned(r), lost)
<1>1. PICK q : q = IoReturned(r)
  OBVIOUS
<1>2. /\ q \in IoRecords /\ IoLike(q, r)
      /\ q.at = "returned" /\ q.whole = r.whole
      /\ q.place = r.place /\ q.total = r.total
      /\ q.took = r.took /\ q.gave = r.gave
      /\ q.hand = r.hand /\ q.first = r.first
  BY <1>1, IoReturnedIs
<1>4. r.op \in {"sendfile", "copy"} => CopySound(q, lost)
  BY <1>2, IoFields DEF CallSound, IoLike, CopySound
<1>5. (r.op = "read" => ReadSound(q, lost)) /\ (r.op = "write" => WriteSound(q, lost))
  BY <1>2, IoFields DEF CallSound, ReadSound, WriteSound, IoLike
<1>3. CallSound(q, lost)
  BY <1>2, <1>4, <1>5, IoFields DEF CallSound, IoLike
<1> QED BY <1>1, <1>3

(* A call that waited tells the truth when it runs again.                  *)
LEMMA SoundRuns ==
    ASSUME NEW r \in IoRecords, NEW lost, CallSound(r, lost), r.at = "wait"
    PROVE  CallSound([r EXCEPT !.at = "run"], lost)
  BY IoRunsIs, IoFields DEF CallSound, ReadSound, WriteSound, CopySound, IoLike

(* An outdated size changes nothing a call tells.                          *)
LEMMA SoundStale ==
    ASSUME NEW r \in IoRecords, NEW lost, CallSound(r, lost)
    PROVE  CallSound([r EXCEPT !.stale = TRUE], lost)
  BY StaleIs, IoFields DEF CallSound, ReadSound, WriteSound, CopySound, IoLike

(* A call that has set the position to the size tells the truth.           *)
LEMMA SoundAppend ==
    ASSUME NEW r \in IoRecords, NEW lost, CallSound(r, lost), r.at = "run", r.op = "write",
           r.place.to < 0, r.to \in IoFile
    PROVE  CallSound([r EXCEPT !.at = "append"], lost)
  BY IoRunsIs, IoFields DEF CallSound, ReadSound, WriteSound, CopySound, IoLike

(* A call that starts over with nothing moved, or is lost, tells the       *)
(* truth.                                                                  *)
LEMMA SoundRetried ==
    ASSUME NEW r \in IoRecords, NEW lost, CallSound(r, lost),
           r.op = "read" => r.from = "channel",
           r.total > 0 => r.id \in lost,
           r.at = "deliver" => (r.id \in lost \/ r.start.from >= 0)
    PROVE  CallSound(Retried(r), lost)
<1>1. PICK q : q = Retried(r)
  OBVIOUS
<1>2. /\ q \in IoRecords /\ IoLike(q, r)
      /\ q.at = "wait" /\ q.whole = r.whole
      /\ q.place = r.start /\ q.total = 0 /\ q.left = r.segments
      /\ q.took = r.took /\ q.gave = r.gave
  BY <1>1, RetriedIs
<1>3. q.segments # <<>> => Head(q.segments) \in Nat
  BY <1>2, IoFields, HeadTailProperties
<1>5. r.op \in {"sendfile", "copy"} => CopySound(q, lost)
  <2> SUFFICES ASSUME r.op \in {"sendfile", "copy"} PROVE CopySound(q, lost)
    OBVIOUS
  <2>1. CopySound(r, lost)
    BY DEF CallSound
  <2>2. /\ q.op = r.op /\ q.from = r.from /\ q.to = r.to /\ q.segments = r.segments
        /\ q.start = r.start /\ q.id = r.id
    BY <1>2 DEF IoLike
  <2>3. r.took \in Nat /\ r.total \in Nat /\ r.total + 0 = r.total
    BY IoFields
  <2>4. (r.id \notin lost /\ r.start.from < 0) => r.took = 0
    BY IoFields, <2>1, <2>3 DEF CopySound
  <2>5. r.id \notin lost => r.gave = 0
    BY <2>1, <2>3 DEF CopySound
  <2>6. r.start.from - r.start.from = 0 /\ r.start.to - r.start.to = 0
    BY IoFields
  <2>7. q.segments # <<>> /\ 0 <= Head(q.segments)
    BY <1>3, <2>1, <2>2 DEF CopySound
  <2> QED BY <1>2, <2>1, <2>2, <2>3, <2>4, <2>5, <2>6, <2>7 DEF CopySound
<1>6. (r.op = "read" => ReadSound(q, lost)) /\ (r.op = "write" => WriteSound(q, lost))
  BY <1>2, IoFields DEF CallSound, ReadSound, WriteSound, IoLike
<1>4. CallSound(q, lost)
  BY <1>2, <1>5, <1>6, IoFields DEF CallSound, IoLike
<1> QED BY <1>1, <1>4

(* A call that returns EAGAIN with nothing moved, or is lost, tells the    *)
(* truth.                                                                  *)
LEMMA SoundZeroed ==
    ASSUME NEW r \in IoRecords, NEW lost, CallSound(r, lost),
           r.op \in {"read", "write"}, r.op = "read" => r.from = "channel",
           r.op = "write" => r.to = "channel", "channel" \notin IoFile,
           r.total > 0 => r.id \in lost
    PROVE  CallSound(IoReturned([r EXCEPT !.total = 0]), lost)
<1>1. PICK q : q = [r EXCEPT !.total = 0]
  OBVIOUS
<1>2. /\ q \in IoRecords /\ IoLike(q, r) /\ q.at = r.at /\ q.whole = r.whole
      /\ q.place = r.place /\ q.total = 0 /\ q.took = r.took /\ q.gave = r.gave
      /\ q.hand = r.hand
  BY <1>1, IoZeroed
<1>3. PICK z : z = IoReturned(q)
  OBVIOUS
<1>4. /\ z \in IoRecords /\ IoLike(z, q)
      /\ z.at = "returned" /\ z.whole = q.whole
      /\ z.place = q.place /\ z.total = q.total
      /\ z.took = q.took /\ z.gave = q.gave
  BY <1>2, <1>3, IoReturnedIs
<1>5. IoLike(z, r)
  BY <1>2, <1>4 DEF IoLike
<1>6. CallSound(z, lost)
  BY <1>2, <1>4, <1>5, IoFields DEF CallSound, ReadSound, WriteSound, IoLike
<1> QED BY <1>1, <1>3, <1>6

(* A read that has filled a segment tells the truth.                       *)
LEMMA SoundRead ==
    ASSUME NEW r \in IoRecords, NEW q \in IoRecords, NEW n \in Nat, NEW lost, CallSound(r, lost),
           r.op = "read", r.at = "run", IoLike(q, r), q.at = r.at, q.left = r.left, q.whole,
           q.total = r.total, q.took = r.took, q.place.to = r.place.to,
           q.place.from = IF r.place.from >= 0 THEN r.place.from + n ELSE r.place.from
    PROVE  CallSound(AfterRead(q, n), lost)
<1>1. PICK z : z = AfterRead(q, n)
  OBVIOUS
<1>2. q.left # <<>>
  BY DEF CallSound
<1>3. /\ z \in IoRecords /\ IoLike(z, q)
      /\ z.at \in {q.at, "returned"} /\ z.whole = q.whole
      /\ z.at # "returned" => z.left # <<>>
      /\ z.place = q.place /\ z.total = q.total + n
      /\ z.took = q.took + n /\ z.first = q.first
  BY <1>1, <1>2, AfterReadIs
<1>4. /\ z.op = r.op /\ z.from = r.from /\ z.to = r.to /\ z.segments = r.segments
      /\ z.start = r.start /\ z.id = r.id /\ z.place.to = r.place.to /\ z.place.from = q.place.from
      /\ z.total = r.total + n /\ z.took = r.took + n
  BY <1>3 DEF IoLike
<1>5. ReadSound(r, lost)
  BY DEF CallSound
<1>6. /\ r.place.from \in Int /\ r.place.to \in Int /\ r.start.from \in Int /\ r.start.to \in Int
      /\ r.total \in Nat /\ r.took \in Nat
  BY IoFields
<1>7. r.start.from >= 0 => /\ r.place.from >= 0 /\ r.place.from - r.start.from = r.total
                           /\ z.place.from - z.start.from = z.total
  BY <1>4, <1>5, <1>6 DEF ReadSound, CallSound
<1>8. ReadSound(z, lost)
  BY <1>3, <1>4, <1>5, <1>6, <1>7 DEF ReadSound
<1>9. (z.start.from >= 0 <=> z.place.from >= 0) /\ (z.start.to >= 0 <=> z.place.to >= 0)
  BY <1>4, <1>6 DEF CallSound
<1>10. CallSound(z, lost)
  BY <1>3, <1>4, <1>8, <1>9 DEF CallSound
<1> QED BY <1>1, <1>10

(* A write that has put n units tells the truth.                           *)
LEMMA SoundWrite ==
    ASSUME NEW r \in IoRecords, NEW q \in IoRecords, NEW n \in Nat, NEW lost, CallSound(r, lost),
           r.op = "write", r.at # "returned", IoLike(q, r), q.left = r.left, q.whole,
           q.total = r.total, q.gave = r.gave, q.place.from = r.place.from,
           q.place.to = IF r.place.to >= 0 THEN r.place.to + n ELSE r.place.to
    PROVE  CallSound(AfterWrite(q, n), lost)
<1>1. PICK z : z = AfterWrite(q, n)
  OBVIOUS
<1>2. q.left # <<>>
  BY DEF CallSound
<1>3. /\ z \in IoRecords /\ IoLike(z, q)
      /\ z.at \in {"run", "returned"} /\ z.whole = q.whole
      /\ z.at # "returned" => z.left # <<>>
      /\ z.place = q.place /\ z.total = q.total + n
      /\ z.gave = q.gave + n
  BY <1>1, <1>2, AfterWriteIs
<1>4. /\ z.op = r.op /\ z.from = r.from /\ z.to = r.to /\ z.segments = r.segments
      /\ z.start = r.start /\ z.id = r.id /\ z.place.to = q.place.to /\ z.place.from = r.place.from
      /\ z.total = r.total + n /\ z.gave = r.gave + n
  BY <1>3 DEF IoLike
<1>5. WriteSound(r, lost)
  BY DEF CallSound
<1>6. /\ r.place.from \in Int /\ r.place.to \in Int /\ r.start.from \in Int /\ r.start.to \in Int
      /\ r.total \in Nat /\ r.gave \in Nat
  BY IoFields
<1>7. r.start.to >= 0 => /\ r.place.to >= 0 /\ r.place.to - r.start.to = r.total
                         /\ z.place.to - z.start.to = z.total
  BY <1>4, <1>5, <1>6 DEF WriteSound, CallSound
<1>8. WriteSound(z, lost)
  BY <1>3, <1>4, <1>5, <1>6, <1>7 DEF WriteSound
<1>9. (z.start.from >= 0 <=> z.place.from >= 0) /\ (z.start.to >= 0 <=> z.place.to >= 0)
  BY <1>4, <1>6 DEF CallSound
<1>10. CallSound(z, lost)
  BY <1>3, <1>4, <1>8, <1>9 DEF CallSound
<1> QED BY <1>1, <1>10

(* A copy that has read a chunk tells the truth.                           *)
LEMMA SoundFetched ==
    ASSUME NEW r \in IoRecords, NEW h \in Seq(IoUnit), NEW n \in Nat, NEW lost, CallSound(r, lost),
           r.op \in {"sendfile", "copy"}, r.at = "run", n = Len(h), n > 0,
           r.total + n <= Head(r.segments)
    PROVE  CallSound([r EXCEPT !.at = "deliver", !.took = @ + n, !.hand = h], lost)
<1>1. PICK q : q = [r EXCEPT !.at = "deliver", !.took = @ + n, !.hand = h]
  OBVIOUS
<1>2. /\ q \in IoRecords /\ IoLike(q, r) /\ q.at = "deliver" /\ q.whole = r.whole /\ q.left = r.left
      /\ q.place = r.place /\ q.total = r.total /\ q.took = r.took + n /\ q.gave = r.gave
      /\ q.hand = h
  <2>1. r.took + n \in Nat
    BY IoFields
  <2> QED BY <1>1, <2>1 DEF IoRecords, IoLike
<1>3. CopySound(r, lost)
  BY DEF CallSound
<1>4. /\ q.op = r.op /\ q.from = r.from /\ q.to = r.to /\ q.segments = r.segments
      /\ q.start = r.start /\ q.id = r.id
  BY <1>2 DEF IoLike
<1>5. r.took \in Nat /\ r.total \in Nat /\ r.total + 0 = r.total
  BY IoFields
<1>6. (r.id \notin lost /\ r.start.from < 0) => q.took = q.total + Len(q.hand)
  BY <1>2, <1>3, <1>5 DEF CopySound
<1>7. CopySound(q, lost)
  BY <1>2, <1>3, <1>4, <1>5, <1>6 DEF CopySound
<1>8. CallSound(q, lost)
  BY <1>2, <1>4, <1>7 DEF CallSound
<1> QED BY <1>1, <1>8

(* A copy that has written its chunk, or is lost, tells the truth.         *)
LEMMA SoundDelivered ==
    ASSUME NEW r \in IoRecords, NEW w \in Nat, NEW lost, NEW more, CallSound(r, lost),
           r.op \in {"sendfile", "copy"}, r.at = "deliver", w <= Len(r.hand), lost \subseteq more,
           (w < Len(r.hand) /\ (r.place.from < 0 \/ r.op = "copy")) => r.id \in more
    PROVE  CallSound(AfterDeliver(r, w), more)
<1>1. PICK z : z = AfterDeliver(r, w)
  OBVIOUS
<1>2. PICK from : from = IF r.place.from >= 0 THEN r.place.from + Advanced(r, w) ELSE -1
  OBVIOUS
<1>3. PICK to : to = IF r.place.to >= 0 THEN r.place.to + w ELSE -1
  OBVIOUS
<1>4. /\ z \in IoRecords /\ IoLike(z, r)
      /\ z.at \in {"run", "returned"} /\ z.whole = r.whole
      /\ z.at = "run" => z.total # Head(r.segments)
      /\ z.left = r.left /\ z.total = r.total + w
      /\ z.gave = r.gave + w /\ z.took = r.took
      /\ z.place.from = from /\ z.place.to = to
  BY <1>1, <1>2, <1>3, AfterDeliverIs
<1>5. /\ z.op = r.op /\ z.from = r.from /\ z.to = r.to /\ z.segments = r.segments
      /\ z.start = r.start /\ z.id = r.id
  BY <1>4 DEF IoLike
<1>6. CopySound(r, lost)
  BY DEF CallSound
<1>7. /\ r.place.from \in Int /\ r.place.to \in Int /\ r.start.from \in Int /\ r.start.to \in Int
      /\ r.total \in Nat /\ r.took \in Nat /\ r.gave \in Nat /\ r.total + 0 = r.total
      /\ Len(r.hand) \in Nat /\ r.segments \in Seq(Nat) /\ z.total + 0 = z.total
  <2>1. /\ r.place.from \in Int /\ r.place.to \in Int /\ r.start.from \in Int /\ r.start.to \in Int
        /\ r.total \in Nat /\ r.took \in Nat /\ r.gave \in Nat
        /\ r.hand \in Seq(IoUnit) /\ r.segments \in Seq(Nat)
    BY IoFields
  <2>2. z.total \in Nat
    BY <1>4, IoFields
  <2>3. Len(r.hand) \in Nat
    BY <2>1, LenProperties
  <2> QED BY <2>1, <2>2, <2>3
<1>8. Head(r.segments) \in Nat
  BY <1>6, <1>7, HeadTailProperties DEF CopySound
<1>9. (r.start.from >= 0 <=> r.place.from >= 0) /\ (r.start.to >= 0 <=> r.place.to >= 0)
  BY DEF CallSound
<1>10. PICK adv \in Nat : /\ adv = Advanced(r, w)
                          /\ r.op = "sendfile" => adv = w
                          /\ r.op # "sendfile" => adv = Len(r.hand)
  BY <1>7 DEF Advanced
<1>21. /\ r.place.from >= 0 => z.place.from = r.place.from + adv
       /\ r.place.from < 0 => z.place.from = -1
       /\ r.place.to >= 0 => z.place.to = r.place.to + w
       /\ r.place.to < 0 => z.place.to = -1
  <2>1. /\ r.place.from >= 0 => from = r.place.from + adv
        /\ r.place.from < 0 => from = -1
    BY <1>2, <1>7, <1>10
  <2>2. /\ r.place.to >= 0 => to = r.place.to + w
        /\ r.place.to < 0 => to = -1
    BY <1>3, <1>7
  <2> QED BY <1>4, <2>1, <2>2
<1>22. /\ r.start.from >= 0 => r.place.from >= 0
       /\ r.start.from < 0 => r.place.from < 0
       /\ r.start.to >= 0 => r.place.to >= 0
       /\ r.start.to < 0 => r.place.to < 0
  BY <1>7, <1>9
<1>11. (z.start.from >= 0 <=> z.place.from >= 0) /\ (z.start.to >= 0 <=> z.place.to >= 0)
  <2>1. z.start.from >= 0 <=> z.place.from >= 0
    BY <1>5, <1>7, <1>10, <1>21, <1>22, SMTT(40)
  <2>2. z.start.to >= 0 <=> z.place.to >= 0
    BY <1>5, <1>7, <1>21, <1>22
  <2> QED BY <2>1, <2>2
<1>12. z.start.to >= 0 => z.place.to - z.start.to = z.total
  BY <1>4, <1>5, <1>6, <1>7, <1>21, <1>22, SMTT(40) DEF CopySound
<1>13. (z.op = "sendfile" /\ z.start.from >= 0) => z.place.from - z.start.from = z.total
  <2>1. (r.op = "sendfile" /\ r.start.from >= 0) => r.place.from - r.start.from = r.total
    BY <1>6 DEF CopySound
  <2> QED BY <2>1, <1>4, <1>5, <1>7, <1>10, <1>21, <1>22, SMTT(40)
<1>14. r.id \notin more => /\ r.id \notin lost
                           /\ (r.place.from < 0 \/ r.op = "copy") => w = Len(r.hand)
  BY <1>7
<1>15. (z.id \notin more /\ z.start.from >= 0) => z.place.from - z.start.from = z.total
  <2>1. (r.id \notin lost /\ r.start.from >= 0) => r.place.from - r.start.from = r.total
    BY <1>6 DEF CopySound
  <2>2. r.op = "sendfile" \/ r.op = "copy"
    OBVIOUS
  <2>3. r.id \notin more => adv = w
    BY <1>10, <1>14, <2>2
  <2> QED BY <2>1, <2>3, <1>4, <1>5, <1>7, <1>14, <1>21, <1>22
<1>16. (z.id \notin more /\ z.start.from < 0) => z.took = z.total
  BY <1>6, <1>4, <1>5, <1>7, <1>14, <1>22 DEF CopySound
<1>17. z.id \notin more => z.gave = z.total
  BY <1>4, <1>5, <1>6, <1>7, <1>14 DEF CopySound
<1>18. z.segments # <<>> /\ z.total <= Head(z.segments)
  BY <1>4, <1>5, <1>6, <1>7, <1>8, SMTT(40) DEF CopySound
<1>19. CopySound(z, more)
  BY <1>4, <1>5, <1>6, <1>7, <1>12, <1>13, <1>15, <1>16, <1>17, <1>18 DEF CopySound
<1>20. CallSound(z, more)
  BY <1>4, <1>5, <1>11, <1>18, <1>19 DEF CallSound
<1> QED BY <1>1, <1>20

(* The call of another thread after a step: as it was, or its size         *)
(* outdated.                                                               *)
IoAlike(q, r) == q = r \/ (r.at = "append" /\ q = [r EXCEPT !.stale = TRUE])

(* A thread is idle or has a call.                                         *)
LEMMA IoCallIs ==
    ASSUME IoTypes, NEW t \in IoThread
    PROVE  /\ ioCall[t] \in IoRecords \/ ioCall[t] = IoIdle
           /\ ioCall[t].at # "idle" => ioCall[t] \in IoRecords
           /\ ioCall[t] \in IoRecords => ioCall[t].at # "idle"
  BY IoFields DEF IoTypes, IoIdle

(* A call another thread has outdated is the same call at the same stage.  *)
LEMMA AlikeIs ==
    ASSUME NEW q, NEW r, r \in IoRecords \/ r = IoIdle, IoAlike(q, r)
    PROVE  /\ q.at = r.at
           /\ r = IoIdle => q = IoIdle
           /\ r \in IoRecords => /\ q \in IoRecords /\ IoLike(q, r) /\ q.place = r.place /\ q.total = r.total
                                 /\ q.first = r.first
                                 /\ q # r => q.stale
  BY StaleIs DEF IoLike, IoIdle, IoAlike

(* The calls of all threads tell the truth after a step of one whose call  *)
(* does.                                                                   *)
LEMMA SoundKept ==
    ASSUME IoTypes, CallsSound, NEW t \in IoThread, broken \subseteq broken',
           \A s \in IoThread \ {t} : IoAlike(ioCall'[s], ioCall[s]),
           ioCall'[t].at # "idle" => CallSound(ioCall'[t], broken')
    PROVE  CallsSound'
<1> SUFFICES ASSUME NEW s \in IoThread, ioCall'[s].at # "idle"
             PROVE  CallSound(ioCall'[s], broken')
  BY DEF CallsSound
<1>1. CASE s = t
  BY <1>1
<1>2. CASE s # t
  <2>1. IoAlike(ioCall'[s], ioCall[s])
    BY <1>2
  <2>2. ioCall[s] \in IoRecords \/ ioCall[s] = IoIdle
    BY IoCallIs
  <2>3. ioCall[s].at # "idle"
    BY <2>1, <2>2, AlikeIs
  <2>4. ioCall[s] \in IoRecords
    BY <2>3, IoCallIs
  <2>5. CallSound(ioCall[s], broken)
    BY <2>3 DEF CallsSound
  <2>6. CallSound(ioCall[s], broken')
    BY <2>4, <2>5, SoundMore
  <2>7. CASE ioCall'[s] = ioCall[s]
    BY <2>6, <2>7
  <2>8. CASE ioCall'[s] = [ioCall[s] EXCEPT !.stale = TRUE]
    BY <2>4, <2>6, SoundStale, <2>8
  <2> QED BY <2>1, <2>7, <2>8 DEF IoAlike
<1> QED BY <1>1, <1>2

(* Calls keep their numbers.                                               *)
LEMMA IdsKept ==
    ASSUME IoTypes, IoIds, NEW t \in IoThread, ioCall[t] \in IoRecords, ioCall'[t].id = ioCall[t].id,
           \A s \in IoThread \ {t} : IoAlike(ioCall'[s], ioCall[s]),
           ioCalls' = ioCalls, \A k \in DOMAIN stream' : stream'[k][1] \in 1..ioCalls
    PROVE  IoIds'
<1>1. \A s \in IoThread : ioCall'[s].at # "idle" => ioCall[s].at # "idle" /\ ioCall'[s].id = ioCall[s].id
  BY IoFields, IoCallIs, AlikeIs DEF IoLike
<1>2. \A s \in IoThread : ioCall'[s].at # "idle" => ioCall'[s].id \in 1..ioCalls'
  BY <1>1 DEF IoIds
<1>3. \A s, u \in IoThread : (s # u /\ ioCall'[s].at # "idle" /\ ioCall'[u].at # "idle")
                                => ioCall'[s].id # ioCall'[u].id
  BY <1>1 DEF IoIds
<1> QED BY <1>2, <1>3 DEF IoIds

(* A new call has a number of its own.                                     *)
LEMMA IdsNew ==
    ASSUME IoTypes, IoIds, NEW t \in IoThread, ioCall'[t].id = ioCalls + 1,
           \A s \in IoThread \ {t} : ioCall'[s] = ioCall[s],
           ioCalls' = ioCalls + 1, stream' = stream
    PROVE  IoIds'
<1>1. ioCalls \in Nat
  BY DEF IoTypes
<1>2. \A s \in IoThread \ {t} : ioCall'[s].at # "idle" =>
        ioCall'[s].id \in 1..ioCalls' /\ ioCall'[s].id # ioCalls + 1
  BY <1>1 DEF IoIds
<1>3. ioCall'[t].id \in 1..ioCalls'
  BY <1>1
<1>4. \A s \in IoThread : ioCall'[s].at # "idle" => ioCall'[s].id \in 1..ioCalls'
  BY <1>2, <1>3
<1>5. \A s, u \in IoThread : (s # u /\ ioCall'[s].at # "idle" /\ ioCall'[u].at # "idle")
                                => ioCall'[s].id # ioCall'[u].id
  BY <1>2 DEF IoIds
<1>6. \A k \in DOMAIN stream' : stream'[k][1] \in 1..ioCalls'
  BY <1>1 DEF IoIds
<1> QED BY <1>4, <1>5, <1>6 DEF IoIds

(* What the calls of the other threads hold stays theirs.                  *)
LEMMA HeldKept ==
    ASSUME IoTypes, CallsSound, CallsHeld, NEW t \in IoThread,
           \A s \in IoThread \ {t} : IoAlike(ioCall'[s], ioCall[s]),
           \A o \in IoFile : ioLock[o] \in IoThread \ {t} =>
              ioLock'[o] = ioLock[o] /\ position'[o] = position[o],
           \A s \in IoThread \ {t} : (ioCall[s].at = "append" /\ ~ ioCall'[s].stale) =>
              \A p \in DOMAIN appended' \ overrun' : p \in DOMAIN appended \ overrun,
           ReadHeld(t, ioCall[t])' /\ AppendHeld(t, ioCall[t])'
    PROVE  CallsHeld'
<1> SUFFICES ASSUME NEW s \in IoThread
             PROVE  ReadHeld(s, ioCall[s])' /\ AppendHeld(s, ioCall[s])'
  BY DEF CallsHeld
<1>1. CASE s = t
  BY <1>1
<1>2. CASE s # t
  <2>1. IoAlike(ioCall'[s], ioCall[s])
    BY <1>2
  <2>2. ioCall[s] \in IoRecords \/ ioCall[s] = IoIdle
    BY IoCallIs
  <2>3. ioCall'[s].at = ioCall[s].at
    BY <2>1, <2>2, AlikeIs
  <2>4. CASE ioCall[s] = IoIdle
    BY <2>3, <2>4 DEF IoIdle, ReadHeld, AppendHeld
  <2>5. CASE ioCall[s] \in IoRecords
    <3>1. /\ IoLike(ioCall'[s], ioCall[s]) /\ ioCall'[s].place = ioCall[s].place
          /\ ioCall'[s].total = ioCall[s].total /\ ioCall'[s].first = ioCall[s].first
          /\ ioCall'[s] # ioCall[s] => ioCall'[s].stale
      BY <2>1, <2>2, <2>5, AlikeIs
    <3>2. ioCall'[s].op = ioCall[s].op /\ ioCall'[s].from = ioCall[s].from /\ ioCall'[s].to = ioCall[s].to
      BY <3>1 DEF IoLike
    <3>3. ReadHeld(s, ioCall[s]) /\ AppendHeld(s, ioCall[s])
      BY DEF CallsHeld
    <3>4. ReadHeld(s, ioCall[s])'
      BY <1>2, <2>3, <3>1, <3>2, <3>3 DEF ReadHeld
    <3>5. AppendHeld(s, ioCall[s])'
      <4> SUFFICES ASSUME ioCall'[s].at = "append"
                   PROVE  /\ ioLock'[ioCall'[s].to] = s
                          /\ ~ ioCall'[s].stale => \A p \in DOMAIN appended' \ overrun' : p < position'[ioCall'[s].to]
        BY DEF AppendHeld
      <4>1. ioCall[s].at = "append" /\ ioLock[ioCall[s].to] = s
        BY <2>3, <3>3 DEF AppendHeld
      <4>2. ioCall[s].to \in IoFile
        BY <4>1, <2>5, IoFields DEF CallsSound, CallSound, ReadSound, WriteSound, CopySound
      <4>3. ioLock'[ioCall[s].to] = s /\ position'[ioCall[s].to] = position[ioCall[s].to]
        BY <1>2, <4>1, <4>2
      <4>4. ASSUME ~ ioCall'[s].stale, NEW p \in DOMAIN appended' \ overrun'
            PROVE  p < position'[ioCall'[s].to]
        BY <1>2, <4>1, <4>4, <3>1, <3>3, <3>2, <4>3 DEF AppendHeld
      <4> QED BY <3>2, <4>3, <4>4
    <3> QED BY <3>4, <3>5
  <2> QED BY <2>2, <2>4, <2>5
<1> QED BY <1>1, <1>2

(* The units of a call in a channel, one after the other from the first.   *)
OrderedFor(s, id) ==
    \A k \in DOMAIN s : s[k][1] = id =>
      /\ s[k][2] = 1 \/ \E j \in 1..(k - 1) : s[j] = <<id, s[k][2] - 1>>
      /\ \A j \in 1..(k - 1) : s[j][1] = id => s[j][2] < s[k][2]

(* n units of a call, numbered after b.                                    *)
OwnFrom(id, b, n) == [i \in 1..n |-> <<id, b + i>>]
(* The units of a call in a channel go up to n.                            *)
UpTo(s, id, n) ==
    /\ \A k \in DOMAIN s : s[k][1] = id => s[k][2] <= n
    /\ n > 0 => \E k \in DOMAIN s : s[k] = <<id, n>>

(* g is s and n units of a call behind it.                                 *)
GrownBy(g, s, id, b, n) ==
    /\ g \in Seq(IoUnit) /\ Len(g) = Len(s) + n
    /\ DOMAIN g = 1..(Len(s) + n) /\ DOMAIN s = 1..Len(s) /\ Len(s) \in Nat
    /\ \A k \in 1..Len(s) : g[k] = s[k]
    /\ \A k \in (Len(s) + 1)..(Len(s) + n) : g[k] = <<id, b + (k - Len(s))>>

(* The channel after n units of a call: what was there, and then them.     *)
LEMMA GrownIs ==
    ASSUME NEW s \in Seq(IoUnit), NEW id \in Int, NEW b \in Int, NEW n \in Nat, NEW g,
           g = s \o OwnFrom(id, b, n)
    PROVE  GrownBy(g, s, id, b, n)
<1> DEFINE u == OwnFrom(id, b, n)
<1>1. u \in Seq(IoUnit) /\ Len(u) = n
  BY DEF OwnFrom, IoUnit
<1>2. \A i \in 1..n : u[i] = <<id, b + i>>
  BY DEF OwnFrom
<1> HIDE DEF u
<1>3. /\ s \o u \in Seq(IoUnit) /\ Len(s \o u) = Len(s) + Len(u)
      /\ \A i \in 1..(Len(s) + Len(u)) : (s \o u)[i] = IF i <= Len(s) THEN s[i] ELSE u[i - Len(s)]
  BY <1>1, ConcatProperties
<1>4. Len(s) \in Nat /\ DOMAIN s = 1..Len(s)
  BY LenProperties
<1>5. DOMAIN (s \o u) = 1..(Len(s) + n)
  BY <1>1, <1>3, LenProperties
<1>6. \A k \in 1..Len(s) : (s \o u)[k] = s[k]
  BY <1>1, <1>3, <1>4
<1>7. ASSUME NEW k \in (Len(s) + 1)..(Len(s) + n) PROVE (s \o u)[k] = <<id, b + (k - Len(s))>>
  BY <1>1, <1>4, <1>3, <1>2
<1> QED BY <1>1, <1>3, <1>4, <1>5, <1>6, <1>7 DEF u, GrownBy

(* A call that goes on where it stopped keeps its units in order.          *)
LEMMA GrownOrder ==
    ASSUME NEW s \in Seq(IoUnit), NEW id \in Int, NEW b \in Nat, NEW n \in Nat,
           NEW g, g = s \o OwnFrom(id, b, n), OrderedFor(s, id), UpTo(s, id, b)
    PROVE  OrderedFor(g, id) /\ UpTo(g, id, b + n)
<1>2. /\ g \in Seq(IoUnit) /\ Len(g) = Len(s) + n
      /\ DOMAIN g = 1..(Len(s) + n) /\ DOMAIN s = 1..Len(s) /\ Len(s) \in Nat
      /\ \A k \in 1..Len(s) : g[k] = s[k]
      /\ \A k \in (Len(s) + 1)..(Len(s) + n) : g[k] = <<id, b + (k - Len(s))>>
  <2>1. b \in Int
    OBVIOUS
  <2>2. GrownBy(g, s, id, b, n)
    BY <2>1, GrownIs, Zenon
  <2> QED BY <2>2 DEF GrownBy
<1>3. ASSUME NEW k \in DOMAIN g, g[k][1] = id
      PROVE  /\ g[k][2] = 1 \/ \E j \in 1..(k - 1) : g[j] = <<id, g[k][2] - 1>>
             /\ \A j \in 1..(k - 1) : g[j][1] = id => g[j][2] < g[k][2]
  <2>0. k \in 1..(Len(s) + n)
    BY <1>2
  <2>1. CASE k <= Len(s)
    <3>3. k \in 1..Len(s) /\ \A j \in 1..(k - 1) : j \in 1..Len(s)
      BY <1>2, <2>0, <2>1
    <3>1. k \in DOMAIN s /\ g[k] = s[k] /\ \A j \in 1..(k - 1) : g[j] = s[j] /\ j \in 1..Len(s)
      BY <1>2, <3>3
    <3>2. /\ s[k][2] = 1 \/ \E j \in 1..(k - 1) : s[j] = <<id, s[k][2] - 1>>
          /\ \A j \in 1..(k - 1) : s[j][1] = id => s[j][2] < s[k][2]
      BY <1>3, <3>1 DEF OrderedFor
    <3> QED BY <3>1, <3>2
  <2>2. CASE k > Len(s)
    <3>1. PICK i : i = k - Len(s)
      OBVIOUS
    <3>2. i \in 1..n /\ k = Len(s) + i
      BY <1>2, <2>0, <2>2, <3>1
    <3>3. g[k] = <<id, b + i>>
      <4>1. k \in (Len(s) + 1)..(Len(s) + n)
        BY <1>2, <2>0, <2>2
      <4>2. g[k] = <<id, b + (k - Len(s))>>
        BY <1>2, <4>1
      <4> QED BY <3>1, <4>2
    <3>4. g[k][2] = b + i
      BY <3>3
    <3>5. CASE i = 1 /\ b = 0
      <4>1. g[k][2] = 1
        BY <3>4, <3>5
      <4>2. ASSUME NEW j \in 1..(k - 1), g[j][1] = id PROVE g[j][2] < g[k][2]
        <5>1. j \in DOMAIN s /\ g[j] = s[j]
          BY <1>2, <3>2, <3>5
        <5>2. s[j][2] <= 0
          BY <5>1, <4>2, <3>5 DEF UpTo
        <5>3. s[j] \in Int \X Int
          BY <5>1 DEF IoUnit
        <5> QED BY <5>1, <5>2, <5>3, <4>1
      <4> QED BY <4>1, <4>2
    <3>6. CASE i = 1 /\ b > 0
      <4>1. PICK j \in DOMAIN s : s[j] = <<id, b>>
        BY <3>6 DEF UpTo
      <4>2. j \in 1..(k - 1) /\ g[j] = <<id, b>> /\ g[k][2] - 1 = b
        BY <1>2, <3>2, <3>4, <3>6, <4>1
      <4>3. ASSUME NEW m \in 1..(k - 1), g[m][1] = id PROVE g[m][2] < g[k][2]
        <5>1. m \in DOMAIN s /\ g[m] = s[m]
          BY <1>2, <3>2, <3>6
        <5>2. s[m][2] <= b
          BY <5>1, <4>3 DEF UpTo
        <5>3. s[m] \in Int \X Int
          BY <5>1 DEF IoUnit
        <5> QED BY <5>1, <5>2, <5>3, <3>4, <3>6
      <4>4. \E m \in 1..(k - 1) : g[m] = <<id, g[k][2] - 1>>
        BY <4>2
      <4> QED BY <4>3, <4>4
    <3>7. CASE i > 1
      <4>1. k - 1 \in 1..(k - 1) /\ k - 1 \in (Len(s) + 1)..(Len(s) + n)
        BY <1>2, <3>2, <3>7
      <4>2. g[k - 1] = <<id, b + (k - 1 - Len(s))>>
        BY <1>2, <4>1
      <4>3. b + (k - 1 - Len(s)) = g[k][2] - 1
        BY <1>2, <3>2, <3>4, <4>1
      <4>4. \E m \in 1..(k - 1) : g[m] = <<id, g[k][2] - 1>>
        BY <4>1, <4>2, <4>3
      <4>5. ASSUME NEW m \in 1..(k - 1), g[m][1] = id PROVE g[m][2] < g[k][2]
        <5>1. CASE m <= Len(s)
          <6>1. m \in DOMAIN s /\ g[m] = s[m]
            BY <1>2, <5>1
          <6>2. s[m][2] <= b
            BY <6>1, <4>5 DEF UpTo
          <6>3. s[m] \in Int \X Int
            BY <6>1 DEF IoUnit
          <6> QED BY <6>1, <6>2, <6>3, <3>4, <3>7, <3>2
        <5>2. CASE m > Len(s)
          <6>1. g[m] = <<id, b + (m - Len(s))>> /\ m - Len(s) < i /\ m - Len(s) \in Nat
            <7>1. m \in (Len(s) + 1)..(Len(s) + n) /\ m - Len(s) < i /\ m - Len(s) \in Nat
              BY <1>2, <3>2, <5>2
            <7> QED BY <1>2, <7>1
          <6>2. g[m][2] = b + (m - Len(s))
            BY <6>1
          <6> QED BY <6>1, <6>2, <3>2, <3>4
        <5>3. m <= Len(s) \/ m > Len(s)
          BY <1>2
        <5> QED BY <5>1, <5>2, <5>3
      <4> QED BY <4>4, <4>5, Zenon
    <3>8. (i = 1 /\ b = 0) \/ (i = 1 /\ b > 0) \/ i > 1
      BY <3>2
    <3> QED BY <3>5, <3>6, <3>7, <3>8, Zenon
  <2>3. k <= Len(s) \/ k > Len(s)
    BY <1>2, <2>0
  <2> QED BY <2>1, <2>2, <2>3, Zenon
<1>4. OrderedFor(g, id)
  BY <1>3 DEF OrderedFor
<1>5. ASSUME NEW k \in DOMAIN g, g[k][1] = id PROVE g[k][2] <= b + n
  <2>0. k \in 1..(Len(s) + n)
    BY <1>2
  <2>1. CASE k <= Len(s)
    BY <1>2, <2>0, <2>1, <1>5 DEF UpTo, IoUnit
  <2>2. CASE k > Len(s)
    <3>1. g[k] = <<id, b + (k - Len(s))>>
      <4>1. k \in (Len(s) + 1)..(Len(s) + n)
        BY <1>2, <2>0, <2>2
      <4> QED BY <1>2, <4>1
    <3>2. g[k][2] = b + (k - Len(s))
      BY <3>1
    <3> QED BY <3>2, <1>2, <2>0
  <2> QED BY <1>2, <2>0, <2>1, <2>2
<1>6. b + n > 0 => \E k \in DOMAIN g : g[k] = <<id, b + n>>
  <2>1. CASE n = 0
    BY <1>2, <2>1 DEF UpTo
  <2>2. CASE n > 0
    <3>1. Len(s) + n \in (Len(s) + 1)..(Len(s) + n) /\ Len(s) + n \in DOMAIN g /\ Len(s) + n - Len(s) = n
      BY <1>2, <2>2
    <3>2. PICK k : k = Len(s) + n
      OBVIOUS
    <3>3. k \in (Len(s) + 1)..(Len(s) + n) /\ k \in DOMAIN g /\ k - Len(s) = n
      BY <3>1, <3>2
    <3>4. g[k] = <<id, b + (k - Len(s))>>
      BY <1>2, <3>3
    <3>5. g[k] = <<id, b + n>>
      BY <3>3, <3>4
    <3> QED BY <3>3, <3>5
  <2>3. n = 0 \/ n > 0
    OBVIOUS
  <2> QED BY <2>1, <2>2, <2>3
<1>7. UpTo(g, id, b + n)
  BY <1>5, <1>6 DEF UpTo
<1> QED BY <1>4, <1>7

(* A call stands in g as it does in s.                                     *)
AsBefore(g, s, other) ==
    /\ OrderedFor(s, other) => OrderedFor(g, other)
    /\ \A m \in Nat : UpTo(s, other, m) => UpTo(g, other, m)

(* The units of one call leave those of the others in order.               *)
LEMMA GrownOther ==
    ASSUME NEW s \in Seq(IoUnit), NEW id \in Int, NEW b \in Int, NEW n \in Nat, NEW other \in Int,
           other # id, NEW g, g = s \o OwnFrom(id, b, n)
    PROVE  AsBefore(g, s, other)
<1>2. /\ g \in Seq(IoUnit) /\ Len(g) = Len(s) + n
      /\ DOMAIN g = 1..(Len(s) + n) /\ DOMAIN s = 1..Len(s) /\ Len(s) \in Nat
      /\ \A k \in 1..Len(s) : g[k] = s[k]
      /\ \A k \in (Len(s) + 1)..(Len(s) + n) : g[k] = <<id, b + (k - Len(s))>>
  <2>1. b \in Int
    OBVIOUS
  <2>2. GrownBy(g, s, id, b, n)
    BY <2>1, GrownIs, Zenon
  <2> QED BY <2>2 DEF GrownBy
<1>3. \A k \in DOMAIN g : g[k][1] = other => k \in DOMAIN s /\ g[k] = s[k]
  <2> SUFFICES ASSUME NEW k \in DOMAIN g, g[k][1] = other PROVE k \in DOMAIN s /\ g[k] = s[k]
    OBVIOUS
  <2>1. k \in 1..(Len(s) + n)
    BY <1>2
  <2>2. CASE k > Len(s)
    <3>1. g[k] = <<id, b + (k - Len(s))>>
      <4>1. k \in (Len(s) + 1)..(Len(s) + n)
        BY <1>2, <2>1, <2>2
      <4> QED BY <1>2, <4>1
    <3> QED BY <3>1
  <2>3. CASE k <= Len(s)
    BY <1>2, <2>1, <2>3
  <2> QED BY <1>2, <2>1, <2>2, <2>3
<1>4. ASSUME OrderedFor(s, other), NEW k \in DOMAIN g, g[k][1] = other
      PROVE  /\ g[k][2] = 1 \/ \E j \in 1..(k - 1) : g[j] = <<other, g[k][2] - 1>>
             /\ \A j \in 1..(k - 1) : g[j][1] = other => g[j][2] < g[k][2]
  <2>1. k \in DOMAIN s /\ g[k] = s[k]
    BY <1>3, <1>4
  <2>2. \A j \in 1..(k - 1) : g[j] = s[j]
    BY <1>2, <2>1
  <2>3. /\ s[k][2] = 1 \/ \E j \in 1..(k - 1) : s[j] = <<other, s[k][2] - 1>>
        /\ \A j \in 1..(k - 1) : s[j][1] = other => s[j][2] < s[k][2]
    BY <1>4, <2>1 DEF OrderedFor
  <2> QED BY <2>1, <2>2, <2>3
<1>5. OrderedFor(s, other) => OrderedFor(g, other)
  BY <1>4 DEF OrderedFor
<1>6. ASSUME NEW m \in Nat, UpTo(s, other, m) PROVE UpTo(g, other, m)
  <2>1. \A k \in DOMAIN g : g[k][1] = other => g[k][2] <= m
    BY <1>3, <1>6 DEF UpTo
  <2>2. \A k \in DOMAIN s : k \in DOMAIN g /\ g[k] = s[k]
    BY <1>2
  <2>3. m > 0 => \E k \in DOMAIN g : g[k] = <<other, m>>
    BY <1>6, <2>2 DEF UpTo
  <2> QED BY <2>1, <2>3 DEF UpTo
<1> QED BY <1>5, <1>6 DEF AsBefore

(* The channel stays in order where nothing is put into it.                *)
LEMMA StreamSame ==
    ASSUME IoTypes, IoIds, StreamSound, NEW t \in IoThread, stream' = stream, broken \subseteq broken',
           ioCalls' \in {ioCalls, ioCalls + 1},
           \A s \in IoThread \ {t} : IoAlike(ioCall'[s], ioCall[s]),
           StreamFor(ioCall[t])'
    PROVE  StreamSound'
<1>1. StreamInOrder'
  <2> SUFFICES ASSUME NEW id \in (1..ioCalls') \ broken'
               PROVE  OrderedFor(stream, id)
    BY DEF StreamInOrder, OrderedFor
  <2>1. ioCalls \in Nat
    BY DEF IoTypes
  <2>2. CASE id \in 1..ioCalls
    BY <2>2 DEF StreamSound, StreamInOrder, OrderedFor
  <2>3. CASE id \notin 1..ioCalls
    BY <2>3 DEF IoIds, OrderedFor
  <2> QED BY <2>2, <2>3
<1>2. ASSUME NEW s \in IoThread PROVE StreamFor(ioCall[s])'
  <2>1. CASE s = t
    BY <2>1
  <2>2. CASE s # t
    BY <2>2, IoCallIs, AlikeIs DEF IoIdle, StreamFor, StreamSound, IoLike
  <2> QED BY <2>1, <2>2
<1> QED BY <1>1, <1>2 DEF StreamSound

(* A call that puts nothing into the channel and keeps its count, or is    *)
(* lost, stands where it stood.                                            *)
LEMMA StreamForSame ==
    ASSUME StreamSound, NEW t \in IoThread, ioCall[t].at # "idle", stream' = stream,
           broken \subseteq broken',
           IoLike(ioCall'[t], ioCall[t]),
           (ioCall[t].to = "channel" /\ ioCall[t].id \notin broken') => ioCall'[t].total = ioCall[t].total
    PROVE  StreamFor(ioCall[t])'
  BY DEF StreamSound, IoLike, StreamFor, UpTo

(* The channel stays in order where a call goes on where it stopped.       *)
LEMMA StreamGrows ==
    ASSUME IoTypes, IoIds, StreamSound, NEW t \in IoThread, ioCall[t] \in IoRecords,
           NEW b \in Int, NEW n \in Nat,
           stream' = stream \o OwnFrom(ioCall[t].id, b, n),
           broken \subseteq broken', ioCalls' = ioCalls,
           ioCall[t].to = "channel",
           ioCall[t].id \notin broken' => (b = ioCall[t].total /\ ioCall'[t].total = ioCall[t].total + n),
           \A s \in IoThread \ {t} : ioCall'[s] = ioCall[s],
           IoLike(ioCall'[t], ioCall[t])
    PROVE  /\ StreamSound'
           /\ \A k \in DOMAIN stream' : stream'[k][1] \in 1..ioCalls
           /\ stream' \in Seq(IoUnit) /\ Len(stream') = Len(stream) + n
<1>1. PICK g : g = stream'
  OBVIOUS
<1>2. PICK r : r = ioCall[t]
  OBVIOUS
<1>3. /\ r \in IoRecords /\ g = stream \o OwnFrom(r.id, b, n) /\ r.id \in Nat /\ r.id \in Int /\ r.total \in Nat
      /\ r.at # "idle" /\ stream \in Seq(IoUnit)
  BY <1>1, <1>2, IoFields DEF IoTypes
<1>4. GrownBy(g, stream, r.id, b, n)
  BY <1>3, GrownIs, Zenon
<1>5. r.id \in 1..ioCalls
  BY <1>2, <1>3 DEF IoIds
<1>6. \A k \in DOMAIN g : g[k][1] \in 1..ioCalls
  BY <1>4, <1>5 DEF GrownBy, IoIds
<1>7. StreamInOrder'
  <2> SUFFICES ASSUME NEW id \in (1..ioCalls) \ broken'
               PROVE  OrderedFor(g, id)
    <3>1. ASSUME \A id \in (1..ioCalls) \ broken' : OrderedFor(g, id) PROVE StreamInOrder'
      <4>1. \A id \in (1..ioCalls') \ broken' : OrderedFor(stream', id)
        BY <1>1, <3>1
      <4> QED BY <4>1 DEF StreamInOrder, OrderedFor
    <3> QED BY <3>1
  <2>1. OrderedFor(stream, id)
    BY DEF StreamSound, StreamInOrder, OrderedFor
  <2>2. CASE id = r.id
    <3>1. b = r.total
      BY <1>2, <2>2
    <3>2. StreamFor(r)
      BY <1>2 DEF StreamSound
    <3>3. UpTo(stream, r.id, r.total)
      BY <1>2, <1>3, <2>2, <3>2 DEF StreamFor, UpTo
    <3>4. OrderedFor(g, r.id) /\ UpTo(g, r.id, r.total + n)
      <4>1. g = stream \o OwnFrom(r.id, r.total, n) /\ OrderedFor(stream, r.id)
        BY <1>3, <2>1, <2>2, <3>1
      <4> QED BY <1>3, <3>3, <4>1, GrownOrder, Zenon
    <3> QED BY <2>2, <3>4
  <2>3. CASE id # r.id
    <3>1. id \in Int
      OBVIOUS
    <3>2. AsBefore(g, stream, id)
      BY <1>3, <2>3, <3>1, GrownOther, Zenon
    <3> QED BY <2>1, <3>2 DEF AsBefore
  <2> QED BY <2>2, <2>3
<1>8. ASSUME NEW s \in IoThread PROVE StreamFor(ioCall[s])'
  <2>1. SUFFICES ASSUME ioCall'[s].at # "idle", ioCall'[s].to = "channel", ioCall'[s].id \notin broken'
                 PROVE  UpTo(g, ioCall'[s].id, ioCall'[s].total)
    BY <1>1 DEF StreamFor, UpTo
  <2>2. CASE s = t
    <3>1. r.id = ioCall'[t].id /\ r.id \notin broken' /\ r.id \notin broken
      BY <1>2, <2>1, <2>2 DEF IoLike
    <3>2. b = r.total /\ ioCall'[t].total = r.total + n
      BY <1>2, <3>1
    <3>3. StreamFor(r)
      BY <1>2 DEF StreamSound
    <3>4. UpTo(stream, r.id, r.total)
      BY <1>2, <1>3, <3>1, <3>3 DEF StreamFor, UpTo
    <3>5. OrderedFor(stream, r.id)
      BY <1>5, <3>1 DEF StreamSound, StreamInOrder, OrderedFor
    <3>6. OrderedFor(g, r.id) /\ UpTo(g, r.id, r.total + n)
      <4>1. g = stream \o OwnFrom(r.id, r.total, n)
        BY <1>3, <3>2
      <4> QED BY <1>3, <3>4, <3>5, <4>1, GrownOrder, Zenon
    <3> QED BY <2>2, <3>1, <3>2, <3>6
  <2>3. CASE s # t
    <3>1. PICK c : c = ioCall[s]
      OBVIOUS
    <3>2. ioCall'[s] = c
      BY <2>3, <3>1
    <3>3. c \in IoRecords
      BY <2>1, <3>1, <3>2, IoCallIs
    <3>4. c.id # r.id /\ c.id \in Int /\ c.total \in Nat
      BY <1>2, <1>3, <2>1, <2>3, <3>1, <3>2, <3>3, IoFields DEF IoIds
    <3>5. StreamFor(c)
      BY <3>1 DEF StreamSound
    <3>6. UpTo(stream, c.id, c.total)
      BY <2>1, <3>2, <3>5 DEF StreamFor, UpTo
    <3>7. AsBefore(g, stream, c.id)
      BY <1>3, <3>4, GrownOther, Zenon
    <3> QED BY <3>2, <3>4, <3>6, <3>7 DEF AsBefore
  <2> QED BY <2>2, <2>3
<1>9. stream' \in Seq(IoUnit) /\ Len(stream') = Len(stream) + n
  BY <1>1, <1>4 DEF GrownBy
<1> QED BY <1>1, <1>6, <1>7, <1>8, <1>9 DEF StreamSound

(* The file after a write: the units where they were put, and elsewhere    *)
(* what was there.                                                         *)
LEMMA OverwrittenIs ==
    ASSUME content \in Seq(IoUnit), NEW place \in Nat, NEW units \in Seq(IoUnit)
    PROVE  /\ Overwritten(place, units) \in Seq(IoUnit)
           /\ Len(Overwritten(place, units)) \in Nat /\ Len(content) \in Nat /\ Len(units) \in Nat
           /\ Len(Overwritten(place, units)) >= Len(content)
           /\ Len(Overwritten(place, units)) >= place + Len(units)
           /\ \A p \in 0..(Len(content) - 1) : p \notin Spoilt(place, Len(units)) =>
                Overwritten(place, units)[p + 1] = content[p + 1]
           /\ \A p \in Spoilt(place, Len(units)) : Overwritten(place, units)[p + 1] = units[p - place + 1]
<1>1. Len(content) \in Nat /\ Len(units) \in Nat /\ DOMAIN units = 1..Len(units) /\ DOMAIN content = 1..Len(content)
  BY LenProperties
<1>2. PICK m : m = IF place + Len(units) > Len(content) THEN place + Len(units) ELSE Len(content)
  OBVIOUS
<1>3. m \in Nat /\ m >= Len(content) /\ m >= place + Len(units)
  <2>4. PICK a : a = Len(content)
    OBVIOUS
  <2>5. PICK b : b = place + Len(units)
    OBVIOUS
  <2>1. a \in Nat /\ b \in Nat /\ a = Len(content) /\ b = place + Len(units)
    BY <1>1, <2>4, <2>5
  <2>2. m = IF b > a THEN b ELSE a
    BY <1>2, <2>1
  <2>3. m \in Nat /\ m >= a /\ m >= b
    BY <2>1, <2>2
  <2> QED BY <2>1, <2>3
<1> DEFINE f == [i \in 1..m |-> IF i \in (place + 1)..(place + Len(units)) THEN units[i - place]
                                ELSE IF i <= Len(content) THEN content[i] ELSE IoHole]
<1>4. Overwritten(place, units) = f
  BY <1>2 DEF Overwritten
<1>5. ASSUME NEW i \in 1..m PROVE f[i] \in IoUnit
  BY <1>1 DEF IoHole, IoUnit
<1>6. f \in [1..m -> IoUnit]
  BY <1>5
<1>7. f \in Seq(IoUnit) /\ Len(f) = m
  <2> HIDE DEF f
  <2> QED BY <1>3, <1>6
<1>8. ASSUME NEW p \in 0..(Len(content) - 1), p \notin Spoilt(place, Len(units))
      PROVE  f[p + 1] = content[p + 1]
  BY <1>1, <1>3, <1>8 DEF Spoilt
<1>9. ASSUME NEW p \in Spoilt(place, Len(units)) PROVE f[p + 1] = units[p - place + 1]
  <2>1. PICK k, i : k = p + 1 /\ i = p - place + 1
    OBVIOUS
  <2>2. k \in 1..m /\ k \in (place + 1)..(place + Len(units)) /\ k - place = i
    BY <1>1, <1>3, <2>1 DEF Spoilt
  <2>3. f[k] = units[i]
    BY <2>2
  <2> HIDE DEF f
  <2> QED BY <2>1, <2>3
<1> HIDE DEF f
<1> QED BY <1>1, <1>3, <1>4, <1>7, <1>8, <1>9

(* What was appended stays, but where a call with a place of its own       *)
(* wrote.                                                                  *)
LEMMA PlacedForgotten ==
    ASSUME content \in Seq(IoUnit), AppendsPlaced, NEW place \in Nat, NEW units \in Seq(IoUnit),
           content' = Overwritten(place, units), ForgetAppended(Spoilt(place, Len(units))),
           overrun' = overrun
    PROVE  /\ AppendsPlaced' /\ content' \in Seq(IoUnit)
           /\ \A p \in DOMAIN appended' \ overrun' : p \in DOMAIN appended \ overrun
  BY OverwrittenIs DEF ForgetAppended, AppendsPlaced, AppendsKept

(* An append with the size of the file writes behind what was appended.    *)
LEMMA PlacedAppended ==
    ASSUME content \in Seq(IoUnit), AppendsPlaced, NEW place \in Nat, NEW units \in Seq(IoUnit),
           NEW stale \in BOOLEAN,
           content' = Overwritten(place, units),
           appended' = [p \in DOMAIN appended \cup Spoilt(place, Len(units)) |->
                          IF p \in DOMAIN appended THEN appended[p] ELSE units[p - place + 1]],
           overrun' = IF stale THEN overrun \cup Spoilt(place, Len(units)) ELSE overrun,
           ~ stale => \A p \in DOMAIN appended \ overrun : p < place
    PROVE  AppendsPlaced' /\ content' \in Seq(IoUnit)
<1>1. /\ content' \in Seq(IoUnit) /\ Len(content') \in Nat /\ Len(content) \in Nat /\ Len(units) \in Nat
      /\ Len(content') >= Len(content) /\ Len(content') >= place + Len(units)
      /\ \A p \in 0..(Len(content) - 1) : p \notin Spoilt(place, Len(units)) => content'[p + 1] = content[p + 1]
      /\ \A p \in Spoilt(place, Len(units)) : content'[p + 1] = units[p - place + 1]
  BY OverwrittenIs
<1>2. /\ DOMAIN appended' = DOMAIN appended \cup Spoilt(place, Len(units))
      /\ \A p \in DOMAIN appended : appended'[p] = appended[p]
      /\ \A p \in Spoilt(place, Len(units)) \ DOMAIN appended : appended'[p] = units[p - place + 1]
  OBVIOUS
<1>3. \A p \in Spoilt(place, Len(units)) : p \in 0..(Len(content') - 1) /\ p >= place
  BY <1>1 DEF Spoilt
<1>4. \A p \in DOMAIN appended : p \in 0..(Len(content') - 1) /\ p \in 0..(Len(content) - 1)
  BY <1>1 DEF AppendsPlaced
<1>5. DOMAIN appended' \subseteq 0..(Len(content') - 1)
  BY <1>2, <1>3, <1>4
<1>6. ASSUME NEW p \in DOMAIN appended' \ overrun' PROVE content'[p + 1] = appended'[p]
  <2>1. p \notin overrun
    OBVIOUS
  <2>2. CASE p \in DOMAIN appended
    <3>1. p \notin Spoilt(place, Len(units))
      BY <2>1, <2>2, <1>4, <1>3
    <3>2. content[p + 1] = appended[p]
      BY <2>1, <2>2 DEF AppendsPlaced, AppendsKept
    <3> QED BY <1>1, <1>2, <1>4, <2>2, <3>1, <3>2
  <2>3. CASE p \notin DOMAIN appended
    BY <1>2, <2>3, <1>1
  <2> QED BY <2>2, <2>3
<1>7. AppendsPlaced'
  BY <1>5, <1>6 DEF AppendsPlaced, AppendsKept
<1> QED BY <1>1, <1>7

(* A step of one call leaves the calls of the others.                      *)
LEMMA IoGoIs ==
    ASSUME IoTypes, NEW t \in IoThread, NEW q \in IoRecords, IoGo(t, q)
    PROVE  /\ ioCall' \in [IoThread -> IoRecords \cup {IoIdle}] /\ ioCall'[t] = q
           /\ \A s \in IoThread \ {t} : ioCall'[s] = ioCall[s]
           /\ \A s \in IoThread \ {t} : IoAlike(ioCall'[s], ioCall[s])
  BY DEF IoGo, IoTypes, IoAlike

(* A call that has just begun.                                             *)
IsNewCall(q, op, from, to, vec, place, n) ==
    /\ q \in IoRecords
    /\ q.at = "run" /\ q.op = op /\ q.from = from /\ q.to = to /\ q.segments = vec
    /\ q.left = vec /\ q.start = place /\ q.place = place /\ q.first = -1 /\ q.whole
    /\ q.total = 0 /\ q.took = 0 /\ q.gave = 0 /\ q.id = n

(* The fields of a new call.                                               *)
LEMMA NewCallIs ==
    ASSUME NEW op \in {"read", "write", "sendfile", "copy"}, ioCalls \in Nat,
           NEW from \in IoFile \cup {"channel", "user"}, NEW to \in IoFile \cup {"channel", "user"},
           NEW vec \in Seq(Nat), NEW place \in IoPlaces, NEW q,
           q = NewCall(op, from, to, vec, place)
    PROVE  IsNewCall(q, op, from, to, vec, place, ioCalls + 1)
  BY DEF NewCall, IoRecords, IsNewCall

(* A new call has nothing to tell.                                         *)
LEMMA NewCallSound ==
    ASSUME NEW op \in {"read", "write", "sendfile", "copy"}, ioCalls \in Nat,
           NEW from \in IoFile \cup {"channel", "user"}, NEW to \in IoFile \cup {"channel", "user"},
           NEW vec \in Seq(Nat), NEW place \in IoPlaces, vec # <<>>, NEW lost,
           op = "read" => /\ to = "user" /\ place.to < 0 /\ from \in IoFile \cup {"channel"}
                          /\ place.from >= 0 => from \in IoFile,
           op = "write" => /\ from = "user" /\ place.from < 0 /\ to \in IoFile \cup {"channel"}
                           /\ place.to >= 0 => to \in IoFile,
           op \in {"sendfile", "copy"} => from \in IoFile /\ to \in IoFile \cup {"channel"}
    PROVE  CallSound(NewCall(op, from, to, vec, place), lost)
<1>1. PICK q : q = NewCall(op, from, to, vec, place)
  OBVIOUS
<1>2. /\ q \in IoRecords
      /\ q.at = "run" /\ q.op = op /\ q.from = from /\ q.to = to /\ q.segments = vec
      /\ q.left = vec /\ q.start = place /\ q.place = place /\ q.first = -1 /\ q.whole
      /\ q.total = 0 /\ q.took = 0 /\ q.gave = 0 /\ q.id = ioCalls + 1
  <2>1. IsNewCall(q, op, from, to, vec, place, ioCalls + 1)
    BY <1>1, NewCallIs, Zenon
  <2> QED BY <2>1 DEF IsNewCall
<1>3. place.from \in Int /\ place.to \in Int /\ place.from - place.from = 0 /\ place.to - place.to = 0
  BY DEF IoPlaces
<1>4. Head(vec) \in Nat /\ 0 + 0 = 0
  BY HeadTailProperties
<1>5. op = "read" => ReadSound(q, lost)
  BY <1>2, <1>3 DEF ReadSound
<1>6. op = "write" => WriteSound(q, lost)
  BY <1>2, <1>3 DEF WriteSound
<1>7. op \in {"sendfile", "copy"} => CopySound(q, lost)
  BY <1>2, <1>3, <1>4 DEF CopySound
<1>8. CallSound(q, lost)
  BY <1>2, <1>5, <1>6, <1>7 DEF CallSound
<1> QED BY <1>1, <1>8

(* A call begins.                                                          *)
LEMMA StartStep ==
    ASSUME IoInv, NEW t \in IoThread, NEW q \in IoRecords, IoGo(t, q), ioCalls' = ioCalls + 1, StartsOnly,
           q.at = "run", q.id = ioCalls + 1, q.total = 0, q.first = -1, CallSound(q, broken)
    PROVE  IoInv'
<1>0. /\ IoTypes /\ IoIds /\ CallsSound /\ CallsHeld /\ AppendsPlaced /\ StreamSound
  BY DEF IoInv
<1>1. /\ ioCall' \in [IoThread -> IoRecords \cup {IoIdle}] /\ ioCall'[t] = q
      /\ \A s \in IoThread \ {t} : ioCall'[s] = ioCall[s]
      /\ \A s \in IoThread \ {t} : IoAlike(ioCall'[s], ioCall[s])
  BY <1>0, IoGoIs
<1>2. /\ content' = content /\ position' = position /\ stream' = stream /\ drained' = drained
      /\ ioLock' = ioLock /\ ioSetup' = ioSetup /\ appended' = appended /\ overrun' = overrun
      /\ broken' = broken
  BY DEF StartsOnly
<1>3. ioCalls' \in Nat
  BY <1>0 DEF IoTypes
<1>4. IoTypes'
  BY <1>0, <1>1, <1>2, <1>3 DEF IoTypes
<1>5. IoIds'
  BY <1>0, <1>1, <1>2, IdsNew
<1>6. CallsSound'
  BY <1>0, <1>1, <1>2, SoundKept
<1>7. ReadHeld(t, ioCall[t])' /\ AppendHeld(t, ioCall[t])'
  BY <1>1 DEF ReadHeld, AppendHeld
<1>8. CallsHeld'
  BY <1>0, <1>1, <1>2, <1>7, HeldKept
<1>9. AppendsPlaced'
  BY <1>0, <1>2 DEF AppendsPlaced, AppendsKept
<1>10. StreamFor(ioCall[t])'
  BY <1>0, <1>1, <1>2 DEF IoIds, IoTypes, StreamFor
<1>11. StreamSound'
  BY <1>0, <1>1, <1>2, <1>10, StreamSame
<1> QED BY <1>4, <1>5, <1>6, <1>8, <1>9, <1>11 DEF IoInv

(* A call with its operation, its ends and its offsets begins.             *)
LEMMA CallStep ==
    ASSUME IoInv, NEW t \in IoThread, ioCalls' = ioCalls + 1, StartsOnly,
           NEW op \in {"read", "write", "sendfile", "copy"},
           NEW from \in IoFile \cup {"channel", "user"}, NEW to \in IoFile \cup {"channel", "user"},
           NEW vec \in Seq(Nat), NEW place \in IoPlaces, vec # <<>>,
           op = "read" => /\ to = "user" /\ place.to < 0 /\ from \in IoFile \cup {"channel"}
                          /\ place.from >= 0 => from \in IoFile,
           op = "write" => /\ from = "user" /\ place.from < 0 /\ to \in IoFile \cup {"channel"}
                           /\ place.to >= 0 => to \in IoFile,
           op \in {"sendfile", "copy"} => from \in IoFile /\ to \in IoFile \cup {"channel"},
           IoGo(t, NewCall(op, from, to, vec, place))
    PROVE  IoInv'
<1>1. ioCalls \in Nat
  BY DEF IoInv, IoTypes
<1>2. PICK q : q = NewCall(op, from, to, vec, place)
  OBVIOUS
<1>3. IsNewCall(q, op, from, to, vec, place, ioCalls + 1)
  BY <1>1, <1>2, NewCallIs, Zenon
<1>4. CallSound(q, broken)
  BY <1>1, NewCallSound, <1>2
<1>5. IoGo(t, q)
  BY <1>2
<1>6. q \in IoRecords /\ q.at = "run" /\ q.id = ioCalls + 1 /\ q.total = 0 /\ q.first = -1
  BY <1>3 DEF IsNewCall
<1> QED BY <1>4, <1>5, <1>6, StartStep

(* Only open files append, and a call goes to an open file or to the       *)
(* channel.                                                                *)
LEMMA SetupIs ==
    ASSUME IoInv
    PROVE  /\ ioSetup.append \subseteq IoFile /\ ioSetup.places \subseteq IoFile \cup {"channel"}
           /\ ioSetup.nonblock \in BOOLEAN
BY FileIoAssumption DEF IoInv, IoTypes

(* A vector has segments, joined or not.                                   *)
LEMMA VectorIs ==
    ASSUME NEW v \in IoVectors
    PROVE  /\ v \in Seq(Nat) /\ v # <<>> /\ Joined(v) \in Seq(Nat) /\ Joined(v) # <<>>
<1>1. v \in Seq(Nat) /\ v # <<>>
  BY FileIoAssumption
<1>2. CASE ioSetup.kind = "socket" /\ Len(v) = 2
  <2>1. v[1] \in Nat /\ v[2] \in Nat
    BY <1>2, <1>1
  <2>2. Joined(v) = <<v[1] + v[2]>>
    BY <1>2 DEF Joined
  <2>3. v[1] + v[2] \in Nat
    BY <2>1
  <2>4. Joined(v) \in Seq(Nat) /\ Len(Joined(v)) = 1
    BY <2>2, <2>3
  <2>5. Joined(v) # <<>>
    BY <2>4, IoNotEmpty
  <2> QED BY <1>1, <2>4, <2>5
<1>3. CASE ~ (ioSetup.kind = "socket" /\ Len(v) = 2)
  BY <1>1, <1>3 DEF Joined
<1> QED BY <1>2, <1>3

(* read, write, pread, pwrite, sendfile and copy_file_range begin.         *)
LEMMA StartsStep ==
    ASSUME IoInv, NEW t \in IoThread,
           \/ \E o \in ioSetup.places, v \in IoVectors : ReadCall(t, o, v) \/ WriteCall(t, o, v)
           \/ \E o \in IoFile, v \in IoVectors, p \in {1} : PreadCall(t, o, v, p) \/ PwriteCall(t, o, v, p)
           \/ \E o \in IoFile, to \in ioSetup.places, p \in {-1, 0} :
                \/ Sendfile(t, o, to, FirstLength, p)
                \/ \E q \in {-1, 1} : CopyFileRange(t, o, to, FirstLength, p, q)
    PROVE  IoInv'
<1>0. /\ ioSetup.append \subseteq IoFile /\ ioSetup.places \subseteq IoFile \cup {"channel"}
      /\ FirstLength \in Nat
  BY SetupIs, FileIoAssumption
<1>1. /\ NoOffsets \in IoPlaces /\ NoOffsets.from = -1 /\ NoOffsets.to = -1 /\ ~ (-1 >= 0) /\ -1 < 0
  BY DEF NoOffsets, IoPlaces
<1>2. ASSUME NEW o \in ioSetup.places, NEW v \in IoVectors, ReadCall(t, o, v) PROVE IoInv'
  BY VectorIs, <1>2, <1>0, <1>1, CallStep DEF ReadCall, IoStarts
<1>3. ASSUME NEW o \in ioSetup.places, NEW v \in IoVectors, WriteCall(t, o, v) PROVE IoInv'
  BY VectorIs, <1>3, <1>0, <1>1, CallStep DEF WriteCall, IoStarts
<1>4. ASSUME NEW o \in IoFile, NEW v \in IoVectors, PreadCall(t, o, v, 1) PROVE IoInv'
  <2>1. PICK pl : pl = [NoOffsets EXCEPT !.from = 1]
    OBVIOUS
  <2>2. v \in Seq(Nat) /\ v # <<>> /\ pl \in IoPlaces /\ pl.from = 1 /\ pl.to = -1
    BY <2>1, VectorIs DEF NoOffsets, IoPlaces
  <2>3. /\ IoGo(t, NewCall("read", o, "user", v, pl)) /\ ioCalls' = ioCalls + 1 /\ StartsOnly
    BY <1>4, <2>1 DEF PreadCall, IoStarts
  <2> QED BY <1>1, <2>2, <2>3, CallStep
<1>5. ASSUME NEW o \in IoFile, NEW v \in IoVectors, PwriteCall(t, o, v, 1) PROVE IoInv'
  <2>1. PICK pl : pl = [NoOffsets EXCEPT !.to = 1]
    OBVIOUS
  <2>2. v \in Seq(Nat) /\ v # <<>> /\ pl \in IoPlaces /\ pl.to = 1 /\ pl.from = -1
    BY <2>1, VectorIs DEF NoOffsets, IoPlaces
  <2>3. /\ IoGo(t, NewCall("write", "user", o, v, pl)) /\ ioCalls' = ioCalls + 1 /\ StartsOnly
    BY <1>5, <2>1 DEF PwriteCall, IoStarts
  <2> QED BY <1>1, <2>2, <2>3, CallStep
<1>6. <<FirstLength>> \in Seq(Nat) /\ <<FirstLength>> # <<>>
  BY <1>0
<1>7. ASSUME NEW o \in IoFile, NEW to \in ioSetup.places, NEW p \in {-1, 0},
             Sendfile(t, o, to, FirstLength, p)
      PROVE  IoInv'
  <2>1. PICK pl : pl = [NoOffsets EXCEPT !.from = p]
    OBVIOUS
  <2>2. pl \in IoPlaces
    BY <2>1 DEF NoOffsets, IoPlaces
  <2>3. /\ IoGo(t, NewCall("sendfile", o, to, <<FirstLength>>, pl)) /\ ioCalls' = ioCalls + 1 /\ StartsOnly
    BY <1>7, <2>1 DEF Sendfile, IoStarts
  <2>4. to \in IoFile \cup {"channel"} /\ to \in IoFile \cup {"channel", "user"}
    BY <1>0
  <2> QED BY <1>6, <2>2, <2>3, <2>4, CallStep
<1>8. ASSUME NEW o \in IoFile, NEW to \in ioSetup.places, NEW p \in {-1, 0}, NEW m \in {-1, 1},
             CopyFileRange(t, o, to, FirstLength, p, m)
      PROVE  IoInv'
  <2>1. PICK pl : pl = [from |-> p, to |-> m]
    OBVIOUS
  <2>2. pl \in IoPlaces
    BY <2>1 DEF NoOffsets, IoPlaces
  <2>3. /\ IoGo(t, NewCall("copy", o, to, <<FirstLength>>, pl)) /\ ioCalls' = ioCalls + 1 /\ StartsOnly
    BY <1>8, <2>1 DEF CopyFileRange, IoStarts
  <2>4. to \in IoFile \cup {"channel"} /\ to \in IoFile \cup {"channel", "user"}
    BY <1>0
  <2> QED BY <1>6, <2>2, <2>3, <2>4, CallStep
<1> QED BY <1>2, <1>3, <1>4, <1>5, <1>7, <1>8

(* lseek moves no position that another call holds the lock of.            *)
LEMMA LseekStep ==
    ASSUME IoInv, NEW t \in IoThread, NEW o \in IoFile, NEW w \in {"SET", "CUR", "END"}, NEW k \in {-1, 0},
           Lseek(t, o, w, k)
    PROVE  IoInv'
<1>0. /\ IoTypes /\ IoIds /\ CallsSound /\ CallsHeld /\ AppendsPlaced /\ StreamSound
  BY DEF IoInv
<1>1. PICK p : /\ p \in 0..MaxLength /\ position' = [position EXCEPT ![o] = p]
               /\ Lockable(t, o) /\ ioCalls' = ioCalls + 1
               /\ ioCall[t].at \in {"idle", "returned"}
  BY DEF Lseek, IoStarts
<1>2. /\ content' = content /\ stream' = stream /\ drained' = drained
      /\ ioLock' = ioLock /\ ioSetup' = ioSetup /\ appended' = appended /\ overrun' = overrun
      /\ broken' = broken /\ ioCall' = ioCall
  BY DEF Lseek
<1>3. p \in Nat /\ ioCalls \in Nat /\ ioCalls' \in Nat
  BY <1>0, <1>1, FileIoAssumption DEF IoTypes
<1>4. position' \in [IoFile -> Nat]
  BY <1>0, <1>1, <1>3 DEF IoTypes
<1>5. IoTypes'
  BY <1>0, <1>2, <1>3, <1>4 DEF IoTypes
<1>6. \A s \in IoThread \ {t} : IoAlike(ioCall'[s], ioCall[s])
  BY <1>2 DEF IoAlike
<1>7. IoIds'
  BY <1>1, <1>3, <1>0, <1>2 DEF IoIds
<1>8. CallsSound'
  BY <1>0, <1>2 DEF CallsSound
<1>9. \A f \in IoFile : ioLock[f] \in IoThread \ {t} => ioLock'[f] = ioLock[f] /\ position'[f] = position[f]
  BY <1>0, <1>1, <1>2, FileIoAssumption DEF Lockable, IoTypes
<1>10. ReadHeld(t, ioCall[t])' /\ AppendHeld(t, ioCall[t])'
  BY <1>1, <1>2 DEF ReadHeld, AppendHeld
<1>11. CallsHeld'
  BY <1>0, <1>2, <1>6, <1>9, <1>10, HeldKept
<1>12. AppendsPlaced'
  BY <1>0, <1>2 DEF AppendsPlaced, AppendsKept
<1>13. StreamFor(ioCall[t])'
  BY <1>0, <1>2 DEF StreamSound, StreamFor
<1>14. StreamSound'
  BY <1>0, <1>1, <1>2, <1>6, <1>13, StreamSame
<1> QED BY <1>5, <1>7, <1>8, <1>11, <1>12, <1>14 DEF IoInv

(* A step that leaves the file and the channel.                            *)
LEMMA MoveStep ==
    ASSUME IoInv, NEW t \in IoThread, ioCall[t] \in IoRecords, NEW q \in IoRecords, IoGo(t, q),
           IoLike(q, ioCall[t]), ioCalls' = ioCalls, ioSetup' = ioSetup, content' = content,
           appended' = appended, overrun' = overrun, stream' = stream,
           position' \in [IoFile -> Nat],
           ioLock' \in [IoFile \cup {"reader", "writer"} -> IoThread \cup {Unlocked}],
           drained' \in Nat, drained' <= Len(stream), Len(stream) - drained' <= ChannelRoom,
           broken \subseteq broken', CallSound(q, broken'),
           \A o \in IoFile : ioLock[o] \in IoThread \ {t} =>
              ioLock'[o] = ioLock[o] /\ position'[o] = position[o],
           ReadHeld(t, ioCall[t])' /\ AppendHeld(t, ioCall[t])',
           (ioCall[t].to = "channel" /\ ioCall[t].id \notin broken') => q.total = ioCall[t].total
    PROVE  IoInv'
<1>0. /\ IoTypes /\ IoIds /\ CallsSound /\ CallsHeld /\ AppendsPlaced /\ StreamSound
  BY DEF IoInv
<1>1. /\ ioCall' \in [IoThread -> IoRecords \cup {IoIdle}] /\ ioCall'[t] = q
      /\ \A s \in IoThread \ {t} : ioCall'[s] = ioCall[s]
      /\ \A s \in IoThread \ {t} : IoAlike(ioCall'[s], ioCall[s])
  BY <1>0, IoGoIs
<1>2. IoTypes'
  BY <1>0, <1>1 DEF IoTypes
<1>3. IoIds'
  BY <1>1, <1>0, IdsKept DEF IoLike, IoIds
<1>4. CallsSound'
  BY <1>0, <1>1, SoundKept
<1>5. CallsHeld'
  BY <1>0, <1>1, HeldKept
<1>6. AppendsPlaced'
  BY <1>0 DEF AppendsPlaced, AppendsKept
<1>7. StreamFor(ioCall[t])'
  BY IoFields, <1>0, <1>1, StreamForSame
<1>8. StreamSound'
  BY <1>0, <1>1, <1>7, StreamSame
<1> QED BY <1>2, <1>3, <1>4, <1>5, <1>6, <1>8 DEF IoInv

(* A lock is kept or given up by whoever may have it.                      *)
LEMMA KeepIs ==
    ASSUME IoTypes, NEW t \in IoThread, NEW o \in IoFile \cup {"reader", "writer"}, NEW keep \in BOOLEAN,
           IoKeep(t, o, keep), Lockable(t, o)
    PROVE  /\ ioLock' \in [IoFile \cup {"reader", "writer"} -> IoThread \cup {Unlocked}]
           /\ keep => ioLock'[o] = t
           /\ \A f \in IoFile \cup {"reader", "writer"} : f # o => ioLock'[f] = ioLock[f]
           /\ ioLock[o] \notin IoThread \ {t}
  BY FileIoAssumption DEF IoKeep, IoTypes, Lockable

(* The call of a thread in it tells the truth.                             *)
LEMMA OwnIs ==
    ASSUME IoInv, NEW t \in IoThread, ioCall[t].at # "idle"
    PROVE  ioCall[t] \in IoRecords /\ CallSound(ioCall[t], broken)
BY IoCallIs DEF IoInv, CallsSound

(* A call that waited goes on or returns.                                  *)
LEMMA WakeStep ==
    ASSUME IoInv, NEW t \in IoThread, IoWake(t)
    PROVE  IoInv'
<1>1. PICK r : r = ioCall[t]
  OBVIOUS
<1>2. r.at = "wait" /\ r.at # "idle" /\ r.at # "deliver"
  BY <1>1 DEF IoWake
<1>3. r \in IoRecords /\ CallSound(r, broken)
  BY <1>1, <1>2, OwnIs
<1>4. /\ content' = content /\ position' = position /\ stream' = stream /\ drained' = drained
      /\ ioLock' = ioLock /\ ioSetup' = ioSetup /\ appended' = appended /\ overrun' = overrun
      /\ broken' = broken /\ ioCalls' = ioCalls
  BY DEF IoWake
<1>5. /\ IoTypes /\ position' \in [IoFile -> Nat]
      /\ ioLock' \in [IoFile \cup {"reader", "writer"} -> IoThread \cup {Unlocked}]
      /\ drained' \in Nat /\ drained' <= Len(stream) /\ Len(stream) - drained' <= ChannelRoom
  BY <1>4 DEF IoInv, IoTypes
<1>6. CASE IoGo(t, [r EXCEPT !.at = "run"])
  <2>1. PICK q : q = [r EXCEPT !.at = "run"]
    OBVIOUS
  <2>2. /\ q \in IoRecords /\ IoLike(q, r) /\ q.at = "run" /\ q.total = r.total
    BY <1>3, <2>1, IoRunsIs
  <2>3. CallSound(q, broken')
    BY <1>2, <1>3, <1>4, <2>1, SoundRuns
  <2>4. IoGo(t, q) /\ ioCall'[t] = q
    BY <1>5, <1>6, <2>1, <2>2, IoGoIs
  <2>5. ReadHeld(t, ioCall[t])'
    BY <1>2, <1>3, <2>2, FileIoAssumption, <2>4 DEF CallSound, ReadSound, IoLike, ReadHeld
  <2>6. AppendHeld(t, ioCall[t])'
    BY <2>2, <2>4 DEF AppendHeld
  <2> QED BY <1>1, <1>3, <1>4, <1>5, <2>2, <2>3, <2>4, <2>5, <2>6, MoveStep
<1>7. CASE IoGo(t, IoReturned(r))
  <2>1. PICK q : q = IoReturned(r)
    OBVIOUS
  <2>2. /\ q \in IoRecords /\ IoLike(q, r) /\ q.at = "returned" /\ q.total = r.total
    BY <1>3, <2>1, IoReturnedIs
  <2>3. CallSound(q, broken')
    BY <1>2, <1>3, <1>4, <2>1, SoundReturned
  <2>4. IoGo(t, q) /\ ioCall'[t] = q
    BY <1>5, <1>7, <2>1, <2>2, IoGoIs
  <2>5. ReadHeld(t, ioCall[t])' /\ AppendHeld(t, ioCall[t])'
    BY <2>2, <2>4 DEF ReadHeld, AppendHeld
  <2> QED BY <1>1, <1>3, <1>4, <1>5, <2>2, <2>3, <2>4, <2>5, MoveStep
<1> QED BY <1>1, <1>6, <1>7 DEF IoWake

(* A call that got EAGAIN waits or returns, and is lost if it had moved    *)
(* something.                                                              *)
LEMMA AgainIs ==
    ASSUME NEW t \in IoThread, NEW r \in IoRecords, CallSound(r, broken), r.at = "run",
           r.op \in {"read", "write"}, r.op = "read" => r.from = "channel",
           r.op = "write" => r.to = "channel", IoAgain(t, r), Nonblock \in BOOLEAN
    PROVE  \E q \in IoRecords :
             /\ IoGo(t, q) /\ IoLike(q, r) /\ CallSound(q, broken') /\ q.at \in {"wait", "returned"}
             /\ broken \subseteq broken' /\ (r.id \notin broken' => q.total = r.total)
<1>1. broken' = IF r.total > 0 THEN broken \cup {r.id} ELSE broken
  BY DEF IoAgain
<1>2. /\ broken \subseteq broken' /\ (r.total > 0 => r.id \in broken')
  BY <1>1
<1>3. r.total \in Nat
  BY IoFields
<1>4. r.id \notin broken' => r.total = 0
  BY <1>2, <1>3
<1>5. CallSound(r, broken')
  BY <1>2, SoundMore
<1>6. r.at # "deliver" /\ "channel" \notin IoFile
  BY FileIoAssumption
<1>7. CASE Nonblock
  <2>1. PICK z : z = [r EXCEPT !.total = 0]
    OBVIOUS
  <2>2. z \in IoRecords /\ IoLike(z, r) /\ z.total = 0
    BY <2>1, IoZeroed
  <2>3. PICK q : q = IoReturned(z)
    OBVIOUS
  <2>4. q \in IoRecords /\ IoLike(q, z) /\ q.total = z.total /\ q.at = "returned"
    BY <2>2, <2>3, IoReturnedIs
  <2>5. IoLike(q, r) /\ q.total = 0
    BY <2>2, <2>4 DEF IoLike
  <2>6. CallSound(q, broken')
    BY <1>2, <1>5, <1>6, SoundZeroed, <2>1, <2>3
  <2>7. IoGo(t, q)
    BY <1>7, <2>1, <2>3 DEF IoAgain
  <2> QED BY <1>2, <1>4, <2>4, <2>5, <2>6, <2>7
<1>8. CASE ~ Nonblock
  BY RetriedIs, <1>2, <1>5, <1>6, SoundRetried, <1>8, <1>4 DEF IoAgain
<1> QED BY <1>7, <1>8

(* A read of the channel.                                                  *)
LEMMA ReadChannelStep ==
    ASSUME IoInv, NEW t \in IoThread, IoReadChannel(t)
    PROVE  IoInv'
<1>1. PICK r : r = ioCall[t]
  OBVIOUS
<1>2. /\ r.at = "run" /\ r.op = "read" /\ r.from = "channel" /\ Lockable(t, "reader")
  BY <1>1 DEF IoReadChannel, Moves
<1>3. r \in IoRecords /\ CallSound(r, broken)
  BY <1>1, <1>2, OwnIs
<1>4. /\ content' = content /\ position' = position /\ stream' = stream
      /\ ioSetup' = ioSetup /\ appended' = appended /\ overrun' = overrun /\ ioCalls' = ioCalls
  BY DEF IoReadChannel
<1>5. IoTypes /\ position' \in [IoFile -> Nat] /\ Nonblock \in BOOLEAN
  BY <1>4, SetupIs DEF IoInv, IoTypes, Nonblock
<1>6. PICK n : n = IoLesser(Head(r.left), IoQueued)
  OBVIOUS
<1>7. /\ drained \in Nat /\ drained <= Len(stream) /\ Len(stream) - drained <= ChannelRoom
      /\ Len(stream) \in Nat /\ IoQueued \in Nat /\ ChannelRoom \in Nat
  BY <1>5, FileIoAssumption, LenProperties DEF IoTypes, IoQueued
<1>8. r.left # <<>> /\ Head(r.left) \in Nat
  BY <1>2, <1>3, IoFields, HeadTailProperties DEF CallSound
<1>9. n \in Nat /\ n <= IoQueued
  BY <1>6, <1>7, <1>8 DEF IoLesser
<1>10. "reader" \in IoFile \cup {"reader", "writer"} /\ FALSE \in BOOLEAN
  OBVIOUS
<1>11. ASSUME NEW keep \in BOOLEAN, IoKeep(t, "reader", keep)
       PROVE  /\ ioLock' \in [IoFile \cup {"reader", "writer"} -> IoThread \cup {Unlocked}]
              /\ \A o \in IoFile : ioLock[o] \in IoThread \ {t} =>
                   ioLock'[o] = ioLock[o] /\ position'[o] = position[o]
  BY <1>2, <1>5, <1>10, <1>11, KeepIs, <1>4
<1>12. CASE n = 0
  <2>1. IoAgain(t, r) /\ IoKeep(t, "reader", FALSE) /\ drained' = drained
    BY <1>1, <1>6, <1>12 DEF IoReadChannel
  <2>2. PICK q \in IoRecords :
             /\ IoGo(t, q) /\ IoLike(q, r) /\ CallSound(q, broken') /\ q.at \in {"wait", "returned"}
             /\ broken \subseteq broken' /\ (r.id \notin broken' => q.total = r.total)
    BY <1>2, <1>3, <1>5, <2>1, AgainIs
  <2>3. ioCall'[t] = q
    BY <1>5, <2>2, IoGoIs
  <2>4. ReadHeld(t, ioCall[t])' /\ AppendHeld(t, ioCall[t])'
    BY <2>2, <2>3 DEF ReadHeld, AppendHeld
  <2>5. /\ drained' \in Nat /\ drained' <= Len(stream) /\ Len(stream) - drained' <= ChannelRoom
    BY <1>7, <2>1
  <2>6. /\ ioLock' \in [IoFile \cup {"reader", "writer"} -> IoThread \cup {Unlocked}]
        /\ \A o \in IoFile : ioLock[o] \in IoThread \ {t} =>
             ioLock'[o] = ioLock[o] /\ position'[o] = position[o]
    BY <1>10, <1>11, <2>1
  <2> QED BY <1>1, <1>3, <1>4, <1>5, <2>2, <2>4, <2>5, <2>6, MoveStep
<1>13. CASE n # 0
  <2>1. PICK q : q = AfterRead(r, n)
    OBVIOUS
  <2>2. IoGo(t, q) /\ IoKeep(t, "reader", KeepsReading(q)) /\ drained' = drained + n /\ broken' = broken
    BY <1>1, <1>6, <1>13, <2>1 DEF IoReadChannel
  <2>3. /\ q \in IoRecords /\ IoLike(q, r)
    BY <1>3, <1>8, <1>9, <2>1, AfterReadIs
  <2>4. CallSound(q, broken')
    <3>1. ReadSound(r, broken) /\ ~ (r.start.from >= 0)
      BY <1>2, <1>3, FileIoAssumption DEF CallSound, ReadSound
    <3>2. ~ (r.place.from >= 0) /\ IoLike(r, r) /\ r.whole
      BY <1>3, <3>1 DEF CallSound, IoLike
    <3>3. r.place.from = IF r.place.from >= 0 THEN r.place.from + n ELSE r.place.from
      BY <3>2
    <3>4. CallSound(AfterRead(r, n), broken)
      BY <1>2, <1>3, <1>9, <3>2, <3>3, SoundRead
    <3> QED BY <2>1, <2>2, <3>4
  <2>5. ioCall'[t] = q /\ q.from = "channel" /\ q.op = "read" /\ q.to = r.to
    BY <1>2, <1>5, <2>2, <2>3, IoGoIs DEF IoLike
  <2>6. ReadHeld(t, ioCall[t])'
    BY <2>5, FileIoAssumption DEF ReadHeld
  <2>7. r.to # "channel" /\ q.at # "append"
    BY <1>2, <1>3, <2>4, <2>5 DEF CallSound, ReadSound
  <2>8. AppendHeld(t, ioCall[t])'
    BY <2>5, <2>7 DEF AppendHeld
  <2>9. /\ drained' \in Nat /\ drained' <= Len(stream) /\ Len(stream) - drained' <= ChannelRoom
    BY <1>7, <1>9, <2>2 DEF IoQueued
  <2>10. /\ ioLock' \in [IoFile \cup {"reader", "writer"} -> IoThread \cup {Unlocked}]
         /\ \A o \in IoFile : ioLock[o] \in IoThread \ {t} =>
              ioLock'[o] = ioLock[o] /\ position'[o] = position[o]
    BY <1>11, <2>2 DEF KeepsReading
  <2> QED BY <1>1, <1>3, <1>4, <1>5, <2>2, <2>3, <2>4, <2>6, <2>7, <2>8, <2>9, <2>10, MoveStep
<1> QED BY <1>12, <1>13

(* A read that has found its place.                                        *)
PlacedAs(q, r, f, wh, p) ==
    /\ q \in IoRecords /\ IoLike(q, r) /\ q.at = r.at /\ q.left = r.left /\ q.whole = wh
    /\ q.total = r.total /\ q.took = r.took /\ q.first = f
    /\ q.place.to = r.place.to /\ q.place.from = p

(* A read of the file notes where it began and moves the offset it was     *)
(* given.                                                                  *)
LEMMA PlacedIs ==
    ASSUME NEW r \in IoRecords, NEW f \in Int, NEW wh \in BOOLEAN, NEW p \in Int, NEW q,
           q = [r EXCEPT !.first = f, !.whole = wh, !.place.from = p]
    PROVE  PlacedAs(q, r, f, wh, p)
  BY DEF IoRecords, IoPlaces, IoLike, PlacedAs

(* A read of the file finds as many units as there are.                    *)
LEMMA UnitsAtIs ==
    ASSUME content \in Seq(IoUnit), NEW place \in Nat, NEW m \in Nat
    PROVE  /\ UnitsAt(place, m) \in Nat /\ UnitsAt(place, m) <= m
           /\ UnitsAt(place, m) > 0 => place + UnitsAt(place, m) <= Len(content)
  BY LenProperties DEF UnitsAt, IoLesser

(* A read of the file goes on where its last segment ended: by its offset, *)
(* or by the position whose lock it holds.                                 *)
LEMMA ReadFileStep ==
    ASSUME IoInv, NEW t \in IoThread, IoReadFile(t)
    PROVE  IoInv'
<1>1. PICK r : r = ioCall[t]
  OBVIOUS
<1>2. /\ r.at = "run" /\ r.op = "read" /\ r.from \in IoFile
  BY <1>1 DEF IoReadFile, Moves
<1>3. r \in IoRecords /\ CallSound(r, broken)
  BY <1>1, <1>2, OwnIs
<1>4. /\ content' = content /\ drained' = drained /\ stream' = stream /\ broken' = broken
      /\ ioSetup' = ioSetup /\ appended' = appended /\ overrun' = overrun /\ ioCalls' = ioCalls
  BY DEF IoReadFile
<1>5. /\ IoTypes /\ content \in Seq(IoUnit) /\ position \in [IoFile -> Nat]
      /\ ioLock \in [IoFile \cup {"reader", "writer"} -> IoThread \cup {Unlocked}]
      /\ drained' \in Nat /\ drained' <= Len(stream) /\ Len(stream) - drained' <= ChannelRoom
  BY <1>4 DEF IoInv, IoTypes
<1>6. PICK place : place = IF r.place.from >= 0 THEN r.place.from ELSE position[r.from]
  OBVIOUS
<1>7. /\ r.place.from \in Int /\ r.first \in Int /\ r.total \in Nat
  BY <1>3, IoFields
<1>8. place \in Nat
  BY <1>2, <1>5, <1>6, <1>7
<1>9. r.left # <<>> /\ Head(r.left) \in Nat
  BY <1>2, <1>3, IoFields, HeadTailProperties DEF CallSound
<1>10. PICK n : n = UnitsAt(place, Head(r.left))
  OBVIOUS
<1>11. n \in Nat
  BY <1>5, <1>8, <1>9, <1>10, UnitsAtIs
<1>12. PICK f : f = IF r.first = -1 THEN place ELSE r.first
  OBVIOUS
<1>13. PICK p : p = IF r.place.from >= 0 THEN r.place.from + n ELSE r.place.from
  OBVIOUS
<1>14. ReadHeld(t, r)
  BY <1>1 DEF IoInv, CallsHeld
<1>15. /\ r.first = -1 => r.total = 0
       /\ r.first # -1 => place = r.first + r.total
       /\ (r.first # -1 /\ r.place.from < 0) => ioLock[r.from] = t
  BY <1>2, <1>6, <1>7, <1>14 DEF ReadHeld
<1>16. f \in Int /\ p \in Int /\ place = f + r.total /\ f # -1
  BY <1>7, <1>8, <1>11, <1>12, <1>13, <1>15
<1>17. r.whole = TRUE
  BY <1>3 DEF IoRecords, CallSound
<1>18. PICK z : z = [r EXCEPT !.first = f, !.whole = TRUE, !.place.from = p]
  OBVIOUS
<1>19. [r EXCEPT !.first = IF @ = -1 THEN place ELSE @,
                 !.whole = @ /\ (r.first # -1 => place = r.first + r.total),
                 !.place.from = IF @ >= 0 THEN @ + n ELSE @] = z
  BY <1>15, <1>17, <1>3, <1>12, <1>13, <1>18 DEF IoRecords
<1>20. /\ z \in IoRecords /\ IoLike(z, r) /\ z.at = r.at /\ z.left = r.left /\ z.whole = TRUE
       /\ z.total = r.total /\ z.took = r.took /\ z.first = f
       /\ z.place.to = r.place.to /\ z.place.from = p
  <2>1. TRUE \in BOOLEAN
    OBVIOUS
  <2>2. PlacedAs(z, r, f, TRUE, p)
    BY <1>3, <1>16, <1>18, <2>1, PlacedIs, Zenon
  <2> QED BY <2>2 DEF PlacedAs
<1>21. PICK q : q = AfterRead(z, n)
  OBVIOUS
<1>22. IoGo(t, q)
  BY <1>1, <1>6, <1>10, <1>19, <1>21 DEF IoReadFile
<1>23. /\ q \in IoRecords /\ IoLike(q, z) /\ q.at \in {z.at, "returned"}
       /\ q.place = z.place /\ q.total = z.total + n /\ q.first = z.first
  BY <1>9, <1>11, <1>20, <1>21, AfterReadIs
<1>24. IoLike(q, r)
  BY <1>20, <1>23 DEF IoLike
<1>25. CallSound(q, broken')
  BY <1>2, <1>3, <1>11, <1>13, <1>20, SoundRead, <1>4, <1>21
<1>26. ioCall'[t] = q
  BY <1>5, <1>22, <1>23, IoGoIs
<1>27. r.to # "channel" /\ q.at # "append"
  BY <1>2, <1>3, <1>20, <1>23 DEF CallSound, ReadSound
<1>28. AppendHeld(t, ioCall[t])'
  BY <1>26, <1>27 DEF AppendHeld
<1>29. q.first = f /\ q.total = r.total + n /\ q.place.from = p /\ q.from = r.from
  BY <1>20, <1>23, <1>24 DEF IoLike
<1>30. CASE r.place.from >= 0
  <2>1. position' = position /\ ioLock' = ioLock
    BY <1>1, <1>30 DEF IoReadFile
  <2>2. p = f + (r.total + n) /\ p >= 0
    BY <1>6, <1>7, <1>11, <1>13, <1>16, <1>30
  <2>3. ReadHeld(t, ioCall[t])'
    BY <1>16, <1>26, <1>29, <2>2 DEF ReadHeld
  <2> QED BY <1>1, <1>3, <1>4, <1>5, <1>22, <1>23, <1>24, <1>25, <1>27, <1>28, <2>1, <2>3, MoveStep
<1>31. CASE ~ (r.place.from >= 0)
  <2>1. /\ Lockable(t, r.from) /\ IoKeep(t, r.from, KeepsReading(q))
        /\ position' = [position EXCEPT ![r.from] = @ + n]
    BY <1>1, <1>6, <1>10, <1>19, <1>21, <1>31 DEF IoReadFile
  <2>2. KeepsReading(q) \in BOOLEAN /\ r.from \in IoFile \cup {"reader", "writer"}
    BY <1>2 DEF KeepsReading
  <2>3. /\ ioLock' \in [IoFile \cup {"reader", "writer"} -> IoThread \cup {Unlocked}]
        /\ KeepsReading(q) => ioLock'[r.from] = t
        /\ \A o \in IoFile \cup {"reader", "writer"} : o # r.from => ioLock'[o] = ioLock[o]
        /\ ioLock[r.from] \notin IoThread \ {t}
    BY <1>5, <2>1, <2>2, KeepIs
  <2>4. place = position[r.from] /\ place + n \in Nat
    BY <1>6, <1>8, <1>11, <1>31
  <2>5. /\ position' \in [IoFile -> Nat] /\ position'[r.from] = place + n
        /\ \A o \in IoFile : o # r.from => position'[o] = position[o]
    BY <1>2, <1>5, <2>1, <2>4
  <2>6. \A o \in IoFile : ioLock[o] \in IoThread \ {t} =>
           ioLock'[o] = ioLock[o] /\ position'[o] = position[o]
    BY <2>3, <2>5
  <2>7. place + n = f + (r.total + n) /\ ~ (p >= 0)
    BY <1>7, <1>11, <1>13, <1>16, <1>31
  <2>8. ReadHeld(t, ioCall[t])'
    BY <1>16, <1>26, <1>29, <2>7, <2>3, <2>5 DEF ReadHeld, KeepsReading
  <2> QED BY <1>1, <1>3, <1>4, <1>5, <1>22, <1>23, <1>24, <1>25, <1>27, <1>28, <2>3, <2>5, <2>6, <2>8, MoveStep
<1> QED BY <1>30, <1>31

(* An append sets the position to the size of the file.                    *)
LEMMA AppendAtStep ==
    ASSUME IoInv, NEW t \in IoThread, AppendAt(t)
    PROVE  IoInv'
<1>1. PICK r : r = ioCall[t]
  OBVIOUS
<1>2. /\ r.at = "run" /\ r.op = "write" /\ r.to \in ioSetup.append /\ r.place.to < 0 /\ Lockable(t, r.to)
      /\ position' = [position EXCEPT ![r.to] = Len(content)]
      /\ IoKeep(t, r.to, TRUE)
      /\ IoGo(t, [r EXCEPT !.at = "append"])
  BY <1>1 DEF AppendAt, Moves
<1>3. r \in IoRecords /\ CallSound(r, broken)
  BY <1>1, <1>2, OwnIs
<1>4. /\ content' = content /\ drained' = drained /\ stream' = stream /\ broken' = broken
      /\ ioSetup' = ioSetup /\ appended' = appended /\ overrun' = overrun /\ ioCalls' = ioCalls
  BY DEF AppendAt
<1>5. /\ IoTypes /\ content \in Seq(IoUnit) /\ position \in [IoFile -> Nat]
      /\ drained' \in Nat /\ drained' <= Len(stream) /\ Len(stream) - drained' <= ChannelRoom
  BY <1>4 DEF IoInv, IoTypes
<1>6. r.to \in IoFile /\ r.to \in IoFile \cup {"reader", "writer"} /\ TRUE \in BOOLEAN
  BY <1>2, SetupIs
<1>7. PICK q : q = [r EXCEPT !.at = "append"]
  OBVIOUS
<1>8. /\ q \in IoRecords /\ IoLike(q, r) /\ q.at = "append" /\ q.total = r.total
  BY <1>3, <1>7, IoRunsIs
<1>9. CallSound(q, broken')
  BY <1>2, <1>3, <1>4, <1>6, <1>7, SoundAppend
<1>10. IoGo(t, q) /\ ioCall'[t] = q /\ q.to = r.to
  BY <1>2, <1>5, <1>7, <1>8, IoGoIs DEF IoLike
<1>11. /\ ioLock' \in [IoFile \cup {"reader", "writer"} -> IoThread \cup {Unlocked}]
       /\ ioLock'[r.to] = t
       /\ \A o \in IoFile \cup {"reader", "writer"} : o # r.to => ioLock'[o] = ioLock[o]
       /\ ioLock[r.to] \notin IoThread \ {t}
  BY <1>2, <1>5, <1>6, KeepIs
<1>12. Len(content) \in Nat
  BY <1>5, LenProperties
<1>13. /\ position' \in [IoFile -> Nat] /\ position'[r.to] = Len(content)
       /\ \A o \in IoFile : o # r.to => position'[o] = position[o]
  BY <1>2, <1>5, <1>6, <1>12
<1>14. \A o \in IoFile : ioLock[o] \in IoThread \ {t} =>
         ioLock'[o] = ioLock[o] /\ position'[o] = position[o]
  BY <1>11, <1>13
<1>15. ReadHeld(t, ioCall[t])'
  BY <1>8, <1>10 DEF ReadHeld
<1>16. AppendHeld(t, ioCall[t])'
  BY <1>12, <1>4, <1>10, <1>11, <1>13 DEF IoInv, AppendsPlaced, AppendHeld
<1> QED BY <1>1, <1>3, <1>4, <1>5, <1>8, <1>9, <1>10, <1>11, <1>13, <1>14, <1>15, <1>16, MoveStep

(* A step of t through o: its own call becomes q, appends elsewhere are    *)
(* outdated.                                                               *)
OutdatedBy(t, q, o) ==
    /\ ioCall' \in [IoThread -> IoRecords \cup {IoIdle}] /\ ioCall'[t] = q
    /\ \A s \in IoThread \ {t} : IoAlike(ioCall'[s], ioCall[s])
    /\ \A s \in IoThread \ {t} : (ioCall[s].at = "append" /\ ioCall[s].to # o) => ioCall'[s].stale

(* A write outdates the appends through other open files, and nothing else *)
(* of their calls.                                                         *)
LEMMA OutdatedIs ==
    ASSUME IoTypes, NEW t \in IoThread, NEW q \in IoRecords, NEW o,
           ioCall' = [Outdating(t, o) EXCEPT ![t] = q]
    PROVE  OutdatedBy(t, q, o)
<1>1. /\ DOMAIN Outdating(t, o) = IoThread
      /\ \A s \in IoThread \ {t} : Outdating(t, o)[s] =
           IF ioCall[s].at = "append" /\ ioCall[s].to # o THEN [ioCall[s] EXCEPT !.stale = TRUE] ELSE ioCall[s]
  BY DEF Outdating
<1>2. DOMAIN ioCall' = IoThread /\ ioCall'[t] = q /\ \A s \in IoThread \ {t} : ioCall'[s] = Outdating(t, o)[s]
  BY <1>1
<1>3. ASSUME NEW s \in IoThread \ {t}
      PROVE  /\ IoAlike(ioCall'[s], ioCall[s]) /\ ioCall'[s] \in IoRecords \cup {IoIdle}
             /\ (ioCall[s].at = "append" /\ ioCall[s].to # o) => ioCall'[s].stale
  <2>1. IoAlike(ioCall'[s], ioCall[s])
    BY <1>1, <1>2 DEF IoAlike
  <2>2. ioCall[s] \in IoRecords \/ ioCall[s] = IoIdle
    BY IoCallIs
  <2>3. ioCall'[s] \in IoRecords \cup {IoIdle}
    BY <2>1, <2>2, AlikeIs
  <2>4. ASSUME ioCall[s].at = "append", ioCall[s].to # o PROVE ioCall'[s].stale
    <3>1. ioCall'[s] = [ioCall[s] EXCEPT !.stale = TRUE]
      BY <1>1, <1>2, <2>4
    <3>2. ioCall[s] \in IoRecords
      BY <2>4, IoCallIs
    <3>3. [ioCall[s] EXCEPT !.stale = TRUE].stale
      BY <3>2, StaleIs
    <3> QED BY <3>1, <3>3
  <2> QED BY <2>1, <2>3, <2>4
<1>4. ioCall' \in [IoThread -> IoRecords \cup {IoIdle}]
  BY <1>2, <1>3, <1>1
<1> QED BY <1>2, <1>3, <1>4 DEF OutdatedBy

(* A step that writes the file.                                            *)
LEMMA StoreStep ==
    ASSUME IoInv, NEW t \in IoThread, ioCall[t] \in IoRecords, NEW q \in IoRecords, NEW o \in IoFile,
           ioCall' = [Outdating(t, o) EXCEPT ![t] = q],
           IoLike(q, ioCall[t]), ioCall[t].to = o, ioCalls' = ioCalls, ioSetup' = ioSetup,
           content' \in Seq(IoUnit), AppendsPlaced', stream' = stream, drained' = drained,
           broken' = broken, CallSound(q, broken),
           position' \in [IoFile -> Nat],
           ioLock' \in [IoFile \cup {"reader", "writer"} -> IoThread \cup {Unlocked}],
           \A f \in IoFile : ioLock[f] \in IoThread \ {t} =>
              ioLock'[f] = ioLock[f] /\ position'[f] = position[f],
           q.at \in {"run", "returned"}, q.op # "read",
           \/ ioLock[o] \notin IoThread \ {t}
           \/ \A p \in DOMAIN appended' \ overrun' : p \in DOMAIN appended \ overrun
    PROVE  IoInv'
<1>0. /\ IoTypes /\ IoIds /\ CallsSound /\ CallsHeld /\ AppendsPlaced /\ StreamSound
  BY DEF IoInv
<1>1. /\ ioCall' \in [IoThread -> IoRecords \cup {IoIdle}] /\ ioCall'[t] = q
      /\ \A s \in IoThread \ {t} : IoAlike(ioCall'[s], ioCall[s])
      /\ \A s \in IoThread \ {t} : (ioCall[s].at = "append" /\ ioCall[s].to # o) => ioCall'[s].stale
  <2>1. OutdatedBy(t, q, o)
    BY <1>0, OutdatedIs, Zenon
  <2> QED BY <2>1 DEF OutdatedBy
<1>2. IoTypes'
  BY <1>0, <1>1 DEF IoTypes
<1>3. IoIds'
  BY <1>1, <1>0, IdsKept DEF IoLike, IoIds
<1>4. CallsSound'
  BY <1>0, <1>1, SoundKept
<1>5. ReadHeld(t, ioCall[t])' /\ AppendHeld(t, ioCall[t])'
  BY <1>1 DEF ReadHeld, AppendHeld
<1>6. \A s \in IoThread \ {t} : (ioCall[s].at = "append" /\ ~ ioCall'[s].stale) =>
         \A p \in DOMAIN appended' \ overrun' : p \in DOMAIN appended \ overrun
  BY <1>1, <1>0 DEF CallsHeld, AppendHeld
<1>7. CallsHeld'
  BY <1>0, <1>1, <1>5, <1>6, HeldKept
<1>8. StreamFor(ioCall[t])'
  BY <1>1, FileIoAssumption DEF IoLike, StreamFor
<1>9. StreamSound'
  BY <1>0, <1>1, <1>8, StreamSame
<1> QED BY <1>2, <1>3, <1>4, <1>7, <1>9 DEF IoInv

(* A write moves the offset it was given.                                  *)
LEMMA MovedIs ==
    ASSUME NEW r \in IoRecords, NEW p \in Int, NEW q, q = [r EXCEPT !.place.to = p]
    PROVE  /\ q \in IoRecords /\ IoLike(q, r) /\ q.left = r.left /\ q.whole = r.whole
           /\ q.total = r.total /\ q.gave = r.gave
           /\ q.place.from = r.place.from /\ q.place.to = p
  BY DEF IoRecords, IoPlaces, IoLike

(* The units of a call are numbered from its count.                        *)
LEMMA OwnUnitsIs ==
    ASSUME NEW r \in IoRecords, NEW n \in Nat
    PROVE  /\ OwnUnits(r, n) = OwnFrom(r.id, r.total, n)
           /\ OwnUnits(r, n) \in Seq(IoUnit) /\ Len(OwnUnits(r, n)) = n
<1>1. r.id \in Nat /\ r.total \in Nat
  BY IoFields
<1>2. OwnUnits(r, n) = OwnFrom(r.id, r.total, n)
  BY DEF OwnUnits, OwnFrom
<1> DEFINE u == OwnUnits(r, n)
<1>3. u \in [1..n -> Int \X Int]
  BY <1>1 DEF OwnUnits
<1>4. u \in Seq(IoUnit) /\ Len(u) = n
  <2> HIDE DEF u
  <2> QED BY <1>3 DEF IoUnit
<1> QED BY <1>2, <1>4

(* A write of the file, with or without an append.                         *)
LEMMA WriteFileStep ==
    ASSUME IoInv, NEW t \in IoThread, IoWriteFile(t)
    PROVE  IoInv'
<1>1. PICK r : r = ioCall[t]
  OBVIOUS
<1>2. /\ r.at \in {"run", "append"} /\ r.to \in IoFile /\ (r.at = "run" => r.op = "write")
  BY <1>1 DEF IoWriteFile, Moves
<1>3. r \in IoRecords /\ CallSound(r, broken)
  BY <1>1, <1>2, OwnIs
<1>4. r.op = "write" /\ (r.at = "append" => r.place.to < 0)
  BY <1>3, IoFields, <1>2 DEF CallSound, ReadSound, WriteSound, CopySound
<1>5. /\ stream' = stream /\ drained' = drained /\ ioCalls' = ioCalls /\ ioSetup' = ioSetup /\ broken' = broken
  BY DEF IoWriteFile
<1>6. /\ IoTypes /\ content \in Seq(IoUnit) /\ position \in [IoFile -> Nat] /\ AppendsPlaced
      /\ ioLock \in [IoFile \cup {"reader", "writer"} -> IoThread \cup {Unlocked}]
  BY DEF IoInv, IoTypes
<1>7. r.left # <<>> /\ Head(r.left) \in Nat
  BY <1>2, <1>3, IoFields, HeadTailProperties DEF CallSound
<1>8. PICK n \in Nat : n = Head(r.left)
  BY <1>7
<1>9. PICK units : units = OwnUnits(r, n)
  OBVIOUS
<1>10. units \in Seq(IoUnit) /\ Len(units) = n
  BY <1>3, <1>9, OwnUnitsIs
<1>11. PICK place : place = IF r.place.to >= 0 THEN r.place.to ELSE position[r.to]
  OBVIOUS
<1>12. r.place.to \in Int /\ place \in Nat
  BY <1>2, <1>3, <1>6, IoFields, <1>11
<1>13. PICK p : p = IF r.place.to >= 0 THEN r.place.to + n ELSE r.place.to
  OBVIOUS
<1>14. p \in Int
  BY <1>12, <1>13
<1>15. PICK z : z = [r EXCEPT !.place.to = p]
  OBVIOUS
<1>16. [r EXCEPT !.place.to = IF @ >= 0 THEN @ + n ELSE @] = z
  BY <1>3, <1>13, <1>15 DEF IoRecords
<1>17. /\ z \in IoRecords /\ IoLike(z, r) /\ z.left = r.left /\ z.whole = r.whole
       /\ z.total = r.total /\ z.gave = r.gave
       /\ z.place.from = r.place.from /\ z.place.to = p
  BY <1>3, <1>14, <1>15, MovedIs
<1>18. PICK q : q = AfterWrite(z, n)
  OBVIOUS
<1>19. /\ q \in IoRecords /\ IoLike(q, z) /\ q.at \in {"run", "returned"}
  BY <1>7, <1>17, <1>18, AfterWriteIs
<1>20. IoLike(q, r) /\ q.op = "write"
  BY <1>4, <1>17, <1>19 DEF IoLike
<1>21. CallSound(q, broken)
  BY <1>3, <1>17, <1>2, <1>4, <1>13, SoundWrite, <1>18 DEF CallSound
<1>22. /\ content' = Overwritten(place, units)
       /\ ioCall' = [Outdating(t, r.to) EXCEPT ![t] = q]
       /\ IF r.place.to >= 0 THEN UNCHANGED <<position, ioLock>>
          ELSE /\ Lockable(t, r.to) /\ IoKeep(t, r.to, FALSE)
               /\ position' = [position EXCEPT ![r.to] = @ + n]
       /\ IF r.at = "append"
          THEN /\ appended' = [x \in DOMAIN appended \cup Spoilt(place, n) |->
                                 IF x \in DOMAIN appended THEN appended[x] ELSE units[x - place + 1]]
               /\ overrun' = IF r.stale THEN overrun \cup Spoilt(place, n) ELSE overrun
          ELSE ForgetAppended(Spoilt(place, n)) /\ UNCHANGED overrun
  BY <1>1, <1>8, <1>9, <1>10, <1>11, <1>16, <1>18 DEF IoWriteFile
<1>23. /\ position' \in [IoFile -> Nat]
       /\ ioLock' \in [IoFile \cup {"reader", "writer"} -> IoThread \cup {Unlocked}]
       /\ \A f \in IoFile : ioLock[f] \in IoThread \ {t} =>
            ioLock'[f] = ioLock[f] /\ position'[f] = position[f]
       /\ r.place.to < 0 => ioLock[r.to] \notin IoThread \ {t}
  <2>1. CASE r.place.to >= 0
    <3>1. position' = position /\ ioLock' = ioLock /\ ~ (r.place.to < 0)
      <4>1. UNCHANGED <<position, ioLock>>
        BY <1>22, <2>1
      <4>2. ~ (r.place.to < 0)
        BY <1>12, <2>1
      <4> QED BY <4>1, <4>2
    <3> QED BY <1>6, <3>1
  <2>2. CASE ~ (r.place.to >= 0)
    <3>1. Lockable(t, r.to) /\ IoKeep(t, r.to, FALSE) /\ position' = [position EXCEPT ![r.to] = @ + n]
      BY <1>22, <2>2
    <3>2. FALSE \in BOOLEAN /\ r.to \in IoFile \cup {"reader", "writer"}
      BY <1>2
    <3>3. /\ ioLock' \in [IoFile \cup {"reader", "writer"} -> IoThread \cup {Unlocked}]
          /\ \A o \in IoFile \cup {"reader", "writer"} : o # r.to => ioLock'[o] = ioLock[o]
          /\ ioLock[r.to] \notin IoThread \ {t}
      BY <1>6, <3>1, <3>2, KeepIs, ZenonT(40)
    <3>4. position[r.to] + n \in Nat
      BY <1>2, <1>6
    <3>5. /\ position' \in [IoFile -> Nat]
          /\ \A o \in IoFile : o # r.to => position'[o] = position[o]
      BY <1>6, <3>1, <3>4
    <3> QED BY <3>3, <3>5
  <2> QED BY <2>1, <2>2
<1>24. CASE r.at = "append"
  <2>1. /\ appended' = [x \in DOMAIN appended \cup Spoilt(place, Len(units)) |->
                          IF x \in DOMAIN appended THEN appended[x] ELSE units[x - place + 1]]
        /\ overrun' = IF r.stale THEN overrun \cup Spoilt(place, Len(units)) ELSE overrun
    BY <1>10, <1>22, <1>24
  <2>2. r.place.to < 0 /\ place = position[r.to]
    BY <1>4, <1>11, <1>12, <1>24
  <2>3. AppendHeld(t, r)
    BY <1>1 DEF IoInv, CallsHeld
  <2>4. ~ r.stale => \A x \in DOMAIN appended \ overrun : x < place
    BY <1>24, <2>2, <2>3 DEF AppendHeld
  <2>5. r.stale \in BOOLEAN
    BY <1>3 DEF IoRecords
  <2>6. AppendsPlaced' /\ content' \in Seq(IoUnit)
    BY <1>6, <1>10, <1>12, <1>22, <2>1, <2>4, <2>5, PlacedAppended
  <2>7. ioLock[r.to] \notin IoThread \ {t}
    BY <1>23, <2>2
  <2> QED BY <1>1, <1>2, <1>3, <1>5, <1>19, <1>20, <1>21, <1>22, <1>23, <2>6, <2>7, StoreStep
<1>25. CASE r.at # "append"
  <2>1. ForgetAppended(Spoilt(place, Len(units))) /\ overrun' = overrun
    BY <1>10, <1>22, <1>25
  <2>2. /\ AppendsPlaced' /\ content' \in Seq(IoUnit)
        /\ \A x \in DOMAIN appended' \ overrun' : x \in DOMAIN appended \ overrun
    BY <1>6, <1>10, <1>12, <1>22, <2>1, PlacedForgotten
  <2> QED BY <1>1, <1>2, <1>3, <1>5, <1>19, <1>20, <1>21, <1>22, <1>23, <2>2, StoreStep
<1> QED BY <1>24, <1>25

(* A step that puts units of its call into the channel.                    *)
LEMMA PutStep ==
    ASSUME IoInv, NEW t \in IoThread, ioCall[t] \in IoRecords, NEW q \in IoRecords, IoGo(t, q),
           NEW b \in Int, NEW n \in Nat,
           stream' = stream \o OwnFrom(ioCall[t].id, b, n), n <= IoRoom,
           IoLike(q, ioCall[t]), ioCalls' = ioCalls, ioSetup' = ioSetup, content' = content,
           appended' = appended, overrun' = overrun, drained' = drained, position' = position,
           ioLock' \in [IoFile \cup {"reader", "writer"} -> IoThread \cup {Unlocked}],
           broken \subseteq broken', CallSound(q, broken'),
           \A o \in IoFile : ioLock[o] \in IoThread \ {t} => ioLock'[o] = ioLock[o],
           ioCall[t].to = "channel", q.at \in {"run", "wait", "returned"}, q.op # "read",
           ioCall[t].id \notin broken' => (b = ioCall[t].total /\ q.total = ioCall[t].total + n)
    PROVE  IoInv'
<1>0. /\ IoTypes /\ IoIds /\ CallsSound /\ CallsHeld /\ AppendsPlaced /\ StreamSound
  BY DEF IoInv
<1>1. /\ ioCall' \in [IoThread -> IoRecords \cup {IoIdle}] /\ ioCall'[t] = q
      /\ \A s \in IoThread \ {t} : ioCall'[s] = ioCall[s]
      /\ \A s \in IoThread \ {t} : IoAlike(ioCall'[s], ioCall[s])
  BY <1>0, IoGoIs
<1>2. /\ StreamSound'
      /\ \A k \in DOMAIN stream' : stream'[k][1] \in 1..ioCalls
      /\ stream' \in Seq(IoUnit) /\ Len(stream') = Len(stream) + n
  BY <1>0, <1>1, StreamGrows
<1>3. drained' \in Nat /\ drained' <= Len(stream') /\ Len(stream') - drained' <= ChannelRoom
  BY <1>0, FileIoAssumption, LenProperties, <1>2 DEF IoTypes, IoRoom, IoQueued
<1>4. IoTypes'
  BY <1>0, <1>1, <1>2, <1>3 DEF IoTypes
<1>5. IoIds'
  BY <1>1, <1>0, <1>2, IdsKept DEF IoLike
<1>6. CallsSound'
  BY <1>0, <1>1, SoundKept
<1>7. ReadHeld(t, ioCall[t])' /\ AppendHeld(t, ioCall[t])'
  BY <1>1 DEF ReadHeld, AppendHeld
<1>8. CallsHeld'
  BY <1>0, <1>1, <1>7, HeldKept
<1>9. AppendsPlaced'
  BY <1>0 DEF AppendsPlaced, AppendsKept
<1> QED BY <1>2, <1>4, <1>5, <1>6, <1>8, <1>9 DEF IoInv

(* A write into the channel.                                               *)
LEMMA WriteChannelStep ==
    ASSUME IoInv, NEW t \in IoThread, IoWriteChannel(t)
    PROVE  IoInv'
<1>1. PICK r : r = ioCall[t]
  OBVIOUS
<1>2. /\ r.at = "run" /\ r.op = "write" /\ r.to = "channel" /\ Lockable(t, "writer")
  BY <1>1 DEF IoWriteChannel, Moves
<1>3. r \in IoRecords /\ CallSound(r, broken)
  BY <1>1, <1>2, OwnIs
<1>4. /\ content' = content /\ position' = position /\ drained' = drained
      /\ ioSetup' = ioSetup /\ appended' = appended /\ overrun' = overrun /\ ioCalls' = ioCalls
  BY DEF IoWriteChannel
<1>5. IoTypes /\ position' \in [IoFile -> Nat] /\ Nonblock \in BOOLEAN
  BY <1>4, SetupIs DEF IoInv, IoTypes, Nonblock
<1>6. /\ drained \in Nat /\ drained <= Len(stream) /\ Len(stream) - drained <= ChannelRoom
      /\ Len(stream) \in Nat /\ IoRoom \in Int /\ ChannelRoom \in Nat
  BY <1>5, FileIoAssumption, LenProperties DEF IoTypes, IoQueued, IoRoom
<1>7. r.left # <<>> /\ Head(r.left) \in Nat /\ r.part \in Nat /\ r.total \in Nat
  BY <1>2, <1>3, IoFields, HeadTailProperties DEF CallSound
<1>8. PICK n : n = IoLesser(Head(r.left) - r.part, IoRoom)
  OBVIOUS
<1>9. n \in Int /\ n <= IoRoom
  BY <1>6, <1>7, <1>8 DEF IoLesser
<1>10. "writer" \in IoFile \cup {"reader", "writer"} /\ FALSE \in BOOLEAN
  OBVIOUS
<1>11. ASSUME NEW keep \in BOOLEAN, IoKeep(t, "writer", keep)
       PROVE  /\ ioLock' \in [IoFile \cup {"reader", "writer"} -> IoThread \cup {Unlocked}]
              /\ \A o \in IoFile : ioLock[o] \in IoThread \ {t} =>
                   ioLock'[o] = ioLock[o] /\ position'[o] = position[o]
  BY <1>2, <1>5, <1>10, <1>11, KeepIs, <1>4
<1>12. CASE n > 0
  <2>1. PICK z : z = AfterWrite(r, n)
    OBVIOUS
  <2>2. PICK over \in BOOLEAN : over = (r.part + n < Head(r.left) /\ ioSetup.kind # "pipe")
    OBVIOUS
  <2>3. PICK keep \in BOOLEAN : keep = (z.part > 0 /\ z.at = "run" /\ ~over)
    OBVIOUS
  <2>4. /\ stream' = stream \o OwnUnits(r, n) /\ IoGo(t, IF over THEN IoReturned(z) ELSE z)
        /\ IoKeep(t, "writer", keep) /\ broken' = broken
    BY <1>1, <1>8, <1>12, <2>1, <2>2, <2>3 DEF IoWriteChannel
  <2>5. n \in Nat
    BY <1>9, <1>12
  <2>6. /\ z \in IoRecords /\ IoLike(z, r) /\ z.at \in {"run", "returned"} /\ z.total = r.total + n
    BY <1>3, <1>7, <2>1, <2>5, AfterWriteIs
  <2>7. CallSound(z, broken)
    BY <1>2, <1>3, FileIoAssumption, <2>5, SoundWrite, <2>1 DEF CallSound, WriteSound, IoLike
  <2>8. PICK q : q = IF over THEN IoReturned(z) ELSE z
    OBVIOUS
  <2>9. /\ q \in IoRecords /\ IoLike(q, z) /\ q.at \in {"run", "returned"} /\ q.total = z.total
        /\ CallSound(q, broken)
    BY <2>6, <2>8, IoReturnedIs, <2>7, SoundReturned DEF IoLike
  <2>10. IoLike(q, r) /\ q.total = r.total + n /\ q.op # "read"
    BY <1>2, <2>6, <2>9 DEF IoLike
  <2>11. stream' = stream \o OwnFrom(r.id, r.total, n)
    BY <1>3, <2>4, <2>5, OwnUnitsIs
  <2>12. /\ ioLock' \in [IoFile \cup {"reader", "writer"} -> IoThread \cup {Unlocked}]
         /\ \A o \in IoFile : ioLock[o] \in IoThread \ {t} => ioLock'[o] = ioLock[o]
    BY <1>11, <2>4
  <2>13. IoGo(t, q) /\ broken \subseteq broken' /\ CallSound(q, broken') /\ r.total \in Int
         /\ q.at \in {"run", "wait", "returned"}
    BY <1>7, <2>4, <2>8, <2>9
  <2> QED BY <1>1, <1>2, <1>3, <1>4, <1>9, <2>5, <2>9, <2>10, <2>11, <2>12, <2>13, PutStep
<1>13. CASE ~ (n > 0)
  <2>1. /\ IF r.part > 0 \/ (ioSetup.kind = "socket" /\ r.total > 0)
           THEN IoGo(t, IoReturned(r)) /\ UNCHANGED broken
           ELSE IoAgain(t, r)
        /\ IoKeep(t, "writer", FALSE) /\ stream' = stream
    BY <1>1, <1>8, <1>13 DEF IoWriteChannel
  <2>2. /\ ioLock' \in [IoFile \cup {"reader", "writer"} -> IoThread \cup {Unlocked}]
        /\ \A o \in IoFile : ioLock[o] \in IoThread \ {t} =>
             ioLock'[o] = ioLock[o] /\ position'[o] = position[o]
    BY <1>10, <1>11, <2>1
  <2>3. \E q \in IoRecords :
             /\ IoGo(t, q) /\ IoLike(q, r) /\ CallSound(q, broken') /\ q.at \in {"wait", "returned"}
             /\ broken \subseteq broken' /\ (r.id \notin broken' => q.total = r.total)
    BY <1>2, <1>3, <1>5, AgainIs, IoReturnedIs, SoundReturned, <2>1
  <2>4. PICK q \in IoRecords :
             /\ IoGo(t, q) /\ IoLike(q, r) /\ CallSound(q, broken') /\ q.at \in {"wait", "returned"}
             /\ broken \subseteq broken' /\ (r.id \notin broken' => q.total = r.total)
    BY <2>3
  <2>5. ioCall'[t] = q
    BY <1>5, <2>4, IoGoIs
  <2>6. ReadHeld(t, ioCall[t])' /\ AppendHeld(t, ioCall[t])'
    BY <2>4, <2>5 DEF ReadHeld, AppendHeld
  <2>7. /\ drained' \in Nat /\ drained' <= Len(stream) /\ Len(stream) - drained' <= ChannelRoom
    BY <1>4, <1>6
  <2> QED BY <1>1, <1>3, <1>4, <1>5, <2>1, <2>2, <2>4, <2>6, <2>7, MoveStep
<1> QED BY <1>12, <1>13

(* A copy reads a chunk.                                                   *)
LEMMA FetchStep ==
    ASSUME IoInv, NEW t \in IoThread, Fetch(t)
    PROVE  IoInv'
<1>1. PICK r : r = ioCall[t]
  OBVIOUS
<1>2. /\ r.at = "run" /\ r.op \in {"sendfile", "copy"} /\ (r.place.from >= 0 \/ Lockable(t, r.from))
  BY <1>1 DEF Fetch, Copies
<1>3. r \in IoRecords /\ CallSound(r, broken)
  BY <1>1, <1>2, OwnIs
<1>4. CopySound(r, broken)
  BY <1>2, <1>3 DEF CallSound
<1>5. /\ content' = content /\ drained' = drained /\ stream' = stream /\ broken' = broken /\ ioLock' = ioLock
      /\ ioSetup' = ioSetup /\ appended' = appended /\ overrun' = overrun /\ ioCalls' = ioCalls
  BY DEF Fetch
<1>6. /\ IoTypes /\ content \in Seq(IoUnit) /\ position \in [IoFile -> Nat]
      /\ ioLock' \in [IoFile \cup {"reader", "writer"} -> IoThread \cup {Unlocked}]
      /\ drained' \in Nat /\ drained' <= Len(stream) /\ Len(stream) - drained' <= ChannelRoom
  BY <1>5 DEF IoInv, IoTypes
<1>7. PICK place : place = IF r.place.from >= 0 THEN r.place.from ELSE position[r.from]
  OBVIOUS
<1>8. r.from \in IoFile /\ r.place.from \in Int /\ r.total \in Nat /\ r.segments \in Seq(Nat)
  BY <1>3, <1>4, IoFields DEF CopySound
<1>9. place \in Nat
  BY <1>6, <1>8, <1>7
<1>10. Head(r.segments) \in Nat /\ r.total <= Head(r.segments)
  BY <1>4, <1>8, HeadTailProperties DEF CopySound
<1>11. PICK m : m = IoLesser(Head(r.segments) - r.total, ChunkSize)
  OBVIOUS
<1>12. m \in Nat /\ m <= Head(r.segments) - r.total
  BY FileIoAssumption, <1>8, <1>10, <1>11 DEF IoLesser
<1>13. PICK n : n = UnitsAt(place, m)
  OBVIOUS
<1>14. n \in Nat /\ n <= m /\ (n > 0 => place + n <= Len(content))
  BY <1>6, <1>9, <1>12, <1>13, UnitsAtIs
<1>15. /\ IoGo(t, IF n = 0 THEN IoReturned(r)
                  ELSE [r EXCEPT !.at = "deliver", !.took = @ + n,
                                 !.hand = SubSeq(content, place + 1, place + n)])
       /\ position' = IF r.place.from >= 0 THEN position ELSE [position EXCEPT ![r.from] = @ + n]
  BY <1>1, <1>7, <1>11, <1>13 DEF Fetch
<1>16. /\ position' \in [IoFile -> Nat]
       /\ \A o \in IoFile : ioLock[o] \in IoThread \ {t} =>
            ioLock'[o] = ioLock[o] /\ position'[o] = position[o]
  <2>1. CASE r.place.from >= 0
    BY <1>5, <1>6, <1>15, <2>1
  <2>2. CASE ~ (r.place.from >= 0)
    <3>1. position' = [position EXCEPT ![r.from] = @ + n] /\ Lockable(t, r.from)
      BY <1>2, <1>15, <2>2
    <3>2. position[r.from] + n \in Nat
      BY <1>6, <1>8, <1>14
    <3>3. position' \in [IoFile -> Nat] /\ \A o \in IoFile : o # r.from => position'[o] = position[o]
      BY <1>6, <3>1, <3>2
    <3>4. ioLock[r.from] \notin IoThread \ {t}
      BY <3>1, FileIoAssumption DEF Lockable
    <3> QED BY <1>5, <3>3, <3>4
  <2> QED BY <2>1, <2>2
<1>17. CASE n = 0
  <2>1. PICK q : q = IoReturned(r)
    OBVIOUS
  <2>2. /\ q \in IoRecords /\ IoLike(q, r) /\ q.at = "returned" /\ q.total = r.total
    BY <1>3, <2>1, IoReturnedIs
  <2>3. r.at # "deliver"
    BY <1>2
  <2>4. CallSound(q, broken')
    BY <1>3, <1>5, <2>1, <2>3, SoundReturned
  <2>5. IoGo(t, q) /\ ioCall'[t] = q
    BY <1>6, <1>15, <1>17, <2>1, <2>2, IoGoIs
  <2>6. ReadHeld(t, ioCall[t])' /\ AppendHeld(t, ioCall[t])'
    BY <2>2, <2>5 DEF ReadHeld, AppendHeld
  <2> QED BY <1>1, <1>3, <1>5, <1>6, <1>16, <2>2, <2>4, <2>5, <2>6, MoveStep
<1>18. CASE n # 0
  <2>1. PICK h : h = SubSeq(content, place + 1, place + n)
    OBVIOUS
  <2>2. h \in Seq(IoUnit) /\ Len(h) = n
    BY <1>6, <1>9, <1>14, <1>18, LenProperties, <2>1
  <2>3. PICK q : q = [r EXCEPT !.at = "deliver", !.took = @ + n, !.hand = h]
    OBVIOUS
  <2>4. /\ q \in IoRecords /\ IoLike(q, r) /\ q.at = "deliver" /\ q.total = r.total
    <3>1. r.took + n \in Nat
      BY <1>3, <1>14, IoFields
    <3> QED BY <1>3, <2>2, <2>3, <3>1 DEF IoRecords, IoLike
  <2>5. CallSound(q, broken')
    <3>1. r.total + n <= Head(r.segments) /\ n > 0
      BY <1>8, <1>10, <1>12, <1>14, <1>18
    <3> QED BY <1>2, <1>3, <1>5, <1>14, <2>2, <2>3, <3>1, SoundFetched
  <2>6. IoGo(t, q) /\ ioCall'[t] = q
    BY <1>6, <1>15, <1>18, <2>1, <2>3, <2>4, IoGoIs
  <2>7. ReadHeld(t, ioCall[t])' /\ AppendHeld(t, ioCall[t])'
    BY <2>4, <2>6 DEF ReadHeld, AppendHeld
  <2> QED BY <1>1, <1>3, <1>5, <1>6, <1>16, <2>4, <2>5, <2>6, <2>7, MoveStep
<1> QED BY <1>17, <1>18

(* A copy writes its chunk to the file.                                    *)
LEMMA DeliverFileStep ==
    ASSUME IoInv, NEW t \in IoThread, DeliverFile(t)
    PROVE  IoInv'
<1>1. PICK r : r = ioCall[t]
  OBVIOUS
<1>2. r.at = "deliver" /\ r.to \in IoFile /\ Lockable(t, r.to)
  BY <1>1 DEF DeliverFile
<1>3. r \in IoRecords /\ CallSound(r, broken)
  BY <1>1, <1>2, OwnIs
<1>4. r.op \in {"sendfile", "copy"}
  BY <1>3, IoFields, <1>2 DEF CallSound, ReadSound, WriteSound
<1>5. /\ stream' = stream /\ drained' = drained /\ ioCalls' = ioCalls /\ ioSetup' = ioSetup /\ broken' = broken
      /\ ioLock' = ioLock /\ overrun' = overrun
  BY DEF DeliverFile
<1>6. /\ IoTypes /\ content \in Seq(IoUnit) /\ position \in [IoFile -> Nat] /\ AppendsPlaced
      /\ ioLock' \in [IoFile \cup {"reader", "writer"} -> IoThread \cup {Unlocked}]
  BY <1>5 DEF IoInv, IoTypes
<1>7. r.hand \in Seq(IoUnit) /\ Len(r.hand) \in Nat /\ r.place.to \in Int
  BY <1>3, IoFields, LenProperties
<1>8. PICK n \in Nat : n = Len(r.hand)
  BY <1>7
<1>9. PICK place : place = IF r.place.to >= 0 THEN r.place.to ELSE position[r.to]
  OBVIOUS
<1>10. place \in Nat
  BY <1>2, <1>6, <1>7, <1>9
<1>11. PICK q : q = AfterDeliver(r, n)
  OBVIOUS
<1>12. /\ content' = Overwritten(place, r.hand)
       /\ position' = IF r.place.to >= 0 THEN position ELSE [position EXCEPT ![r.to] = @ + n]
       /\ ioCall' = [Outdating(t, r.to) EXCEPT ![t] = q]
       /\ ForgetAppended(Spoilt(place, Len(r.hand)))
  BY <1>1, <1>8, <1>9, <1>11 DEF DeliverFile
<1>13. n <= Len(r.hand) /\ ~ (n < Len(r.hand))
  BY <1>8
<1>14. q \in IoRecords /\ IoLike(q, r) /\ q.at \in {"run", "returned"}
  BY <1>3, <1>11, <1>13, AfterDeliverIs
<1>15. CallSound(q, broken)
  BY <1>2, <1>3, <1>4, <1>11, <1>13, SoundDelivered
<1>16. q.op # "read"
  BY <1>4, <1>14 DEF IoLike
<1>17. ioLock[r.to] \notin IoThread \ {t}
  BY <1>2, FileIoAssumption DEF Lockable
<1>18. /\ position' \in [IoFile -> Nat]
       /\ \A f \in IoFile : ioLock[f] \in IoThread \ {t} =>
            ioLock'[f] = ioLock[f] /\ position'[f] = position[f]
  BY <1>5, <1>6, <1>12, <1>2, <1>17
<1>19. /\ AppendsPlaced' /\ content' \in Seq(IoUnit)
       /\ \A x \in DOMAIN appended' \ overrun' : x \in DOMAIN appended \ overrun
  BY <1>5, <1>6, <1>7, <1>10, <1>12, PlacedForgotten
<1> QED BY <1>1, <1>2, <1>3, <1>5, <1>6, <1>12, <1>14, <1>15, <1>16, <1>17, <1>18, <1>19, StoreStep

(* A copy writes its chunk, or what there is room for, into the channel.   *)
LEMMA DeliverChannelStep ==
    ASSUME IoInv, NEW t \in IoThread, DeliverChannel(t)
    PROVE  IoInv'
<1>1. PICK r : r = ioCall[t]
  OBVIOUS
<1>2. r.at = "deliver" /\ r.to = "channel"
  BY <1>1 DEF DeliverChannel
<1>3. r \in IoRecords /\ CallSound(r, broken)
  BY <1>1, <1>2, OwnIs
<1>4. r.op \in {"sendfile", "copy"} /\ CopySound(r, broken)
  BY <1>3, IoFields, <1>2 DEF CallSound, ReadSound, WriteSound
<1>5. /\ content' = content /\ position' = position /\ drained' = drained /\ ioLock' = ioLock
      /\ ioSetup' = ioSetup /\ appended' = appended /\ overrun' = overrun /\ ioCalls' = ioCalls
  BY DEF DeliverChannel
<1>6. /\ IoTypes /\ ioLock' \in [IoFile \cup {"reader", "writer"} -> IoThread \cup {Unlocked}]
  BY <1>5 DEF IoInv, IoTypes
<1>7. /\ r.hand \in Seq(IoUnit) /\ Len(r.hand) \in Nat /\ r.place.from \in Int /\ r.start.from \in Int
      /\ r.took \in Nat /\ r.total \in Nat
  BY <1>3, IoFields, LenProperties
<1>8. IoRoom \in Nat
  BY <1>6, FileIoAssumption, LenProperties DEF IoTypes, IoRoom, IoQueued
<1>9. PICK w : w = IF r.place.to >= 0 THEN 0 ELSE IoLesser(Len(r.hand), IoRoom)
  OBVIOUS
<1>10. w \in Nat /\ w <= Len(r.hand) /\ w <= IoRoom
  BY <1>7, <1>8, <1>9 DEF IoLesser
<1>11. PICK b : b = IF r.place.from >= 0 THEN r.place.from - r.start.from ELSE r.took - Len(r.hand)
  OBVIOUS
<1>12. b \in Int
  BY <1>7, <1>11
<1>13. PICK q : q = IF w > 0 THEN AfterDeliver(r, w)
                    ELSE IF r.total > 0 \/ Nonblock \/ r.place.to >= 0 THEN IoReturned(r)
                    ELSE Retried(r)
  OBVIOUS
<1>14. /\ stream' = stream \o OwnFrom(r.id, b, w)
       /\ IoGo(t, q)
       /\ broken' = IF w < Len(r.hand) /\ (r.place.from < 0 \/ r.op = "copy")
                    THEN broken \cup {r.id} ELSE broken
  BY <1>1, <1>9, <1>11, <1>13 DEF DeliverChannel, OwnFrom
<1>15. /\ broken \subseteq broken'
       /\ (w < Len(r.hand) /\ (r.place.from < 0 \/ r.op = "copy")) => r.id \in broken'
  BY <1>14
<1>16. CallSound(r, broken')
  BY <1>3, <1>15, SoundMore
<1>17. Len(r.hand) > 0
  BY <1>2, <1>4 DEF CopySound
<1>18. w = 0 => (r.id \in broken' \/ r.start.from >= 0)
  BY <1>3, <1>7, <1>15, <1>17 DEF CallSound
<1>19. /\ q \in IoRecords /\ IoLike(q, r) /\ q.at \in {"run", "wait", "returned"}
       /\ q.total = r.total + w /\ CallSound(q, broken')
  <2>1. CASE w > 0
    BY <1>13, <2>1, <1>3, <1>10, AfterDeliverIs, <1>2, <1>4, <1>15, SoundDelivered
  <2>2. CASE w = 0 /\ (r.total > 0 \/ Nonblock \/ r.place.to >= 0)
    BY <2>2, <1>7, <1>13, <1>3, IoReturnedIs, <1>16, <1>18, SoundReturned
  <2>3. CASE w = 0 /\ ~ (r.total > 0 \/ Nonblock \/ r.place.to >= 0)
    BY <2>3, <1>7, <1>13, <1>3, RetriedIs, <1>4, <1>16, <1>18, SoundRetried
  <2>4. w > 0 \/ w = 0
    BY <1>10
  <2> QED BY <2>1, <2>2, <2>3, <2>4
<1>20. r.id \notin broken' => b = r.total
  BY <1>15, <1>3, <1>4, <1>11, <1>7, <1>2 DEF CallSound, CopySound
<1>21. q.op # "read"
  BY <1>4, <1>19 DEF IoLike
<1> QED BY <1>1, <1>2, <1>3, <1>5, <1>6, <1>10, <1>12, <1>14, <1>15, <1>19, <1>20, <1>21, PutStep

(* The inductive invariant holds at first.                                 *)
LEMMA IoInitially == IoInit => IoInv
<1> SUFFICES ASSUME IoInit PROVE IoInv
  OBVIOUS
<1>1. \A t \in IoThread : ioCall[t] = IoIdle /\ ioCall[t].at = "idle"
  BY DEF IoInit, IoIdle
<1>2. content \in Seq(IoUnit)
  BY FileIoAssumption DEF IoInit, IoUnit
<1>3. /\ ioLock \in [IoFile \cup {"reader", "writer"} -> IoThread \cup {Unlocked}]
      /\ position \in [IoFile -> Nat] /\ ioCall \in [IoThread -> IoRecords \cup {IoIdle}]
  BY DEF IoInit, IoIdle
<1>4. /\ stream \in Seq(IoUnit) /\ Len(stream) = 0 /\ drained = 0 /\ ioCalls = 0 /\ ioSetup \in IoSetups
      /\ ChannelRoom \in Nat
  BY FileIoAssumption DEF IoInit
<1>5. IoTypes
  BY <1>2, <1>3, <1>4 DEF IoTypes
<1>6. DOMAIN stream = {}
  BY DEF IoInit
<1>7. IoIds
  BY <1>1, <1>6 DEF IoIds
<1>8. CallsSound /\ CallsHeld
  BY <1>1 DEF CallsSound, CallsHeld, ReadHeld, AppendHeld
<1>9. DOMAIN appended = {}
  BY DEF IoInit
<1>10. AppendsPlaced
  BY <1>9 DEF AppendsPlaced, AppendsKept
<1>11. StreamSound
  BY <1>1, <1>6 DEF StreamSound, StreamInOrder, StreamFor
<1> QED BY <1>5, <1>7, <1>8, <1>10, <1>11 DEF IoInv

(* Every step keeps the inductive invariant.                               *)
LEMMA IoSteps == IoInv /\ [IoNext]_ioVars => IoInv'
<1> SUFFICES ASSUME IoInv, [IoNext]_ioVars PROVE IoInv'
  OBVIOUS
<1>1. CASE IoNext
  <2>1. PICK t \in IoThread :
          \/ \E o \in ioSetup.places, v \in IoVectors : ReadCall(t, o, v) \/ WriteCall(t, o, v)
          \/ \E o \in IoFile, v \in IoVectors, p \in {1} : PreadCall(t, o, v, p) \/ PwriteCall(t, o, v, p)
          \/ \E o \in IoFile, to \in ioSetup.places, p \in {-1, 0} :
               \/ Sendfile(t, o, to, FirstLength, p)
               \/ \E q \in {-1, 1} : CopyFileRange(t, o, to, FirstLength, p, q)
          \/ \E o \in IoFile, w \in {"SET", "CUR", "END"}, k \in {-1, 0} : Lseek(t, o, w, k)
          \/ IoWake(t) \/ IoReadChannel(t) \/ IoReadFile(t) \/ AppendAt(t) \/ IoWriteFile(t) \/ IoWriteChannel(t)
          \/ Fetch(t) \/ DeliverFile(t) \/ DeliverChannel(t)
    BY <1>1 DEF IoNext
  <2>2. CASE \/ \E o \in ioSetup.places, v \in IoVectors : ReadCall(t, o, v) \/ WriteCall(t, o, v)
             \/ \E o \in IoFile, v \in IoVectors, p \in {1} : PreadCall(t, o, v, p) \/ PwriteCall(t, o, v, p)
             \/ \E o \in IoFile, to \in ioSetup.places, p \in {-1, 0} :
                  \/ Sendfile(t, o, to, FirstLength, p)
                  \/ \E q \in {-1, 1} : CopyFileRange(t, o, to, FirstLength, p, q)
    BY <2>2, StartsStep
  <2>3. CASE \E o \in IoFile, w \in {"SET", "CUR", "END"}, k \in {-1, 0} : Lseek(t, o, w, k)
    BY <2>3, LseekStep
  <2>4. CASE IoWake(t)
    BY <2>4, WakeStep
  <2>5. CASE IoReadChannel(t)
    BY <2>5, ReadChannelStep
  <2>6. CASE IoReadFile(t)
    BY <2>6, ReadFileStep
  <2>7. CASE AppendAt(t)
    BY <2>7, AppendAtStep
  <2>8. CASE IoWriteFile(t)
    BY <2>8, WriteFileStep
  <2>9. CASE IoWriteChannel(t)
    BY <2>9, WriteChannelStep
  <2>10. CASE Fetch(t)
    BY <2>10, FetchStep
  <2>11. CASE DeliverFile(t)
    BY <2>11, DeliverFileStep
  <2>12. CASE DeliverChannel(t)
    BY <2>12, DeliverChannelStep
  <2> QED BY <2>1, <2>2, <2>3, <2>4, <2>5, <2>6, <2>7, <2>8, <2>9, <2>10, <2>11, <2>12
<1>2. CASE UNCHANGED ioVars
  <2>1. /\ content' = content /\ position' = position /\ stream' = stream /\ drained' = drained
        /\ ioLock' = ioLock /\ ioCall' = ioCall /\ ioCalls' = ioCalls /\ ioSetup' = ioSetup
        /\ appended' = appended /\ overrun' = overrun /\ broken' = broken
    BY <1>2 DEF ioVars
  <2>2. IoTypes' /\ IoIds'
    BY <2>1 DEF IoInv, IoTypes, IoIds
  <2>3. CallsSound'
    BY <2>1 DEF IoInv, CallsSound
  <2>4. CallsHeld'
    BY <2>1 DEF IoInv, CallsHeld, ReadHeld, AppendHeld
  <2>5. AppendsPlaced' /\ StreamSound'
    BY <2>1, ZenonT(40) DEF IoInv, AppendsPlaced, AppendsKept, StreamSound, StreamInOrder, StreamFor
  <2> QED BY <2>2, <2>3, <2>4, <2>5 DEF IoInv
<1> QED BY <1>1, <1>2

(* The inductive invariant says that every call tells the truth.           *)
LEMMA IoTells == IoInv => IoTold
<1> SUFFICES ASSUME IoInv PROVE IoTold
  OBVIOUS
<1>1. AppendsKept /\ StreamInOrder
  BY DEF IoInv, AppendsPlaced, StreamSound
<1>2. TruthTold
  BY OwnIs, IoFields DEF TruthTold, CallSound, ReadSound, WriteSound, CopySound
<1> QED BY <1>1, <1>2 DEF IoTold

(* No call on an open file loses, repeats or misreports data, for any      *)
(* threads, open files, vectors, lengths and room: what read, write,       *)
(* sendfile and copy_file_range return is what they have done, appends     *)
(* stay, and what goes into a pipe, a socket or a terminal comes out in    *)
(* order, but for the calls that got EAGAIN after they had moved something *)
(* (handlers/fd and file.rs).                                              *)
THEOREM IoTelling == IoSpec => []IoTold
BY IoInitially, IoSteps, IoTells, PTL DEF IoSpec

---------------------------------------------------------------------------
(* Inotify                                                                 *)

\* f is a function.
InoFcn(f) == f = [x \in DOMAIN f |-> f[x]]
\* Registrations, events and the records of calls
InoReg == InoFile \X (1..MaxWd)
InoHeard == {"create", "attrib", "delete", "delete_self", "moved_from", "moved_to", "move_self"}
InoNotice == [target : WatchTarget, event : InoHeard, remove : BOOLEAN]
InoMasks == SUBSET UNION WatchMasks
InoSimple == [at : {"register", "ignore", "unregister"}, target : WatchTarget, reg : InoReg]
InoLong == [at : Dispatching, notices : Seq(InoNotice), long : BOOLEAN,
            regs : Seq(InoReg), once : Seq(InoReg), reg : InoReg \cup {<<>>}]
InoCallOf == {InoIdle} \cup InoSimple \cup InoLong

InoTypeOK ==
    /\ nextWd \in [InoFile -> 1..(MaxWd + 1)]
    /\ watches = [i \in InoFile |-> watches[i]]
    /\ \A i \in InoFile : /\ DOMAIN watches[i] \subseteq 1..(nextWd[i] - 1)
                          /\ InoFcn(watches[i])
                          /\ \A wd \in DOMAIN watches[i] : watches[i][wd] \in [target : WatchTarget, mask : InoMasks]
    /\ registry \in [WatchTarget -> Seq(InoReg)]
    /\ inoOpen \subseteq InoFile
    /\ inoQueue \in [InoFile -> Seq([wd : 1..MaxWd, event : InoHeard \cup {"ignored"}])]
    /\ inoCall \in [InoThread -> InoCallOf]
    /\ ignored \in [InoFile -> [1..MaxWd -> Nat]]
\* What a call has in its hands, by what it is at
InoFormedCall(c) == c.at \in Dispatching =>
    /\ c.notices # <<>>
    /\ c.at = "deliver" => c.regs # <<>>
    /\ c.at \in {"drop", "forget", "tell"} => c.reg \in InoReg
    /\ c.at \in {"take", "look", "deliver"} => c.reg = <<>>
    /\ c.at = "take" => c.regs = <<>> /\ c.once = <<>>
InoFormed == \A t \in InoThread : InoFormedCall(inoCall[t])

\* r is an element of the sequence s.
InoIn(r, s) == \E k \in DOMAIN s : s[k] = r
\* The watch r is in its file.
InoListed(r) == r[2] \in DOMAIN watches[r[1]]
\* The call c has r in its hands, as a watch of tg.
InoNames(c, r, tg) ==
    \/ c.at \in {"register", "ignore", "unregister"} /\ c.reg = r /\ c.target = tg
    \/ /\ c.at \in Dispatching /\ Head(c.notices).target = tg
       /\ c.reg = r \/ InoIn(r, c.regs) \/ InoIn(r, c.once)
\* Somebody says that r watches tg: its file, the registry or a call.
InoMentioned(r, tg) ==
    \/ InoListed(r) /\ watches[r[1]][r[2]].target = tg
    \/ InoIn(r, registry[tg])
    \/ \E t \in InoThread : InoNames(inoCall[t], r, tg)
\* All mentions of a watch agree on its target, and it has been given out.
InoHomes == \A r \in InoReg, a \in WatchTarget : InoMentioned(r, a) =>
    /\ r[2] < nextWd[r[1]]
    /\ \A b \in WatchTarget : InoMentioned(r, b) => a = b

\* Calls that will register r or end it
InoEnds(c, r) ==
    \/ c.at = "register" /\ c.reg = r
    \/ /\ c.at \in Dispatching
       /\ \/ c.at = "drop" /\ c.reg = r
          \/ InoIn(r, c.once)
          \/ Head(c.notices).remove /\ InoIn(r, c.regs)
\* A listed watch is registered, or a call will register or end it.
InoFound == \A r \in InoReg : r[1] \in inoOpen /\ InoListed(r) =>
    \/ InoIn(r, registry[watches[r[1]][r[2]].target])
    \/ \E t \in InoThread : InoEnds(inoCall[t], r)
\* The call that delivers to r
InoDelivers(c, r) == c.at = "deliver" /\ Head(c.regs) = r
\* An event is delivered to a watch that is listed, or was a moment ago.
InoTold == \A t \in InoThread, r \in InoReg : InoDelivers(inoCall[t], r) =>
    /\ InoListed(r) \/ r \in inoPast
    /\ Head(inoCall[t].notices).remove => InoIn(r, inoCall[t].once)

\* The calls that will unregister r
InoClears(c, r) == c.at \in {"ignore", "unregister", "forget"} /\ c.reg = r
\* A registration without a watch has a call that clears it.
InoCleared == \A r \in InoReg, tg \in WatchTarget : r[1] \in inoOpen /\ InoIn(r, registry[tg]) =>
    InoListed(r) \/ r \in inoPast \/ \E t \in InoThread : InoClears(inoCall[t], r)

\* The calls that will push IN_IGNORED for r
InoAnnounces(c, r) == c.at \in {"ignore", "forget", "tell"} /\ c.reg = r
\* What a call clears has been taken out.
InoGone == \A t \in InoThread, r \in InoReg : InoClears(inoCall[t], r) => ~InoListed(r) /\ r[2] < nextWd[r[1]]
\* A watch that ended has one call that will announce it, or has been announced.
InoOnceOf(r) ==
    /\ InoListed(r) \/ ~(r[2] < nextWd[r[1]]) =>
         ignored[r[1]][r[2]] = 0 /\ \A t \in InoThread : ~InoAnnounces(inoCall[t], r)
    /\ ~InoListed(r) /\ r[2] < nextWd[r[1]] =>
         \/ ignored[r[1]][r[2]] = 0 /\ \E t \in InoThread : InoAnnounces(inoCall[t], r)
         \/ ignored[r[1]][r[2]] = 1 /\ \A t \in InoThread : ~InoAnnounces(inoCall[t], r)
    /\ \A t, u \in InoThread : InoAnnounces(inoCall[t], r) /\ InoAnnounces(inoCall[u], r) => t = u
InoOnce == \A r \in InoReg : InoOnceOf(r)
\* IN_IGNORED is the last event of its watch.
InoQueuedOf(i) ==
    /\ \A j \in DOMAIN inoQueue[i] : inoQueue[i][j].event = "ignored" => ignored[i][inoQueue[i][j].wd] # 0
    /\ \A j, k \in DOMAIN inoQueue[i] :
           (j < k /\ inoQueue[i][j].event = "ignored" /\ inoQueue[i][k].wd = inoQueue[i][j].wd)
             => <<i, inoQueue[i][j].wd>> \in inoPast
InoQueued == \A i \in InoFile : InoQueuedOf(i)
InoInv == /\ InoTypeOK /\ InoFormed /\ InoHomes /\ InoFound /\ InoTold /\ InoCleared
          /\ InoGone /\ InoOnce /\ InoQueued

(* A set of natural numbers that is not empty has a least one: induction,  *)
(* for sets.                                                               *)
LEMMA LeastOf ==
    ASSUME NEW S, S \subseteq Nat, S # {}
    PROVE  \E n \in S : \A k \in S : n <= k
<1> DEFINE R == {ss \in Nat \X Nat : ss[1] < ss[2]}
<1>1. IsWellFoundedOn(R, Nat)
  BY NatLessThanWellFounded DEF OpToRel
<1>2. PICK x \in S : \A y \in S : <<y, x>> \notin R
  <2> HIDE DEF R
  <2> QED BY <1>1, WFMin
<1>3. ASSUME NEW y \in S PROVE x <= y
  <2>1. x \in Nat /\ y \in Nat
    OBVIOUS
  <2>2. ~(y < x)
    BY <2>1, <1>2
  <2> QED BY <2>1, <2>2
<1> QED BY <1>3

(* f has what Retain keeps of the first n elements of s, for n up to m.    *)
IsKept(f, s, S, m) ==
    f = [n \in 0..m |-> IF n = 0 THEN <<>>
                        ELSE IF s[n] \in S THEN Append(f[n - 1], s[n]) ELSE f[n - 1]]

(* The recursive definition in Retain has a solution.                      *)
LEMMA KeptExists ==
    ASSUME NEW s, NEW S, NEW m \in Nat
    PROVE  \E f : IsKept(f, s, S, m)
<1> DEFINE bad == {n \in Nat : ~\E f : IsKept(f, s, S, n)}
<1>1. SUFFICES ASSUME m \in bad PROVE FALSE
  OBVIOUS
<1>2. PICK n \in bad : \A k \in bad : n <= k
  <2> HIDE DEF bad
  <2>1. bad \subseteq Nat
    BY DEF bad
  <2> QED BY <1>1, <2>1, LeastOf
<1>3. CASE n = 0
  <2>1. IsKept([i \in 0..0 |-> <<>>], s, S, 0)
    BY DEF IsKept
  <2> QED BY <2>1, <1>2, <1>3
<1>4. CASE n # 0
  <2>1. n - 1 \in Nat /\ n - 1 \notin bad
    BY <1>2, <1>4
  <2>2. PICK f : IsKept(f, s, S, n - 1)
    BY <2>1
  <2> DEFINE last == IF s[n] \in S THEN Append(f[n - 1], s[n]) ELSE f[n - 1]
             g == [i \in 0..n |-> IF i = n THEN last ELSE f[i]]
  <2>3. \A i \in 0..n : g[i] = IF i = n THEN last ELSE f[i]
    OBVIOUS
  <2>4. \A i \in 0..(n - 1) : f[i] = IF i = 0 THEN <<>>
                                     ELSE IF s[i] \in S THEN Append(f[i - 1], s[i]) ELSE f[i - 1]
    BY <2>2 DEF IsKept
  <2>5. \A i \in 0..n : g[i] = IF i = 0 THEN <<>>
                               ELSE IF s[i] \in S THEN Append(g[i - 1], s[i]) ELSE g[i - 1]
    <3> HIDE DEF g
    <3> QED BY <2>3, <2>4, <1>2, <1>4
  <2>6. IsKept(g, s, S, n)
    BY <2>5 DEF IsKept
  <2> QED BY <2>6, <1>2
<1> QED BY <1>3, <1>4

(* What is in a sequence that was made longer.                             *)
LEMMA InAppend ==
    ASSUME NEW T, NEW s \in Seq(T), NEW e \in T
    PROVE  Append(s, e) \in Seq(T) /\ \A x : InoIn(x, Append(s, e)) <=> InoIn(x, s) \/ x = e
<1>1. Len(s) \in Nat /\ DOMAIN s = 1..Len(s) /\ Append(s, e) \in Seq(T) /\ Len(Append(s, e)) = Len(s) + 1
  OBVIOUS
<1>2. /\ DOMAIN Append(s, e) = 1..(Len(s) + 1) /\ Append(s, e)[Len(s) + 1] = e
      /\ \A k \in 1..Len(s) : Append(s, e)[k] = s[k]
  OBVIOUS
<1>3. \A k \in 1..(Len(s) + 1) : k = Len(s) + 1 \/ k \in 1..Len(s)
  BY <1>1
<1>4. Len(s) + 1 \in 1..(Len(s) + 1) /\ \A k \in 1..Len(s) : k \in 1..(Len(s) + 1)
  BY <1>1
<1> QED BY <1>1, <1>2, <1>3, <1>4, Zenon DEF InoIn

(* What is in a sequence is its first element or in the rest of it.        *)
LEMMA InTail ==
    ASSUME NEW T, NEW s \in Seq(T), s # <<>>
    PROVE  /\ Head(s) \in T /\ Tail(s) \in Seq(T)
           /\ \A x : InoIn(x, s) <=> x = Head(s) \/ InoIn(x, Tail(s))
<1>1. Len(s) \in Nat /\ Len(s) > 0 /\ DOMAIN s = 1..Len(s) /\ Head(s) = s[1] /\ Tail(s) \in Seq(T)
  OBVIOUS
<1>2. DOMAIN Tail(s) = 1..(Len(s) - 1) /\ \A k \in 1..(Len(s) - 1) : Tail(s)[k] = s[k + 1]
  OBVIOUS
<1>3. ASSUME NEW x, InoIn(x, s) PROVE x = Head(s) \/ InoIn(x, Tail(s))
  <2>1. PICK k \in 1..Len(s) : s[k] = x
    BY <1>1, <1>3 DEF InoIn
  <2>2. CASE k = 1
    BY <1>1, <2>1, <2>2
  <2>3. CASE k # 1
    <3>1. k - 1 \in 1..(Len(s) - 1) /\ (k - 1) + 1 = k
      BY <1>1, <2>3
    <3> QED BY <1>2, <2>1, <3>1 DEF InoIn
  <2> QED BY <2>2, <2>3
<1>4. ASSUME NEW x, InoIn(x, Tail(s)) PROVE InoIn(x, s)
  BY <1>2, <1>4, <1>1 DEF InoIn
<1>5. s[1] \in T /\ InoIn(s[1], s)
  BY <1>1 DEF InoIn
<1> QED BY <1>1, <1>3, <1>4, <1>5

(* Nothing is in the empty sequence.                                       *)
LEMMA InEmpty == \A x : ~InoIn(x, <<>>)
  BY DEF InoIn

(* Retain keeps what is in S, and nothing else.                            *)
LEMMA InRetain ==
    ASSUME NEW T, NEW s \in Seq(T), NEW S
    PROVE  Retain(s, S) \in Seq(T) /\ \A x : InoIn(x, Retain(s, S)) <=> InoIn(x, s) /\ x \in S
<1>1. Len(s) \in Nat /\ DOMAIN s = 1..Len(s) /\ \A k \in 1..Len(s) : s[k] \in T
  OBVIOUS
<1>2. PICK f : IsKept(f, s, S, Len(s)) /\ Retain(s, S) = f[Len(s)]
  <2> DEFINE g == CHOOSE x : IsKept(x, s, S, Len(s))
  <2>1. IsKept(g, s, S, Len(s))
    BY <1>1, KeptExists
  <2>2. Retain(s, S) = g[Len(s)]
    BY DEF Retain, IsKept
  <2> QED BY <2>1, <2>2
<1>3. \A n \in 0..Len(s) : f[n] = IF n = 0 THEN <<>>
                                   ELSE IF s[n] \in S THEN Append(f[n - 1], s[n]) ELSE f[n - 1]
  BY <1>2 DEF IsKept
<1> DEFINE Right(n) == f[n] \in Seq(T) /\ \A x : InoIn(x, f[n]) <=> x \in S /\ \E k \in 1..n : s[k] = x
           bad == {n \in 0..Len(s) : ~Right(n)}
<1>4. ASSUME bad # {} PROVE FALSE
  <2>1. PICK n \in bad : \A k \in bad : n <= k
    <3>1. bad \subseteq Nat
      BY <1>1
    <3> HIDE DEF bad
    <3> QED BY <1>4, <3>1, LeastOf
  <2>2. n \in 0..Len(s) /\ ~Right(n)
    OBVIOUS
  <2>3. CASE n = 0
    <3>1. f[0] = <<>>
      BY <1>1, <1>3
    <3>2. f[0] \in Seq(T) /\ \A x : ~InoIn(x, f[0])
      BY <3>1, InEmpty
    <3>3. \A k : k \notin 1..0
      OBVIOUS
    <3>4. Right(0)
      BY <3>2, <3>3
    <3> QED BY <2>2, <2>3, <3>4
  <2>4. CASE n # 0
    <3>1. n - 1 \in 0..Len(s) /\ n \in 1..Len(s) /\ ~(n <= n - 1)
      BY <1>1, <2>2, <2>4
    <3>2. Right(n - 1)
      BY <2>1, <3>1
    <3>3. \A k : k \in 1..n <=> k \in 1..(n - 1) \/ k = n
      BY <3>1
    <3>4. f[n] = IF s[n] \in S THEN Append(f[n - 1], s[n]) ELSE f[n - 1]
      BY <1>3, <2>2, <2>4
    <3>5. s[n] \in T
      BY <1>1, <3>1
    <3>6. /\ Append(f[n - 1], s[n]) \in Seq(T)
          /\ \A x : InoIn(x, Append(f[n - 1], s[n])) <=> InoIn(x, f[n - 1]) \/ x = s[n]
      BY <3>2, <3>5, InAppend
    <3>7. Right(n)
      BY <3>2, <3>4, <3>6, <3>3
    <3> QED BY <2>2, <3>7
  <2> QED BY <2>3, <2>4
<1>5. Right(Len(s))
  BY <1>1, <1>4
<1> QED BY <1>1, <1>2, <1>5 DEF InoIn

\* What is said of the watches
InoParts == InoHomes /\ InoFound /\ InoTold /\ InoCleared /\ InoGone
\* The call of thread t becomes d.
InoMoves(t, d) == inoCall' = [inoCall EXCEPT ![t] = d]

(* A call that has not begun has no watch in its hands.                    *)
LEMMA InoIdleNames ==
    ASSUME NEW r, NEW tg
    PROVE  /\ ~InoNames(InoIdle, r, tg) /\ ~InoEnds(InoIdle, r) /\ ~InoDelivers(InoIdle, r)
           /\ ~InoClears(InoIdle, r) /\ ~InoAnnounces(InoIdle, r) /\ InoIdle.at \notin Dispatching
  BY DEF InoNames, InoEnds, InoDelivers, InoClears, InoAnnounces, InoIdle, Dispatching

\* The call of t becomes d and carries on what it had in its hands.
InoCarries(t, d) ==
    /\ \A r \in InoReg, tg \in WatchTarget : InoNames(d, r, tg) => InoMentioned(r, tg)
    /\ \A r \in InoReg, tg \in WatchTarget : InoIn(r, registry'[tg]) => InoIn(r, registry[tg])
    /\ \A r \in InoReg : r[1] \in inoOpen /\ InoListed(r) =>
         LET tg == watches[r[1]][r[2]].target
         IN  InoIn(r, registry[tg]) \/ InoEnds(inoCall[t], r) => InoIn(r, registry'[tg]) \/ InoEnds(d, r)
    /\ \A r \in InoReg : InoDelivers(d, r) =>
         (InoListed(r) \/ r \in inoPast) /\ (Head(d.notices).remove => InoIn(r, d.once))
    /\ \A r \in InoReg, tg \in WatchTarget :
         InoClears(inoCall[t], r) /\ r[1] \in inoOpen /\ InoIn(r, registry'[tg]) => InoClears(d, r)
    /\ \A r \in InoReg : InoClears(d, r) => InoClears(inoCall[t], r)

(* A step that leaves the watches as they are keeps what is said of them,  *)
(* when what its call had in its hands is carried on.                      *)
LEMMA InoMoved ==
    ASSUME InoTypeOK, InoParts, NEW t \in InoThread, NEW d, InoMoves(t, d), InoCarries(t, d),
           UNCHANGED <<watches, nextWd, inoOpen, inoPast>>
    PROVE  InoParts'
<1>1. inoCall'[t] = d /\ \A u \in InoThread : u # t => inoCall'[u] = inoCall[u]
  BY DEF InoTypeOK, InoMoves
<1>2. \A r : InoListed(r)' <=> InoListed(r)
  BY DEF InoListed
<1>3. InoHomes'
  BY <1>1, <1>2 DEF InoMentioned, InoCarries, InoParts, InoHomes
<1>4. InoFound'
  BY <1>1, <1>2, Zenon DEF InoParts, InoCarries, InoFound
<1>5. InoTold'
  BY <1>1, <1>2, Zenon DEF InoParts, InoCarries, InoTold
<1>6. InoCleared'
  BY <1>1, <1>2, Zenon DEF InoParts, InoCarries, InoCleared
<1>7. InoGone'
  BY <1>1, <1>2, Zenon DEF InoParts, InoCarries, InoGone
<1> QED BY <1>3, <1>4, <1>5, <1>6, <1>7 DEF InoParts

(* A step that announces nothing and ends no watch: each watch still has   *)
(* its one announcement.                                                   *)
LEMMA InoSilent ==
    ASSUME InoTypeOK, InoOnce, NEW t \in InoThread, NEW d, InoMoves(t, d),
           UNCHANGED <<watches, nextWd, ignored>>,
           \A r \in InoReg : InoAnnounces(d, r) <=> InoAnnounces(inoCall[t], r)
    PROVE  InoOnce'
  BY DEF InoTypeOK, InoMoves, InoListed, InoOnce, InoOnceOf

(* A watch is taken out of its file: the call that took it out clears its  *)
(* registration and announces it, and no other call does.                  *)
LEMMA InoDropped ==
    ASSUME InoTypeOK, InoParts, InoOnce, NEW t \in InoThread, NEW d, InoMoves(t, d),
           NEW r \in InoReg, InoListed(r), Dropped(r),
           UNCHANGED <<nextWd, registry, inoOpen, ignored>>,
           \A q \in InoReg : InoClears(d, q) \/ InoAnnounces(d, q) => q = r,
           InoClears(d, r) /\ InoAnnounces(d, r),
           \A q \in InoReg : ~InoDelivers(d, q) /\ ~InoClears(inoCall[t], q) /\ ~InoAnnounces(inoCall[t], q),
           \A q \in InoReg, tg \in WatchTarget : InoNames(d, q, tg) => InoMentioned(q, tg),
           \A q \in InoReg : q # r /\ InoEnds(inoCall[t], q) => InoEnds(d, q)
    PROVE  InoParts' /\ InoOnce'
<1>1. inoCall'[t] = d /\ \A u \in InoThread : u # t => inoCall'[u] = inoCall[u]
  BY DEF InoTypeOK, InoMoves
<1>2. /\ \A q \in InoReg : InoListed(q)' <=> InoListed(q) /\ q # r
      /\ \A q \in InoReg : q # r /\ InoListed(q) => watches'[q[1]][q[2]] = watches[q[1]][q[2]]
  <2>1. watches' = [watches EXCEPT ![r[1]] = Without(watches[r[1]], r[2])] /\ r[1] \in InoFile /\ DOMAIN watches = InoFile
    BY DEF Dropped, InoReg, InoTypeOK
  <2>2. \A q \in InoReg : q = <<q[1], q[2]>> /\ q[1] \in InoFile
    BY DEF InoReg
  <2>3. \A q \in InoReg : q = r <=> q[1] = r[1] /\ q[2] = r[2]
    BY <2>2
  <2>4. DOMAIN watches'[r[1]] = DOMAIN watches[r[1]] \ {r[2]} /\ \A wd \in DOMAIN watches'[r[1]] : watches'[r[1]][wd] = watches[r[1]][wd]
    BY <2>1 DEF Without
  <2>5. \A i \in InoFile : i # r[1] => watches'[i] = watches[i]
    BY <2>1
  <2> QED BY <2>2, <2>3, <2>4, <2>5 DEF InoListed
<1>3. \A q \in InoReg : q \in inoPast' <=> q \in inoPast \/ (q = r /\ Delivering(r))
  BY DEF Dropped
<1>4. InoHomes'
  BY <1>1, <1>2 DEF InoMentioned, InoParts, InoHomes
<1>5. InoFound'
  BY <1>1, <1>2, Zenon DEF InoParts, InoFound
<1>6. InoTold'
  BY <1>1, <1>2, <1>3 DEF InoDelivers, Delivering, InoParts, InoTold
<1>7. InoCleared'
  BY <1>1, <1>2, <1>3, Zenon DEF InoParts, InoCleared
<1>8. r[2] < nextWd[r[1]]
  BY DEF InoListed, InoTypeOK, InoReg
<1>9. InoGone'
  BY <1>1, <1>2, <1>8 DEF InoParts, InoGone
<1>10. ASSUME NEW q \in InoReg, NEW u \in InoThread
       PROVE  InoAnnounces(inoCall'[u], q) <=> (IF u = t THEN q = r ELSE InoAnnounces(inoCall[u], q))
  BY <1>1
<1>11. ASSUME NEW q \in InoReg PROVE InoOnceOf(q)'
  BY <1>2, <1>8, <1>10 DEF InoOnce, InoOnceOf
<1>12. InoOnce'
  BY <1>11, Zenon DEF InoOnce
<1> QED BY <1>4, <1>5, <1>6, <1>7, <1>9, <1>12 DEF InoParts

\* What is read from an inotify file
InoEvent == [wd : 1..MaxWd, event : InoHeard \cup {"ignored"}]

(* An event is pushed: nothing follows IN_IGNORED of its watch but for a   *)
(* watch that ended while an event for it was under way.                   *)
LEMMA InoPushed ==
    ASSUME InoTypeOK, InoQueued, NEW i \in InoFile, NEW e \in InoEvent,
           inoQueue' = [inoQueue EXCEPT ![i] = Append(@, e)],
           \A k \in InoFile, wd \in 1..MaxWd : ignored[k][wd] # 0 => ignored'[k][wd] # 0,
           inoPast \subseteq inoPast',
           e.event = "ignored" => ignored'[i][e.wd] # 0,
           ignored[i][e.wd] # 0 => <<i, e.wd>> \in inoPast'
    PROVE  InoQueued' /\ inoQueue' \in [InoFile -> Seq(InoEvent)]
<1>1. inoQueue \in [InoFile -> Seq(InoEvent)]
  BY DEF InoTypeOK, InoEvent
<1>2. PICK s : s = inoQueue[i]
  OBVIOUS
<1>3. s \in Seq(InoEvent) /\ inoQueue'[i] = Append(s, e) /\ \A k \in InoFile : k # i => inoQueue'[k] = inoQueue[k]
  BY <1>1, <1>2
<1>4. inoQueue' \in [InoFile -> Seq(InoEvent)]
  BY <1>3, AppendProperties, <1>1, <1>2
<1>5. /\ Len(s) \in Nat /\ DOMAIN s = 1..Len(s) /\ DOMAIN Append(s, e) = 1..(Len(s) + 1)
      /\ Append(s, e)[Len(s) + 1] = e /\ \A k \in 1..Len(s) : Append(s, e)[k] = s[k] /\ s[k] \in InoEvent
  BY <1>3, AppendProperties
<1>6. ASSUME NEW j \in 1..(Len(s) + 1), Append(s, e)[j].event = "ignored"
      PROVE  ignored'[i][Append(s, e)[j].wd] # 0
  <2>1. CASE j = Len(s) + 1
    BY <1>5, <1>6, <2>1
  <2>2. CASE j \in 1..Len(s)
    BY <1>5, <2>2, <1>2, <1>6 DEF InoEvent, InoQueued, InoQueuedOf
  <2> QED BY <1>5, <2>1, <2>2
<1>7. ASSUME NEW j \in 1..(Len(s) + 1), NEW k \in 1..(Len(s) + 1), j < k, Append(s, e)[j].event = "ignored",
             Append(s, e)[k].wd = Append(s, e)[j].wd
      PROVE  <<i, Append(s, e)[j].wd>> \in inoPast'
  <2>1. j \in 1..Len(s)
    BY <1>5, <1>7
  <2>2. CASE k = Len(s) + 1
    <3>1. s[j].event = "ignored" /\ s[j].wd = e.wd
      BY <1>5, <1>7, <2>1, <2>2
    <3>2. ignored[i][e.wd] # 0
      BY <1>2, <1>5, <2>1, <3>1 DEF InoQueued, InoQueuedOf
    <3> QED BY <1>5, <2>1, <3>1, <3>2
  <2>3. CASE k \in 1..Len(s)
    BY <1>2, <1>5, <1>7, <2>1, <2>3 DEF InoQueued, InoQueuedOf
  <2> QED BY <1>5, <2>2, <2>3
<1>8. ASSUME NEW f \in InoFile PROVE InoQueuedOf(f)'
  <2>1. CASE f = i
    <3>1. inoQueue'[f] = Append(s, e) /\ DOMAIN Append(s, e) = 1..(Len(s) + 1)
      BY <1>3, <1>5, <2>1
    <3> QED BY <1>6, <1>7, <2>1, <3>1 DEF InoQueuedOf
  <2>2. CASE f # i
    <3>1. inoQueue'[f] = inoQueue[f] /\ inoQueue[f] \in Seq(InoEvent)
      BY <1>1, <1>3, <2>2
    <3>2. \A j \in DOMAIN inoQueue[f] : inoQueue[f][j] \in InoEvent
      BY <3>1
    <3>3. \A j \in DOMAIN inoQueue[f] : inoQueue[f][j].wd \in 1..MaxWd
      BY <3>2 DEF InoEvent
    <3> QED BY <3>1, <3>3 DEF InoQueued, InoQueuedOf
  <2> QED BY <2>1, <2>2
<1>9. InoQueued'
  BY <1>8, Zenon DEF InoQueued
<1> QED BY <1>4, <1>9

(* No event is pushed: the queues keep their order.                        *)
LEMMA InoUnheard ==
    ASSUME InoQueued, UNCHANGED <<inoQueue, ignored>>, inoPast \subseteq inoPast'
    PROVE  InoQueued'
  BY DEF InoQueued, InoQueuedOf

(* The IN_IGNORED of a watch that was taken out is pushed once, by the     *)
(* call that took it out.                                                  *)
LEMMA InoAnnounced ==
    ASSUME InoTypeOK, InoOnce, InoQueued, NEW t \in InoThread, NEW d, InoMoves(t, d), NEW r \in InoReg,
           InoAnnounces(inoCall[t], r), PushIgnored(r), \A q \in InoReg : ~InoAnnounces(d, q),
           UNCHANGED <<watches, nextWd, inoPast>>
    PROVE  InoOnce' /\ InoQueued' /\ inoQueue' \in [InoFile -> Seq(InoEvent)] /\ ignored' \in [InoFile -> [1..MaxWd -> Nat]]
<1>1. inoCall'[t] = d /\ \A u \in InoThread : u # t => inoCall'[u] = inoCall[u]
  BY DEF InoTypeOK, InoMoves
<1>2. \A q : InoListed(q)' <=> InoListed(q)
  BY DEF InoListed
<1>3. r[1] \in InoFile /\ r[2] \in 1..MaxWd /\ r = <<r[1], r[2]>>
  BY DEF InoReg
<1>4. /\ ignored[r[1]][r[2]] = 0 /\ ~InoListed(r) /\ r[2] < nextWd[r[1]]
      /\ \A u \in InoThread : u # t => ~InoAnnounces(inoCall[u], r)
  BY Zenon DEF InoOnce, InoOnceOf
<1>5. /\ ignored' = [ignored EXCEPT ![r[1]][r[2]] = @ + 1] /\ ignored \in [InoFile -> [1..MaxWd -> Nat]]
      /\ inoQueue' = [inoQueue EXCEPT ![r[1]] = Append(@, [wd |-> r[2], event |-> "ignored"])]
  BY DEF PushIgnored, InoTypeOK
<1>6. /\ ignored' \in [InoFile -> [1..MaxWd -> Nat]] /\ ignored'[r[1]][r[2]] = 1
      /\ \A i \in InoFile, wd \in 1..MaxWd : <<i, wd>> # r => ignored'[i][wd] = ignored[i][wd]
  <2>1. PICK f : f = [ignored[r[1]] EXCEPT ![r[2]] = @ + 1]
    OBVIOUS
  <2>2. f \in [1..MaxWd -> Nat] /\ f[r[2]] = 1 /\ \A wd \in 1..MaxWd : wd # r[2] => f[wd] = ignored[r[1]][wd]
    <3>1. PICK g, wd : g = ignored[r[1]] /\ wd = r[2]
      OBVIOUS
    <3>2. g \in [1..MaxWd -> Nat] /\ wd \in 1..MaxWd /\ g[wd] = 0 /\ f = [g EXCEPT ![wd] = @ + 1]
      BY <1>3, <1>4, <1>5, <2>1, <3>1
    <3>3. f = [g EXCEPT ![wd] = 1]
      BY <3>2
    <3>4. f \in [1..MaxWd -> Nat] /\ f[wd] = 1 /\ \A k \in 1..MaxWd : k # wd => f[k] = g[k]
      BY <3>2, <3>3
    <3> QED BY <3>1, <3>4
  <2>3. ignored' = [ignored EXCEPT ![r[1]] = f]
    BY <1>5, <2>1
  <2>4. \A i \in InoFile, wd \in 1..MaxWd : <<i, wd>> # r => i # r[1] \/ wd # r[2]
    BY <1>3
  <2> QED BY <1>3, <1>5, <2>2, <2>3, <2>4
<1>7. \A q \in InoReg : q[1] \in InoFile /\ q[2] \in 1..MaxWd /\ q = <<q[1], q[2]>>
  BY DEF InoReg
<1>8. ASSUME NEW q \in InoReg PROVE InoOnceOf(q)'
  <2>1. CASE q = r
    BY <1>1, <1>4, <1>2, <1>6, <2>1 DEF InoOnceOf
  <2>2. CASE q # r
    <3>1. \A u \in InoThread : InoAnnounces(inoCall'[u], q) <=> InoAnnounces(inoCall[u], q)
      BY <2>2, <1>1 DEF InoAnnounces
    <3>2. ignored'[q[1]][q[2]] = ignored[q[1]][q[2]]
      BY <1>6, <1>7, <2>2
    <3> QED BY <1>2, <3>1, <3>2, Zenon DEF InoOnce, InoOnceOf
  <2> QED BY <2>1, <2>2
<1>9. InoOnce'
  BY <1>8, Zenon DEF InoOnce
<1>10. PICK e : e = [wd |-> r[2], event |-> "ignored"]
  OBVIOUS
<1>11. e \in InoEvent /\ e.event = "ignored" /\ e.wd = r[2]
  BY <1>3, <1>10 DEF InoEvent
<1>12. inoQueue' = [inoQueue EXCEPT ![r[1]] = Append(@, e)]
  BY <1>5, <1>10
<1>13. \A k \in InoFile, wd \in 1..MaxWd : ignored[k][wd] # 0 => ignored'[k][wd] # 0
  BY <1>3, <1>4, <1>6
<1>14. InoQueued' /\ inoQueue' \in [InoFile -> Seq(InoEvent)]
  <2>1. inoPast \subseteq inoPast' /\ ignored'[r[1]][e.wd] # 0 /\ ~(ignored[r[1]][e.wd] # 0)
    BY <1>4, <1>6, <1>11
  <2> QED BY <1>3, <1>11, <1>12, <1>13, <2>1, InoPushed, Zenon
<1> QED BY <1>6, <1>9, <1>14

(* The record of a call, by what the call is at.                           *)
LEMMA InoForms ==
    ASSUME InoTypeOK, NEW t \in InoThread
    PROVE  /\ inoCall[t].at \in Dispatching => inoCall[t] \in InoLong
           /\ inoCall[t].at \in {"register", "ignore", "unregister"} => inoCall[t] \in InoSimple
           /\ inoCall[t].at = "idle" => inoCall[t] = InoIdle
  BY DEF InoTypeOK, InoCallOf, InoIdle, InoSimple, InoLong, Dispatching

(* A registration is a file and a watch descriptor.                        *)
LEMMA InoRegForm ==
    \A q \in InoReg : q # <<>> /\ q[1] \in InoFile /\ q[2] \in 1..MaxWd /\ q = <<q[1], q[2]>>
  BY SMTT(40) DEF InoReg

(* The types, when a call goes on and the watches stay.                    *)
LEMMA InoTypeMoved ==
    ASSUME InoTypeOK, InoFormed, NEW t \in InoThread, NEW d \in InoCallOf, InoMoves(t, d), InoFormedCall(d),
           UNCHANGED <<watches, nextWd, inoOpen>>, registry' \in [WatchTarget -> Seq(InoReg)],
           inoQueue' \in [InoFile -> Seq(InoEvent)], ignored' \in [InoFile -> [1..MaxWd -> Nat]]
    PROVE  InoTypeOK' /\ InoFormed'
  BY DEF InoTypeOK, InoMoves, InoFormed, InoEvent

(* A step of a call that only looks, takes and forgets registrations.      *)
LEMMA InoKept ==
    ASSUME InoInv, NEW t \in InoThread, NEW d \in InoCallOf, InoMoves(t, d), InoFormedCall(d), InoCarries(t, d),
           \A r \in InoReg : InoAnnounces(d, r) <=> InoAnnounces(inoCall[t], r),
           UNCHANGED <<watches, nextWd, inoOpen, inoQueue, ignored, inoPast>>,
           registry' \in [WatchTarget -> Seq(InoReg)]
    PROVE  InoInv'
  BY InoTypeMoved, InoMoved, InoSilent, InoUnheard DEF InoInv, InoTypeOK, InoEvent, InoParts

(* notify starts with its list of events.                                  *)
LEMMA NotifyStartStep ==
    ASSUME InoInv, NEW t \in InoThread, NEW notices \in Notices, NotifyStart(t, notices)
    PROVE  InoInv'
<1>1. PICK d : d = [at |-> "take", notices |-> notices, long |-> Serialised(notices),
                 regs |-> <<>>, once |-> <<>>, reg |-> <<>>]
  OBVIOUS
<1>2. inoCall[t] = InoIdle /\ InoMoves(t, d) /\ registry' \in [WatchTarget -> Seq(InoReg)]
  BY <1>1 DEF NotifyStart, InoStarts, InoGo, InoMoves, InoInv, InoTypeOK
<1>3. notices \in Seq(InoNotice) /\ notices # <<>> /\ Serialised(notices) \in BOOLEAN
  <2>1. \A a \in WatchTarget, e \in InoHeard, b \in BOOLEAN : Notice(a, e, b) \in InoNotice
    BY DEF Notice, InoNotice
  <2>2. Serialised(notices) \in BOOLEAN
    BY DEF Serialised
  <2>3. \A x, y, z \in InoNotice : /\ <<x>> \in Seq(InoNotice) /\ <<x, y>> \in Seq(InoNotice)
                                   /\ <<x, y, z>> \in Seq(InoNotice)
                                   /\ <<x>> # <<>> /\ <<x, y>> # <<>> /\ <<x, y, z>> # <<>>
    OBVIOUS
  <2>4. CASE notices \in {Created(a) : a \in WatchTarget} \cup {Attrib(a) : a \in WatchTarget}
    BY <2>1, <2>2, <2>3, <2>4 DEF Created, Attrib, InoHeard
  <2>5. CASE notices \in {Deleted(p[1], p[2]) : p \in WatchTarget \X WatchTarget}
    <3>1. PICK a, b \in WatchTarget : notices = <<Notice(a, "delete", TRUE), Notice(b, "delete_self", TRUE)>>
      BY <2>5 DEF Deleted
    <3>2. Notice(a, "delete", TRUE) \in InoNotice /\ Notice(b, "delete_self", TRUE) \in InoNotice
      BY <2>1 DEF InoHeard
    <3> QED BY <2>2, <2>3, <3>1, <3>2
  <2>6. CASE notices \in {MovedTo(p[1], p[2], p[3]) : p \in WatchTarget \X WatchTarget \X WatchTarget}
    <3>1. PICK a, b, n \in WatchTarget :
            notices = <<Notice(a, "moved_from", FALSE), Notice(b, "moved_to", FALSE), Notice(n, "move_self", FALSE)>>
      BY <2>6 DEF MovedTo
    <3>2. /\ Notice(a, "moved_from", FALSE) \in InoNotice /\ Notice(b, "moved_to", FALSE) \in InoNotice
          /\ Notice(n, "move_self", FALSE) \in InoNotice
      BY <2>1 DEF InoHeard
    <3> QED BY <2>2, <2>3, <3>1, <3>2
  <2> QED BY <2>4, <2>5, <2>6 DEF Notices
<1>4. d \in InoLong /\ d.at = "take" /\ d.notices = notices /\ d.regs = <<>> /\ d.once = <<>> /\ d.reg = <<>>
  BY <1>1, <1>3 DEF InoLong, Dispatching
<1>5. \A r \in InoReg : r # <<>>
  BY InoRegForm
<1>6. \A r \in InoReg : /\ ~InoAnnounces(d, r) /\ ~InoClears(d, r) /\ ~InoDelivers(d, r)
                        /\ \A tg \in WatchTarget : ~InoNames(d, r, tg)
  BY <1>4, <1>5, InEmpty DEF InoAnnounces, InoClears, InoDelivers, InoNames
<1>7. \A r, tg : /\ ~InoNames(inoCall[t], r, tg) /\ ~InoEnds(inoCall[t], r)
                 /\ ~InoClears(inoCall[t], r) /\ ~InoAnnounces(inoCall[t], r)
  BY <1>2, InoIdleNames
<1>8. InoCarries(t, d)
  BY <1>6, <1>7, Zenon DEF InoCarries, NotifyStart
<1>9. InoFormedCall(d) /\ d \in InoCallOf
  BY <1>3, <1>4 DEF InoFormedCall, InoCallOf
<1> QED BY <1>2, <1>6, <1>7, <1>8, <1>9, InoKept DEF NotifyStart

(* The registrations of the target are taken, those of closed files        *)
(* retained no more.                                                       *)
LEMMA TakeStep ==
    ASSUME InoInv, NEW t \in InoThread, Take(t)
    PROVE  InoInv'
<1>1. PICK c, n, alive, all : c = inoCall[t] /\ n = Head(c.notices) /\ all = registry[n.target] /\ alive = Retain(all, OfOpen)
  OBVIOUS
<1>2. PICK d : d = [c EXCEPT !.at = "look", !.regs = IF n.remove THEN all ELSE alive]
  OBVIOUS
<1>3. /\ c \in InoLong /\ c.at = "take" /\ c.regs = <<>> /\ c.once = <<>> /\ c.reg = <<>> /\ c.notices \in Seq(InoNotice) /\ c.notices # <<>>
  BY <1>1, InoForms DEF Take, InoInv, InoFormed, InoFormedCall, Dispatching, InoLong
<1>4. n \in InoNotice
  BY <1>1, <1>3
<1>5. n.target \in WatchTarget /\ n.remove \in BOOLEAN /\ all \in Seq(InoReg) /\ registry \in [WatchTarget -> Seq(InoReg)]
  BY <1>1, <1>4 DEF InoNotice, InoInv, InoTypeOK
<1>6. alive \in Seq(InoReg) /\ \A r : InoIn(r, alive) <=> InoIn(r, all) /\ r \in OfOpen
  BY <1>1, <1>5, InRetain
<1>7. /\ d \in InoLong /\ d.at = "look" /\ d.notices = c.notices /\ d.once = <<>> /\ d.reg = <<>>
      /\ d.regs = IF n.remove THEN all ELSE alive
  BY <1>2, <1>3, <1>5, <1>6 DEF InoLong, Dispatching
<1>8. InoMoves(t, d) /\ registry' = [registry EXCEPT ![n.target] = IF n.remove THEN <<>> ELSE alive]
  BY <1>1, <1>2 DEF Take, InoGo, InoMoves
<1>9. registry' \in [WatchTarget -> Seq(InoReg)] /\ registry'[n.target] = (IF n.remove THEN <<>> ELSE alive)
      /\ \A tg \in WatchTarget : tg # n.target => registry'[tg] = registry[tg]
  BY <1>5, <1>6, <1>8
<1>10. \A r \in InoReg : r # <<>> /\ (r \in OfOpen <=> r[1] \in inoOpen)
  BY DEF InoReg, OfOpen
<1>11. InoCarries(t, d)
  <2>1. ASSUME NEW r \in InoReg, NEW tg \in WatchTarget, InoNames(d, r, tg) PROVE InoMentioned(r, tg)
    BY <1>1, <1>7, <1>10, <2>1, InEmpty, <1>6 DEF InoNames, InoMentioned
  <2>2. ASSUME NEW r \in InoReg, NEW tg \in WatchTarget, InoIn(r, registry'[tg]) PROVE InoIn(r, registry[tg])
    BY <1>1, <1>6, <1>9, <2>2, InEmpty
  <2>3. \A r \in InoReg : ~InoEnds(c, r) /\ ~InoClears(c, r) /\ ~InoClears(d, r) /\ ~InoDelivers(d, r)
    BY <1>3, <1>7, InEmpty DEF InoEnds, InoClears, InoDelivers
  <2>4. ASSUME NEW r \in InoReg, NEW tg \in WatchTarget, r[1] \in inoOpen, InoIn(r, registry[tg])
        PROVE  InoIn(r, registry'[tg]) \/ InoEnds(d, r)
    BY <1>9, <2>4, <1>1, <1>6, <1>10, <1>7 DEF Dispatching, InoEnds
  <2>5. \A r \in InoReg : InoListed(r) => watches[r[1]][r[2]].target \in WatchTarget
    BY DEF InoInv, InoTypeOK, InoListed, InoReg
  <2> QED BY <1>1, <2>1, <2>2, <2>3, <2>4, <2>5, Zenon DEF InoCarries
<1>12. \A r \in InoReg : InoAnnounces(d, r) <=> InoAnnounces(inoCall[t], r)
  BY <1>1, <1>3, <1>7 DEF InoAnnounces
<1>13. InoFormedCall(d) /\ d \in InoCallOf
  BY <1>3, <1>7 DEF InoFormedCall, InoCallOf
<1> QED BY <1>8, <1>9, <1>11, <1>12, <1>13, InoKept DEF Take

(* What a call between two events has in its hands.                        *)
LEMMA InoHand ==
    ASSUME InoInv, NEW t \in InoThread, NEW c, c = inoCall[t], c.at \in Dispatching
    PROVE  /\ c \in InoLong /\ c.notices \in Seq(InoNotice) /\ c.notices # <<>>
           /\ Head(c.notices) \in InoNotice /\ Head(c.notices).remove \in BOOLEAN /\ Head(c.notices).target \in WatchTarget
           /\ c.regs \in Seq(InoReg) /\ c.once \in Seq(InoReg) /\ InoFormedCall(c)
           /\ registry \in [WatchTarget -> Seq(InoReg)]
<1>1. c \in InoLong /\ InoFormedCall(c) /\ registry \in [WatchTarget -> Seq(InoReg)]
  BY InoForms DEF InoInv, InoFormed, InoTypeOK
<1>2. c.notices \in Seq(InoNotice) /\ c.notices # <<>> /\ c.regs \in Seq(InoReg) /\ c.once \in Seq(InoReg)
  BY <1>1 DEF InoLong, InoFormedCall
<1>3. Head(c.notices) \in InoNotice
  BY <1>2
<1> QED BY <1>1, <1>2, <1>3 DEF InoNotice

(* A call that goes on with the same event carries on what it had in its   *)
(* hands.                                                                  *)
LEMMA InoSameEvent ==
    ASSUME InoInv, NEW t \in InoThread, NEW c, c = inoCall[t], c.at \in Dispatching,
           NEW d \in InoLong, d.notices = c.notices, UNCHANGED registry,
           \A r \in InoReg : d.reg = r \/ InoIn(r, d.regs) \/ InoIn(r, d.once)
                               => c.reg = r \/ InoIn(r, c.regs) \/ InoIn(r, c.once),
           \A r \in InoReg : r[1] \in inoOpen /\ InoListed(r) /\ InoEnds(c, r) => InoEnds(d, r),
           \A r \in InoReg : InoDelivers(d, r) =>
             (InoListed(r) \/ r \in inoPast) /\ (Head(d.notices).remove => InoIn(r, d.once)),
           \A r \in InoReg : InoClears(d, r) <=> InoClears(c, r)
    PROVE  InoCarries(t, d)
  BY DEF InoNames, InoLong, Dispatching, InoMentioned, InoCarries

(* The next registration is looked up in its file.                         *)
LEMMA LookStep ==
    ASSUME InoInv, NEW t \in InoThread, Look(t)
    PROVE  InoInv'
<1>1. PICK c, r, next : c = inoCall[t] /\ r = Head(c.regs) /\ next = LookedUp(c, r)
  OBVIOUS
<1>2. PICK ends : ends = (next = "deliver" /\ (Head(c.notices).remove \/ "oneshot" \in watches[r[1]][r[2]].mask))
  OBVIOUS
<1>3. PICK d : d = [c EXCEPT !.at = next, !.reg = IF next = "drop" THEN r ELSE <<>>,
                       !.regs = IF next = "deliver" THEN c.regs ELSE Tail(c.regs),
                       !.once = IF ends THEN Append(c.once, r) ELSE c.once]
  OBVIOUS
<1>4. /\ c.at = "look" /\ c.at \in Dispatching /\ c.regs # <<>> /\ InoMoves(t, d)
      /\ UNCHANGED <<watches, nextWd, registry, inoOpen, inoQueue, ignored, inoPast>>
  BY <1>1, <1>2, <1>3 DEF Look, InoGo, InoMoves, Dispatching
<1>5. /\ c \in InoLong /\ c.notices \in Seq(InoNotice) /\ c.notices # <<>> /\ Head(c.notices).remove \in BOOLEAN
      /\ c.regs \in Seq(InoReg) /\ c.once \in Seq(InoReg) /\ InoFormedCall(c) /\ registry \in [WatchTarget -> Seq(InoReg)]
  BY <1>1, <1>4, InoHand
<1>6. r \in InoReg /\ Tail(c.regs) \in Seq(InoReg) /\ \A q : InoIn(q, c.regs) <=> q = r \/ InoIn(q, Tail(c.regs))
  BY <1>1, <1>4, <1>5, InTail
<1>7. Append(c.once, r) \in Seq(InoReg) /\ \A q : InoIn(q, Append(c.once, r)) <=> InoIn(q, c.once) \/ q = r
  BY <1>5, <1>6, InAppend
<1>8. /\ next \in {"look", "deliver", "drop"}
      /\ next # "look" => r[1] \in inoOpen /\ InoListed(r)
      /\ next = "look" => ~(r[1] \in inoOpen /\ InoListed(r)) \/ ~Head(c.notices).remove
  BY <1>1, <1>5 DEF LookedUp, InoListed
<1>9. /\ d \in InoLong /\ d.at = next /\ d.notices = c.notices /\ d.reg = (IF next = "drop" THEN r ELSE <<>>)
      /\ d.regs = (IF next = "deliver" THEN c.regs ELSE Tail(c.regs))
      /\ d.once = (IF ends THEN Append(c.once, r) ELSE c.once)
  BY <1>3, <1>5, <1>6, <1>7, <1>8 DEF InoLong, Dispatching
<1>10. c.reg = <<>> /\ \A q \in InoReg : q # <<>>
  BY <1>4, <1>5, InoRegForm DEF InoFormedCall
<1>11. \A q : InoIn(q, d.once) <=> InoIn(q, c.once) \/ (ends /\ q = r)
  BY <1>7, <1>9
<1>12. \A q \in InoReg : InoClears(d, q) <=> InoClears(c, q)
  BY <1>4, <1>8, <1>9 DEF InoClears
<1>13. InoCarries(t, d)
  <2>1. \A q \in InoReg : d.reg = q \/ InoIn(q, d.regs) \/ InoIn(q, d.once)
                            => c.reg = q \/ InoIn(q, c.regs) \/ InoIn(q, c.once)
    BY <1>6, <1>9, <1>10, <1>11
  <2>2. ASSUME NEW q \in InoReg, q[1] \in inoOpen, InoListed(q), InoEnds(c, q) PROVE InoEnds(d, q)
    BY <1>4, <2>2, <1>8, <1>9, <1>11, <1>6 DEF InoEnds, Dispatching
  <2>3. ASSUME NEW q \in InoReg, InoDelivers(d, q)
        PROVE  (InoListed(q) \/ q \in inoPast) /\ (Head(d.notices).remove => InoIn(q, d.once))
    BY <1>1, <1>9, <2>3, <1>2, <1>8, <1>11 DEF InoDelivers
  <2> QED BY <1>1, <1>4, <1>9, <1>12, <2>1, <2>2, <2>3, InoSameEvent
<1>14. \A q \in InoReg : InoAnnounces(d, q) <=> InoAnnounces(inoCall[t], q)
  BY <1>1, <1>4, <1>8, <1>9 DEF InoAnnounces
<1>15. InoFormedCall(d) /\ d \in InoCallOf
  BY <1>4, <1>5, <1>6, <1>8, <1>9 DEF InoFormedCall, InoCallOf
<1> QED BY <1>4, <1>5, <1>13, <1>14, <1>15, InoKept

(* The event is pushed to the file, and the watch of a one-shot or removed *)
(* target is to be dropped.                                                *)
LEMMA DeliverStep ==
    ASSUME InoInv, NEW t \in InoThread, Deliver(t)
    PROVE  InoInv'
<1>1. PICK c, r, e : c = inoCall[t] /\ r = Head(c.regs) /\ e = [wd |-> r[2], event |-> Head(c.notices).event]
  OBVIOUS
<1>2. PICK d : d = [c EXCEPT !.at = "look", !.regs = Tail(c.regs)]
  OBVIOUS
<1>3. /\ c.at = "deliver" /\ c.at \in Dispatching /\ InoMoves(t, d)
      /\ inoQueue' = [inoQueue EXCEPT ![r[1]] = Append(@, e)]
      /\ UNCHANGED <<watches, nextWd, registry, inoOpen, ignored, inoPast>>
  BY <1>1, <1>2 DEF Deliver, InoGo, InoMoves, Dispatching
<1>4. /\ c \in InoLong /\ c.notices # <<>> /\ c.regs \in Seq(InoReg) /\ InoFormedCall(c)
      /\ Head(c.notices) \in InoNotice /\ registry \in [WatchTarget -> Seq(InoReg)]
  BY <1>1, <1>3, InoHand
<1>5. c.regs # <<>> /\ c.reg = <<>>
  BY <1>3, <1>4 DEF InoFormedCall
<1>6. r \in InoReg /\ Tail(c.regs) \in Seq(InoReg) /\ \A q : InoIn(q, c.regs) <=> q = r \/ InoIn(q, Tail(c.regs))
  BY <1>1, <1>4, <1>5, InTail
<1>7. /\ d \in InoLong /\ d.at = "look" /\ d.notices = c.notices /\ d.reg = <<>>
      /\ d.regs = Tail(c.regs) /\ d.once = c.once
  BY <1>2, <1>4, <1>5, <1>6 DEF InoLong, Dispatching
<1>8. (InoListed(r) \/ r \in inoPast) /\ (Head(c.notices).remove => InoIn(r, c.once))
  BY <1>1, <1>3, <1>6 DEF InoDelivers, InoInv, InoTold
<1>9. \A q \in InoReg : (InoClears(d, q) <=> InoClears(c, q)) /\ (InoAnnounces(d, q) <=> InoAnnounces(c, q)) /\ ~InoDelivers(d, q)
  BY <1>3, <1>7 DEF InoClears, InoAnnounces, InoDelivers
<1>10. InoCarries(t, d)
  <2>1. \A q \in InoReg : d.reg = q \/ InoIn(q, d.regs) \/ InoIn(q, d.once)
                            => c.reg = q \/ InoIn(q, c.regs) \/ InoIn(q, c.once)
    BY <1>5, <1>6, <1>7
  <2>2. ASSUME NEW q \in InoReg, q[1] \in inoOpen, InoListed(q), InoEnds(c, q) PROVE InoEnds(d, q)
    BY <1>3, <2>2, <1>6, <1>7, <1>8 DEF InoEnds, Dispatching
  <2> QED BY <1>1, <1>3, <1>7, <1>9, <2>1, <2>2, InoSameEvent
<1>11. InoFormedCall(d) /\ d \in InoCallOf
  BY <1>4, <1>7 DEF InoFormedCall, InoCallOf
<1>12. r[1] \in InoFile /\ r[2] \in 1..MaxWd /\ r = <<r[1], r[2]>>
  BY <1>6 DEF InoReg
<1>13. e \in InoEvent /\ e.wd = r[2] /\ e.event # "ignored"
  BY <1>1, <1>4, <1>12 DEF InoEvent, InoNotice, InoHeard
<1>14. ignored[r[1]][r[2]] # 0 => r \in inoPast
  BY <1>6, <1>8, Zenon DEF InoInv, InoOnce, InoOnceOf
<1>15. InoQueued' /\ inoQueue' \in [InoFile -> Seq(InoEvent)]
  BY <1>3, <1>12, <1>13, <1>14, InoPushed DEF InoInv
<1>16. InoTypeOK' /\ InoFormed'
  BY <1>3, <1>4, <1>11, <1>15, InoTypeMoved DEF InoInv, InoTypeOK
<1>17. InoParts'
  BY <1>3, <1>10, InoMoved DEF InoInv, InoParts
<1>18. InoOnce'
  BY <1>1, <1>3, <1>9, InoSilent DEF InoInv
<1> QED BY <1>15, <1>16, <1>17, <1>18 DEF InoInv, InoParts

(* Nobody is left to tell: the call drops the watches that end with this   *)
(* event, or goes on with the next event.                                  *)
LEMMA ToldStep ==
    ASSUME InoInv, NEW t \in InoThread, Told(t)
    PROVE  InoInv'
<1>1. PICK c : c = inoCall[t]
  OBVIOUS
<1>2. /\ c.at = "look" /\ c.at \in Dispatching /\ c.regs = <<>>
      /\ UNCHANGED <<watches, nextWd, registry, inoOpen, inoQueue, ignored, inoPast>>
  BY <1>1 DEF Told, Dispatching
<1>3. /\ c \in InoLong /\ c.notices \in Seq(InoNotice) /\ c.notices # <<>>
      /\ c.once \in Seq(InoReg) /\ InoFormedCall(c) /\ registry' \in [WatchTarget -> Seq(InoReg)]
  BY <1>1, <1>2, InoHand
<1>4. c.reg = <<>> /\ \A q \in InoReg : q # <<>>
  BY <1>2, <1>3, InoRegForm DEF InoFormedCall
<1>5. CASE c.once # <<>>
  <2>1. PICK r, d : r = Head(c.once) /\ d = [c EXCEPT !.at = "drop", !.reg = r, !.once = Tail(c.once)]
    OBVIOUS
  <2>2. InoMoves(t, d)
    BY <1>1, <1>5, <2>1 DEF Told, InoGo, InoMoves
  <2>3. r \in InoReg /\ Tail(c.once) \in Seq(InoReg) /\ \A q : InoIn(q, c.once) <=> q = r \/ InoIn(q, Tail(c.once))
    BY <1>3, <1>5, <2>1, InTail
  <2>4. /\ d \in InoLong /\ d.at = "drop" /\ d.reg = r /\ d.once = Tail(c.once) /\ d.notices = c.notices /\ d.regs = <<>>
    BY <1>2, <1>3, <2>1, <2>3 DEF InoLong, Dispatching
  <2>5. \A q \in InoReg : (InoClears(d, q) <=> InoClears(c, q)) /\ (InoAnnounces(d, q) <=> InoAnnounces(c, q)) /\ ~InoDelivers(d, q)
    BY <1>2, <2>4 DEF InoClears, InoAnnounces, InoDelivers
  <2>6. InoCarries(t, d)
    BY <1>2, <2>3, <2>4, InEmpty, <1>1, <2>5, InoSameEvent DEF InoEnds, Dispatching
  <2>7. InoFormedCall(d) /\ d \in InoCallOf
    BY <1>3, <2>3, <2>4 DEF InoFormedCall, InoCallOf
  <2> QED BY <1>1, <1>2, <1>3, <2>2, <2>5, <2>6, <2>7, InoKept
<1>6. CASE c.once = <<>>
  <2>1. PICK d : d = IF Len(c.notices) > 1 THEN [c EXCEPT !.at = "take", !.notices = Tail(c.notices)] ELSE InoIdle
    OBVIOUS
  <2>2. InoMoves(t, d)
    BY <1>1, <1>6, <2>1 DEF Told, InoGo, InoMoves
  <2>3. \A q \in InoReg : ~InoEnds(c, q) /\ ~InoClears(c, q) /\ ~InoAnnounces(c, q)
    BY <1>2, <1>4, <1>6, InEmpty DEF InoEnds, InoClears, InoAnnounces
  <2>4. \/ d = InoIdle
        \/ /\ d \in InoLong /\ d.at = "take" /\ d.reg = <<>> /\ d.regs = <<>> /\ d.once = <<>>
           /\ d.notices \in Seq(InoNotice) /\ d.notices # <<>>
    <3>1. CASE Len(c.notices) > 1
      <4>1. Tail(c.notices) \in Seq(InoNotice) /\ Tail(c.notices) # <<>>
        <5>1. c.notices \in Seq(InoNotice) /\ c.notices # <<>> /\ Len(c.notices) \in Nat
          BY <1>3
        <5>2. Tail(c.notices) \in Seq(InoNotice) /\ Len(Tail(c.notices)) = Len(c.notices) - 1
          BY <5>1, HeadTailProperties
        <5>3. Len(<<>>) = 0
          OBVIOUS
        <5>4. Len(Tail(c.notices)) # 0
          <6>1. PICK m, k : m = Len(c.notices) /\ k = Len(Tail(c.notices))
            OBVIOUS
          <6>2. m \in Nat /\ m > 1 /\ k = m - 1
            BY <3>1, <5>1, <5>2, <6>1
          <6>3. k # 0
            BY <6>2
          <6> QED BY <6>1, <6>3, Zenon
        <5> QED BY <5>2, <5>3, <5>4, Zenon
      <4>2. d = [c EXCEPT !.at = "take", !.notices = Tail(c.notices)]
        BY <2>1, <3>1
      <4> QED BY <1>2, <1>3, <1>4, <1>6, <4>1, <4>2 DEF InoLong, Dispatching
    <3>2. CASE ~(Len(c.notices) > 1)
      BY <2>1, <3>2
    <3> QED BY <3>1, <3>2
  <2>5. \A q \in InoReg : /\ ~InoClears(d, q) /\ ~InoAnnounces(d, q) /\ ~InoDelivers(d, q)
                          /\ \A tg \in WatchTarget : ~InoNames(d, q, tg)
    BY InoIdleNames, <1>4, InEmpty, <2>4 DEF InoClears, InoAnnounces, InoDelivers, InoNames
  <2>6. InoCarries(t, d)
    BY <1>1, <1>2, <2>3, <2>5, Zenon DEF InoCarries
  <2>7. InoFormedCall(d) /\ d \in InoCallOf
    BY <2>4, InoIdleNames DEF InoFormedCall, InoCallOf
  <2> QED BY <1>1, <1>2, <1>3, <2>2, <2>3, <2>5, <2>6, <2>7, InoKept
<1> QED BY <1>5, <1>6

(* The registry after unregister: the registration is gone, those of open  *)
(* files stay.                                                             *)
LEMMA InoUnregistered ==
    ASSUME InoTypeOK, NEW home \in WatchTarget, NEW r, registry' = Unregistered(home, r)
    PROVE  /\ registry' \in [WatchTarget -> Seq(InoReg)]
           /\ \A q \in InoReg, tg \in WatchTarget :
                /\ InoIn(q, registry'[tg]) => InoIn(q, registry[tg]) /\ (tg = home => q # r)
                /\ InoIn(q, registry[tg]) /\ q # r /\ q[1] \in inoOpen => InoIn(q, registry'[tg])
  BY InRetain DEF InoTypeOK, Unregistered, OfOpen, InoReg

(* A watch that is not listed has no registration but at its target, and   *)
(* unregister takes it away.                                               *)
LEMMA InoRegistryCleared ==
    ASSUME InoInv, NEW t \in InoThread, NEW d, NEW home \in WatchTarget, NEW r \in InoReg,
           InoClears(inoCall[t], r), InoNames(inoCall[t], r, home), registry' = Unregistered(home, r),
           \A q \in InoReg : ~InoClears(d, q) /\ ~InoDelivers(d, q) /\ (InoEnds(inoCall[t], q) => InoEnds(d, q)),
           \A q \in InoReg, tg \in WatchTarget : InoNames(d, q, tg) => InoNames(inoCall[t], q, tg)
    PROVE  InoCarries(t, d) /\ registry' \in [WatchTarget -> Seq(InoReg)]
<1>1. /\ registry' \in [WatchTarget -> Seq(InoReg)]
      /\ \A q \in InoReg, tg \in WatchTarget :
           /\ InoIn(q, registry'[tg]) => InoIn(q, registry[tg]) /\ (tg = home => q # r)
           /\ InoIn(q, registry[tg]) /\ q # r /\ q[1] \in inoOpen => InoIn(q, registry'[tg])
  BY InoUnregistered DEF InoInv
<1>2. ~InoListed(r)
  BY DEF InoInv, InoGone
<1>3. \A q \in InoReg : InoListed(q) => watches[q[1]][q[2]].target \in WatchTarget
  BY DEF InoInv, InoTypeOK, InoListed, InoReg
<1>4. \A q \in InoReg : InoClears(inoCall[t], q) => q = r
  BY DEF InoClears
<1>5. \A tg \in WatchTarget : InoIn(r, registry[tg]) => tg = home
  BY DEF InoMentioned, InoInv, InoHomes
<1>6. \A q \in InoReg, tg \in WatchTarget : InoNames(d, q, tg) => InoMentioned(q, tg)
  BY DEF InoMentioned
<1> QED BY <1>1, <1>2, <1>3, <1>4, <1>5, <1>6, Zenon DEF InoCarries

(* remove_watch unregisters the watch it took out.                         *)
LEMMA RemoveUnregisterStep ==
    ASSUME InoInv, NEW t \in InoThread, RemoveUnregister(t)
    PROVE  InoInv'
<1>1. PICK c : c = inoCall[t]
  OBVIOUS
<1>2. /\ c.at = "unregister" /\ InoMoves(t, InoIdle) /\ registry' = Unregistered(c.target, c.reg)
      /\ UNCHANGED <<watches, nextWd, inoOpen, inoQueue, ignored, inoPast>>
  BY <1>1 DEF RemoveUnregister, InoGo, InoMoves
<1>3. c \in InoSimple /\ c.target \in WatchTarget /\ c.reg \in InoReg
  BY <1>1, <1>2, InoForms DEF InoInv, InoSimple
<1>4. InoClears(c, c.reg) /\ InoNames(c, c.reg, c.target) /\ \A q \in InoReg : ~InoAnnounces(c, q) /\ ~InoEnds(c, q)
  BY <1>2 DEF InoClears, InoNames, InoAnnounces, InoEnds, Dispatching
<1>5. \A q, tg : /\ ~InoClears(InoIdle, q) /\ ~InoDelivers(InoIdle, q) /\ ~InoNames(InoIdle, q, tg) /\ ~InoAnnounces(InoIdle, q)
                 /\ InoIdle.at \notin Dispatching
  BY InoIdleNames
<1>6. InoCarries(t, InoIdle) /\ registry' \in [WatchTarget -> Seq(InoReg)]
  BY <1>1, <1>2, <1>3, <1>4, <1>5, InoRegistryCleared
<1>7. InoFormedCall(InoIdle) /\ InoIdle \in InoCallOf
  BY <1>5 DEF InoFormedCall, InoCallOf
<1> QED BY <1>1, <1>2, <1>4, <1>5, <1>6, <1>7, InoKept

(* notify unregisters a watch that ended with its event.                   *)
LEMMA AutoUnregisterStep ==
    ASSUME InoInv, NEW t \in InoThread, AutoUnregister(t)
    PROVE  InoInv'
<1>1. PICK c, d : c = inoCall[t] /\ d = [c EXCEPT !.at = "tell"]
  OBVIOUS
<1>2. /\ c.at = "forget" /\ c.at \in Dispatching /\ InoMoves(t, d) /\ registry' = Unregistered(Head(c.notices).target, c.reg)
      /\ UNCHANGED <<watches, nextWd, inoOpen, inoQueue, ignored, inoPast>>
  BY <1>1 DEF AutoUnregister, InoGo, InoMoves, Dispatching
<1>3. c \in InoLong /\ InoFormedCall(c) /\ Head(c.notices).target \in WatchTarget
  BY <1>1, <1>2, InoHand
<1>4. c.reg \in InoReg /\ c.notices # <<>>
  BY <1>2, <1>3 DEF InoFormedCall
<1>5. /\ d \in InoLong /\ d.at = "tell" /\ d.reg = c.reg /\ d.once = c.once /\ d.notices = c.notices /\ d.regs = c.regs
  BY <1>1, <1>3 DEF InoLong, Dispatching
<1>6. InoClears(c, c.reg) /\ InoNames(c, c.reg, Head(c.notices).target)
  BY <1>2 DEF InoClears, InoNames
<1>7. \A q \in InoReg : ~InoClears(d, q) /\ ~InoDelivers(d, q) /\ (InoAnnounces(d, q) <=> InoAnnounces(c, q))
  BY <1>2, <1>5 DEF InoClears, InoDelivers, InoAnnounces
<1>8. \A q \in InoReg : InoEnds(c, q) => InoEnds(d, q)
  BY <1>2, <1>5 DEF InoEnds, Dispatching
<1>9. \A q \in InoReg, tg \in WatchTarget : InoNames(d, q, tg) => InoNames(c, q, tg)
  BY <1>2, <1>5 DEF InoNames
<1>10. InoCarries(t, d) /\ registry' \in [WatchTarget -> Seq(InoReg)]
  BY <1>1, <1>2, <1>3, <1>4, <1>6, <1>7, <1>8, <1>9, InoRegistryCleared
<1>11. InoFormedCall(d) /\ d \in InoCallOf
  BY <1>4, <1>5 DEF InoFormedCall, InoCallOf
<1> QED BY <1>1, <1>2, <1>7, <1>10, <1>11, InoKept

(* The types after a watch was taken out.                                  *)
LEMMA InoTypeDropped ==
    ASSUME InoInv, NEW t \in InoThread, NEW d \in InoCallOf, InoMoves(t, d), InoFormedCall(d), NEW r \in InoReg, Dropped(r),
           UNCHANGED <<nextWd, registry, inoOpen, inoQueue, ignored>>
    PROVE  InoTypeOK' /\ InoFormed' /\ InoQueued'
<1>1. inoCall' \in [InoThread -> InoCallOf] /\ inoCall'[t] = d /\ \A u \in InoThread : u # t => inoCall'[u] = inoCall[u]
  BY DEF InoInv, InoTypeOK, InoMoves
<1>2. InoFormed'
  BY <1>1, Zenon DEF InoInv, InoFormed
<1>3. watches' = [watches EXCEPT ![r[1]] = Without(watches[r[1]], r[2])] /\ r[1] \in InoFile /\ inoPast \subseteq inoPast'
  BY DEF Dropped, InoReg
<1>4. InoQueued'
  BY <1>3, InoUnheard DEF InoInv
<1>5. watches' = [i \in InoFile |-> watches'[i]]
  BY <1>3 DEF InoInv, InoTypeOK
<1>6. ASSUME NEW i \in InoFile
      PROVE  /\ DOMAIN watches'[i] \subseteq 1..(nextWd[i] - 1)
             /\ InoFcn(watches'[i])
             /\ \A wd \in DOMAIN watches'[i] : watches'[i][wd] \in [target : WatchTarget, mask : InoMasks]
  BY <1>3 DEF InoInv, InoTypeOK, Without, InoFcn
<1>7. InoTypeOK'
  BY <1>1, <1>5, <1>6 DEF InoInv, InoTypeOK
<1> QED BY <1>2, <1>4, <1>7

(* remove_watch takes the watch out of its file.                           *)
LEMMA RemoveWatchStep ==
    ASSUME InoInv, NEW t \in InoThread, NEW i \in InoFile, NEW wd \in 1..MaxWd, RemoveWatch(t, i, wd)
    PROVE  InoInv'
<1>1. PICK r, d : r = <<i, wd>> /\ d = [at |-> "ignore", target |-> watches[i][wd].target, reg |-> r]
  OBVIOUS
<1>2. /\ inoCall[t] = InoIdle /\ Dropped(r) /\ InoMoves(t, d) /\ wd \in DOMAIN watches[i]
      /\ UNCHANGED <<nextWd, registry, inoOpen, inoQueue, ignored>>
  BY <1>1 DEF RemoveWatch, InoStarts, InoGo, InoMoves
<1>3. r \in InoReg /\ r[1] = i /\ r[2] = wd /\ InoListed(r) /\ watches[i][wd].target \in WatchTarget
  BY <1>1, <1>2 DEF InoReg, InoListed, InoInv, InoTypeOK
<1>4. d \in InoSimple /\ d.at = "ignore" /\ d.reg = r /\ d.target = watches[i][wd].target
  BY <1>1, <1>3 DEF InoSimple
<1>5. d \in InoCallOf /\ InoFormedCall(d)
  BY <1>4 DEF InoCallOf, InoFormedCall, Dispatching
<1>6. /\ \A q \in InoReg : (InoClears(d, q) \/ InoAnnounces(d, q) => q = r) /\ ~InoDelivers(d, q)
      /\ InoClears(d, r) /\ InoAnnounces(d, r)
  BY <1>4 DEF InoClears, InoAnnounces, InoDelivers
<1>7. \A q \in InoReg, tg \in WatchTarget : InoNames(d, q, tg) => InoMentioned(q, tg)
  BY <1>3, <1>4 DEF InoNames, InoMentioned, Dispatching
<1>8. \A q \in InoReg : ~InoClears(inoCall[t], q) /\ ~InoAnnounces(inoCall[t], q) /\ ~InoEnds(inoCall[t], q)
  BY <1>2, InoIdleNames
<1>9. InoParts' /\ InoOnce'
  BY <1>2, <1>3, <1>6, <1>7, <1>8, InoDropped DEF InoInv, InoParts
<1>10. InoTypeOK' /\ InoFormed' /\ InoQueued'
  BY <1>2, <1>3, <1>5, InoTypeDropped
<1> QED BY <1>9, <1>10 DEF InoInv, InoParts

(* notify takes out a watch that ends with its event, if nobody else did.  *)
LEMMA AutoRemoveStep ==
    ASSUME InoInv, NEW t \in InoThread, AutoRemove(t)
    PROVE  InoInv'
<1>1. PICK c, r, next : c = inoCall[t] /\ r = c.reg /\ next = AutoRemoved(r)
  OBVIOUS
<1>2. PICK d : d = [c EXCEPT !.at = next, !.reg = IF next = "look" THEN <<>> ELSE r]
  OBVIOUS
<1>3. /\ c.at = "drop" /\ c.at \in Dispatching /\ Dropped(r) /\ InoMoves(t, d)
      /\ UNCHANGED <<nextWd, registry, inoOpen, inoQueue, ignored>>
  BY <1>1, <1>2 DEF AutoRemove, InoGo, InoMoves, Dispatching
<1>4. c \in InoLong /\ InoFormedCall(c) /\ Head(c.notices).target \in WatchTarget /\ registry' \in [WatchTarget -> Seq(InoReg)]
  BY <1>1, <1>3, InoHand
<1>5. r \in InoReg /\ c.notices # <<>> /\ \A q \in InoReg : q # <<>>
  BY <1>1, <1>3, <1>4, InoRegForm DEF InoFormedCall
<1>6. next = IF InoListed(r) THEN "forget" ELSE "look"
  BY <1>1 DEF AutoRemoved, InoListed
<1>7. /\ d \in InoLong /\ d.at = next /\ d.reg = (IF next = "look" THEN <<>> ELSE r)
      /\ d.once = c.once /\ d.notices = c.notices /\ d.regs = c.regs
  BY <1>2, <1>4, <1>5, <1>6 DEF InoLong, Dispatching
<1>8. d \in InoCallOf /\ InoFormedCall(d) /\ d.at \in Dispatching
  BY <1>5, <1>6, <1>7 DEF InoCallOf, InoFormedCall, Dispatching
<1>9. \A q \in InoReg : ~InoDelivers(d, q) /\ ~InoClears(c, q) /\ ~InoAnnounces(c, q)
  BY <1>3, <1>6, <1>7 DEF InoDelivers, InoClears, InoAnnounces
<1>10. \A q \in InoReg : q # r /\ InoEnds(c, q) => InoEnds(d, q)
  BY <1>1, <1>3, <1>7, <1>8 DEF InoEnds
<1>11. \A q \in InoReg, tg \in WatchTarget : InoNames(d, q, tg) => InoNames(c, q, tg)
  BY <1>1, <1>3, <1>5, <1>7, <1>8 DEF InoNames, Dispatching
<1>12. \A q \in InoReg, tg \in WatchTarget : InoNames(d, q, tg) => InoMentioned(q, tg)
  BY <1>1, <1>11 DEF InoMentioned
<1>13. CASE InoListed(r)
  <2>1. /\ \A q \in InoReg : InoClears(d, q) \/ InoAnnounces(d, q) => q = r
        /\ InoClears(d, r) /\ InoAnnounces(d, r)
    BY <1>6, <1>7, <1>13 DEF InoClears, InoAnnounces
  <2>2. InoParts' /\ InoOnce'
    BY <1>1, <1>3, <1>5, <1>9, <1>10, <1>12, <1>13, <2>1, InoDropped DEF InoInv, InoParts
  <2>3. InoTypeOK' /\ InoFormed' /\ InoQueued'
    BY <1>3, <1>5, <1>8, InoTypeDropped
  <2> QED BY <2>2, <2>3 DEF InoInv, InoParts
<1>14. CASE ~InoListed(r)
  <2>1. watches' = watches
    <3>1. r[1] \in InoFile /\ DOMAIN watches = InoFile /\ watches' = [watches EXCEPT ![r[1]] = Without(watches[r[1]], r[2])]
      BY <1>3, <1>5, InoRegForm DEF Dropped, InoInv, InoTypeOK
    <3>2. Without(watches[r[1]], r[2]) = watches[r[1]]
      <4>1. DOMAIN watches[r[1]] \ {r[2]} = DOMAIN watches[r[1]]
        BY <1>14 DEF InoListed
      <4>2. Without(watches[r[1]], r[2]) = [wd \in DOMAIN watches[r[1]] |-> watches[r[1]][wd]]
        BY <4>1 DEF Without
      <4> QED BY <3>1, <4>2 DEF InoInv, InoTypeOK, InoFcn
    <3>3. watches = [i \in InoFile |-> watches[i]]
      BY DEF InoInv, InoTypeOK
    <3> QED BY <3>1, <3>2, <3>3
  <2>2. inoPast' = inoPast
    BY <1>5, <1>14, <1>3 DEF Delivering, InoDelivers, InoInv, InoTold, Dropped
  <2>3. \A q \in InoReg : ~InoClears(d, q) /\ ~InoAnnounces(d, q)
    BY <1>6, <1>7, <1>14 DEF InoClears, InoAnnounces
  <2>4. InoCarries(t, d)
    BY <1>10, <1>14, <1>1, <1>3, <1>9, <1>12, <2>3 DEF InoCarries
  <2> QED BY <1>1, <1>3, <1>4, <1>8, <1>9, <2>1, <2>2, <2>3, <2>4, InoKept
<1> QED BY <1>13, <1>14

(* A call pushes IN_IGNORED and goes on.                                   *)
LEMMA InoIgnores ==
    ASSUME InoInv, NEW t \in InoThread, NEW d \in InoCallOf, InoMoves(t, d), InoFormedCall(d), NEW r \in InoReg,
           InoAnnounces(inoCall[t], r), PushIgnored(r), \A q \in InoReg : ~InoAnnounces(d, q) /\ ~InoDelivers(d, q),
           \A q \in InoReg : InoClears(d, q) <=> InoClears(inoCall[t], q),
           \A q \in InoReg : InoEnds(inoCall[t], q) => InoEnds(d, q),
           \A q \in InoReg, tg \in WatchTarget : InoNames(d, q, tg) => InoNames(inoCall[t], q, tg),
           UNCHANGED <<watches, nextWd, registry, inoOpen, inoPast>>
    PROVE  InoInv'
  BY InoAnnounced, InoTypeMoved, InoMoved DEF InoInv, InoTypeOK, InoMentioned, InoCarries, InoParts

(* remove_watch announces the end of the watch.                            *)
LEMMA RemoveIgnoreStep ==
    ASSUME InoInv, NEW t \in InoThread, RemoveIgnore(t)
    PROVE  InoInv'
<1>1. PICK c, d : c = inoCall[t] /\ d = [c EXCEPT !.at = "unregister"]
  OBVIOUS
<1>2. /\ c.at = "ignore" /\ InoMoves(t, d) /\ PushIgnored(c.reg)
      /\ UNCHANGED <<watches, nextWd, registry, inoOpen, inoPast>>
  BY <1>1 DEF RemoveIgnore, InoGo, InoMoves
<1>3. c \in InoSimple /\ c.reg \in InoReg
  BY <1>1, <1>2, InoForms DEF InoInv, InoSimple
<1>4. d \in InoSimple /\ d.at = "unregister" /\ d.reg = c.reg /\ d.target = c.target
  BY <1>1, <1>3 DEF InoSimple
<1>5. d \in InoCallOf /\ InoFormedCall(d)
  BY <1>4 DEF InoCallOf, InoFormedCall, Dispatching
<1>6. /\ InoAnnounces(c, c.reg)
      /\ \A q \in InoReg : /\ ~InoAnnounces(d, q) /\ ~InoDelivers(d, q) /\ (InoClears(d, q) <=> InoClears(c, q)) /\ ~InoEnds(c, q)
                           /\ \A tg \in WatchTarget : InoNames(d, q, tg) => InoNames(c, q, tg)
  BY <1>2, <1>4 DEF InoAnnounces, InoDelivers, InoClears, InoEnds, InoNames, Dispatching
<1> QED BY <1>1, <1>2, <1>3, <1>5, <1>6, InoIgnores

(* notify announces the end of a watch that ended with its event.          *)
LEMMA AutoIgnoreStep ==
    ASSUME InoInv, NEW t \in InoThread, AutoIgnore(t)
    PROVE  InoInv'
<1>1. PICK c, d : c = inoCall[t] /\ d = [c EXCEPT !.at = "look", !.reg = <<>>]
  OBVIOUS
<1>2. /\ c.at = "tell" /\ c.at \in Dispatching /\ InoMoves(t, d) /\ PushIgnored(c.reg)
      /\ UNCHANGED <<watches, nextWd, registry, inoOpen, inoPast>>
  BY <1>1 DEF AutoIgnore, InoGo, InoMoves, Dispatching
<1>3. c \in InoLong /\ InoFormedCall(c)
  BY <1>1, <1>2, InoHand
<1>4. c.reg \in InoReg /\ c.notices # <<>> /\ \A q \in InoReg : q # <<>>
  BY <1>2, <1>3, InoRegForm DEF InoFormedCall
<1>5. /\ d \in InoLong /\ d.at = "look" /\ d.reg = <<>> /\ d.once = c.once /\ d.notices = c.notices /\ d.regs = c.regs
  BY <1>1, <1>3 DEF InoLong, Dispatching
<1>6. d \in InoCallOf /\ InoFormedCall(d) /\ d.at \in Dispatching
  BY <1>4, <1>5 DEF InoCallOf, InoFormedCall, Dispatching
<1>7. /\ InoAnnounces(c, c.reg)
      /\ \A q \in InoReg : ~InoAnnounces(d, q) /\ ~InoDelivers(d, q) /\ (InoClears(d, q) <=> InoClears(c, q))
  BY <1>2, <1>5 DEF InoAnnounces, InoDelivers, InoClears
<1>8. \A q \in InoReg : InoEnds(c, q) => InoEnds(d, q)
  BY <1>2, <1>5, <1>6 DEF InoEnds
<1>9. \A q \in InoReg, tg \in WatchTarget : InoNames(d, q, tg) => InoNames(c, q, tg)
  BY <1>2, <1>4, <1>5 DEF InoNames, Dispatching
<1> QED BY <1>1, <1>2, <1>4, <1>6, <1>7, <1>8, <1>9, InoIgnores

(* The new watch is registered, and found from now on if it is still       *)
(* there.                                                                  *)
LEMMA RegisterStep ==
    ASSUME InoInv, NEW t \in InoThread, Register(t)
    PROVE  InoInv'
<1>1. PICK c, r, home : c = inoCall[t] /\ r = c.reg /\ home = c.target
  OBVIOUS
<1>2. /\ c.at = "register" /\ InoMoves(t, InoIdle) /\ registry' = [registry EXCEPT ![home] = Append(@, r)]
      /\ inoPast' = (IF InoListed(r) THEN inoPast ELSE inoPast \cup {r})
      /\ UNCHANGED <<watches, nextWd, inoOpen, inoQueue, ignored>>
  BY <1>1 DEF Register, InoGo, InoMoves, InoListed
<1>3. c \in InoSimple /\ r \in InoReg /\ home \in WatchTarget
  BY <1>1, <1>2, InoForms DEF InoInv, InoSimple
<1>4. /\ registry \in [WatchTarget -> Seq(InoReg)] /\ registry[home] \in Seq(InoReg)
  BY <1>3 DEF InoInv, InoTypeOK
<1>5. /\ Append(registry[home], r) \in Seq(InoReg)
      /\ \A q : InoIn(q, Append(registry[home], r)) <=> InoIn(q, registry[home]) \/ q = r
  BY <1>3, <1>4, InAppend
<1>6. /\ registry' \in [WatchTarget -> Seq(InoReg)]
      /\ \A q, tg : tg \in WatchTarget => (InoIn(q, registry'[tg]) <=> InoIn(q, registry[tg]) \/ (q = r /\ tg = home))
  BY <1>2, <1>3, <1>4, <1>5
<1>7. inoCall'[t] = InoIdle /\ \A u \in InoThread : u # t => inoCall'[u] = inoCall[u]
  BY <1>2 DEF InoInv, InoTypeOK, InoMoves
<1>8. \A q, tg : /\ ~InoNames(InoIdle, q, tg) /\ ~InoEnds(InoIdle, q) /\ ~InoDelivers(InoIdle, q)
                 /\ ~InoClears(InoIdle, q) /\ ~InoAnnounces(InoIdle, q) /\ InoIdle.at \notin Dispatching
  BY InoIdleNames
<1>9. /\ InoNames(c, r, home) /\ \A q \in InoReg : ~InoAnnounces(c, q) /\ ~InoClears(c, q) /\ (InoEnds(c, q) => q = r)
  BY <1>1, <1>2 DEF InoNames, InoAnnounces, InoClears, InoEnds, Dispatching
<1>10. InoMentioned(r, home)
  BY <1>1, <1>9 DEF InoMentioned
<1>11. \A q : InoListed(q)' <=> InoListed(q)
  BY <1>2 DEF InoListed
<1>12. InoHomes'
  <2>1. ASSUME NEW q \in InoReg, NEW tg \in WatchTarget, InoMentioned(q, tg)' PROVE InoMentioned(q, tg)
    BY <1>2, <1>11, <1>6, <1>10, <1>7, <1>8, <2>1 DEF InoMentioned
  <2> QED BY <1>2, <2>1 DEF InoInv, InoHomes
<1>13. InoFound'
  <2>1. ASSUME NEW q \in InoReg, q[1] \in inoOpen, InoListed(q)
        PROVE  \/ InoIn(q, registry'[watches[q[1]][q[2]].target])
               \/ \E u \in InoThread : InoEnds(inoCall'[u], q)
    <3>1. PICK tg : tg = watches[q[1]][q[2]].target
      OBVIOUS
    <3>2. tg \in WatchTarget /\ InoMentioned(q, tg)
      BY <2>1, <3>1 DEF InoInv, InoTypeOK, InoListed, InoReg, InoMentioned
    <3>3. CASE q = r
      BY <1>3, <1>10, <3>2, <3>3, <1>6, <3>1 DEF InoInv, InoHomes
    <3>4. CASE q # r
      <4>1. InoIn(q, registry[tg]) \/ \E u \in InoThread : InoEnds(inoCall[u], q)
        BY <2>1, <3>1 DEF InoInv, InoFound
      <4> QED BY <1>1, <1>6, <1>7, <1>9, <3>1, <3>2, <3>4, <4>1, Zenon
    <3> QED BY <3>3, <3>4
  <2> QED BY <1>2, <1>11, <2>1, Zenon DEF InoFound
<1>14. InoTold'
  BY <1>2, <1>7, <1>8, <1>11, Zenon DEF InoInv, InoTold
<1>15. InoCleared'
  <2>1. ASSUME NEW q \in InoReg, NEW tg \in WatchTarget, q[1] \in inoOpen, InoIn(q, registry'[tg])
        PROVE  InoListed(q) \/ q \in inoPast' \/ \E u \in InoThread : InoClears(inoCall'[u], q)
    BY <1>2, <1>6, <2>1, <1>1, <1>7, <1>9 DEF InoInv, InoCleared
  <2> QED BY <1>2, <1>11, <2>1, Zenon DEF InoCleared
<1>16. InoGone'
  BY <1>2, <1>7, <1>8, <1>11, Zenon DEF InoInv, InoGone
<1>17. InoOnce'
  BY <1>1, <1>2, <1>8, <1>9, InoSilent DEF InoInv
<1>18. InoQueued'
  BY <1>2, InoUnheard DEF InoInv
<1>19. InoTypeOK' /\ InoFormed'
  BY <1>2, <1>8, <1>6, InoTypeMoved DEF InoInv, InoTypeOK, InoEvent, InoFormedCall, InoCallOf
<1> QED BY <1>12, <1>13, <1>14, <1>15, <1>16, <1>17, <1>18, <1>19 DEF InoInv

(* add_watch on a target that is watched changes the mask alone.           *)
LEMMA AddAgain ==
    ASSUME InoInv, NEW i \in InoFile, NEW wd \in DOMAIN watches[i], NEW mask \in InoMasks,
           watches' = [watches EXCEPT ![i][wd].mask = mask],
           UNCHANGED <<nextWd, registry, inoOpen, inoQueue, inoCall, ignored, inoPast>>
    PROVE  InoInv'
<1>1. watches = [k \in InoFile |-> watches[k]]
  BY DEF InoInv, InoTypeOK
<1>2. PICK f, w : f = watches[i] /\ w = [f[wd] EXCEPT !.mask = mask]
  OBVIOUS
<1>3. PICK g : g = [f EXCEPT ![wd] = w]
  OBVIOUS
<1>4. watches' = [watches EXCEPT ![i] = g]
  BY <1>2, <1>3
<1>5. w \in [target : WatchTarget, mask : InoMasks] /\ w.target = f[wd].target
  BY <1>2 DEF InoInv, InoTypeOK
<1>6. DOMAIN g = DOMAIN f /\ InoFcn(g) /\ g[wd] = w /\ \A x \in DOMAIN f : x # wd => g[x] = f[x]
  BY <1>2, <1>3 DEF InoFcn
<1>7. watches' = [k \in InoFile |-> watches'[k]] /\ watches'[i] = g /\ \A k \in InoFile : k # i => watches'[k] = watches[k]
  BY <1>1, <1>4
<1>8. ASSUME NEW k \in InoFile
      PROVE  /\ DOMAIN watches'[k] = DOMAIN watches[k] /\ InoFcn(watches'[k])
             /\ \A x \in DOMAIN watches[k] : /\ watches'[k][x] \in [target : WatchTarget, mask : InoMasks]
                                             /\ watches'[k][x].target = watches[k][x].target
  BY <1>2, <1>7, <1>5, <1>6 DEF InoInv, InoTypeOK
<1>9. InoTypeOK'
  BY <1>7, <1>8 DEF InoInv, InoTypeOK
<1>10. \A q \in InoReg : (InoListed(q)' <=> InoListed(q)) /\ (InoListed(q) => watches'[q[1]][q[2]].target = watches[q[1]][q[2]].target)
  BY <1>8, InoRegForm DEF InoListed
<1>11. InoFormed' /\ InoQueued'
  BY DEF InoInv, InoFormed, InoQueued, InoQueuedOf
<1>12. InoHomes'
  BY <1>10 DEF InoMentioned, InoInv, InoHomes
<1>13. InoFound' /\ InoTold'
  BY <1>10, Zenon DEF InoInv, InoFound, InoTold
<1>14. InoCleared' /\ InoGone'
  BY <1>10, Zenon DEF InoInv, InoCleared, InoGone
<1>15. InoOnce'
  BY <1>10, Zenon DEF InoInv, InoOnce, InoOnceOf
<1> QED BY <1>9, <1>11, <1>12, <1>13, <1>14, <1>15 DEF InoInv

(* A new watch has a descriptor that nothing mentions.                     *)
LEMMA AddNew ==
    ASSUME InoInv, NEW t \in InoThread, NEW i \in InoFile, NEW target \in WatchTarget, NEW mask \in InoMasks,
           NEW n, n = nextWd[i], n <= MaxWd, NEW d,
           inoCall[t] = InoIdle, d = [at |-> "register", target |-> target, reg |-> <<i, n>>], InoMoves(t, d),
           watches' = [watches EXCEPT ![i] = [wd \in DOMAIN watches[i] \cup {n} |->
                         IF wd = n THEN [target |-> target, mask |-> mask] ELSE watches[i][wd]]],
           nextWd' = [nextWd EXCEPT ![i] = n + 1],
           UNCHANGED <<registry, inoOpen, inoQueue, ignored, inoPast>>
    PROVE  InoInv'
<1>1. PICK r : r = <<i, n>>
  OBVIOUS
<1>2. n \in 1..MaxWd /\ r \in InoReg /\ r[1] = i /\ r[2] = n /\ nextWd \in [InoFile -> 1..(MaxWd + 1)] /\ MaxWd \in Nat
  BY <1>1, InotifyAssumption DEF InoInv, InoTypeOK, InoReg
<1>3. d \in InoSimple /\ d.at = "register" /\ d.reg = r /\ d.target = target
  BY <1>1, <1>2 DEF InoSimple
<1>4. inoCall'[t] = d /\ \A u \in InoThread : u # t => inoCall'[u] = inoCall[u]
  BY DEF InoInv, InoTypeOK, InoMoves
<1>5. nextWd' \in [InoFile -> 1..(MaxWd + 1)] /\ nextWd'[i] = n + 1 /\ \A k \in InoFile : k # i => nextWd'[k] = nextWd[k]
  BY <1>2
<1>6. PICK g : g = [wd \in DOMAIN watches[i] \cup {n} |-> IF wd = n THEN [target |-> target, mask |-> mask] ELSE watches[i][wd]]
  OBVIOUS
<1>7. DOMAIN watches[i] \subseteq 1..(n - 1) /\ n \notin DOMAIN watches[i]
  BY <1>2 DEF InoInv, InoTypeOK
<1>8. /\ DOMAIN g = DOMAIN watches[i] \cup {n} /\ InoFcn(g) /\ g[n] = [target |-> target, mask |-> mask]
      /\ \A x \in DOMAIN watches[i] : g[x] = watches[i][x]
  BY <1>6, <1>7 DEF InoFcn
<1>9. watches' = [k \in InoFile |-> watches'[k]] /\ watches'[i] = g /\ \A k \in InoFile : k # i => watches'[k] = watches[k]
  BY <1>6 DEF InoInv, InoTypeOK
<1>10. ASSUME NEW k \in InoFile
       PROVE  /\ DOMAIN watches'[k] \subseteq 1..(nextWd'[k] - 1) /\ InoFcn(watches'[k])
              /\ \A x \in DOMAIN watches'[k] : watches'[k][x] \in [target : WatchTarget, mask : InoMasks]
  <2>1. CASE k = i
    <3>1. DOMAIN g \subseteq 1..n
      BY <1>2, <1>7, <1>8
    <3>2. (n + 1) - 1 = n
      BY <1>2
    <3>3. \A x \in DOMAIN g : g[x] \in [target : WatchTarget, mask : InoMasks]
      BY <1>8 DEF InoInv, InoTypeOK
    <3>4. watches'[k] = g /\ nextWd'[k] - 1 = n
      BY <1>5, <1>9, <2>1, <3>2
    <3> QED BY <1>8, <3>1, <3>3, <3>4, Zenon
  <2>2. CASE k # i
    BY <1>5, <1>9, <2>2 DEF InoInv, InoTypeOK
  <2> QED BY <2>1, <2>2
<1>11. InoTypeOK'
  BY <1>3, <1>5, <1>9, <1>10 DEF InoInv, InoTypeOK, InoMoves, InoCallOf
<1>12. InoFormed'
  BY <1>3, <1>4 DEF InoFormedCall, Dispatching, InoInv, InoFormed
<1>13. InoQueued'
  BY InoUnheard DEF InoInv
<1>14. \A q \in InoReg : q = r <=> q[1] = i /\ q[2] = n
  BY <1>1, InoRegForm
<1>15. /\ \A q \in InoReg : InoListed(q)' <=> InoListed(q) \/ q = r
       /\ ~InoListed(r) /\ \A q \in InoReg : InoListed(q) => watches'[q[1]][q[2]] = watches[q[1]][q[2]]
       /\ watches'[r[1]][r[2]].target = target
  BY <1>2, <1>7, <1>8, <1>9, <1>14, InoRegForm DEF InoListed
<1>16. \A q \in InoReg : (q[2] < nextWd[q[1]] => q[2] < nextWd'[q[1]] /\ q # r) /\ (q[2] < nextWd'[q[1]] /\ q # r => q[2] < nextWd[q[1]])
                         /\ r[2] < nextWd'[r[1]]
  BY <1>2, <1>5, <1>14, InoRegForm
<1>17. \A tg \in WatchTarget : ~InoMentioned(r, tg)
  BY <1>2, <1>16 DEF InoInv, InoHomes
<1>18. \A q \in InoReg, tg \in WatchTarget : InoNames(d, q, tg) => q = r /\ tg = target
  BY <1>3 DEF InoNames, Dispatching
<1>19. \A q \in InoReg : /\ ~InoDelivers(d, q) /\ ~InoClears(d, q) /\ ~InoAnnounces(d, q) /\ InoEnds(d, r)
                         /\ ~InoEnds(inoCall[t], q) /\ ~InoClears(inoCall[t], q) /\ ~InoAnnounces(inoCall[t], q)
  BY <1>3, InoIdleNames DEF InoDelivers, InoClears, InoAnnounces, InoEnds
<1>20. InoHomes'
  <2>1. ASSUME NEW q \in InoReg, NEW tg \in WatchTarget, InoMentioned(q, tg)'
        PROVE  InoMentioned(q, tg) \/ (q = r /\ tg = target)
    BY <1>15, <1>4, <1>18, <2>1 DEF InoMentioned
  <2>2. ASSUME NEW q \in InoReg, NEW a \in WatchTarget, InoMentioned(q, a)'
        PROVE  q[2] < nextWd'[q[1]] /\ \A b \in WatchTarget : InoMentioned(q, b)' => a = b
    BY <1>16, <1>17, <2>1, <2>2 DEF InoInv, InoHomes
  <2> QED BY <2>2, Zenon DEF InoHomes
<1>21. InoFound'
  BY <1>4, <1>15, <1>19, Zenon DEF InoInv, InoFound
<1>22. InoTold' /\ InoCleared'
  BY <1>4, <1>15, <1>19, Zenon DEF InoInv, InoTold, InoCleared
<1>23. InoGone'
  BY <1>4, <1>19, <1>15, <1>16 DEF InoInv, InoGone
<1>24. \A u \in InoThread, q \in InoReg : InoAnnounces(inoCall'[u], q) <=> InoAnnounces(inoCall[u], q)
  BY <1>4, <1>19
<1>25. ASSUME NEW q \in InoReg PROVE InoOnceOf(q)'
  BY <1>2, <1>16, <1>15, <1>24 DEF InoInv, InoOnce, InoOnceOf
<1>26. InoOnce'
  BY <1>25, Zenon DEF InoOnce
<1> QED BY <1>11, <1>12, <1>13, <1>20, <1>21, <1>22, <1>23, <1>26 DEF InoInv

(* add_watch changes a mask, or lists a new watch that is to be            *)
(* registered.                                                             *)
LEMMA AddWatchStep ==
    ASSUME InoInv, NEW t \in InoThread, NEW i \in InoFile, NEW target \in WatchTarget, NEW mask \in WatchMasks,
           NEW mode, AddWatch(t, i, target, mask, mode)
    PROVE  InoInv'
<1>1. mask \in InoMasks /\ \A m \in InoMasks : m \cup mask \in InoMasks
  BY DEF InoMasks
<1>2. CASE Watching(i, target) # {}
  <2>1. PICK wd : wd = CHOOSE w \in Watching(i, target) : TRUE
    OBVIOUS
  <2>2. wd \in DOMAIN watches[i] /\ watches[i][wd].mask \in InoMasks
    BY <1>2, <2>1 DEF Watching, InoInv, InoTypeOK
  <2>3. PICK new : new = IF mode = "add" THEN watches[i][wd].mask \cup mask ELSE mask
    OBVIOUS
  <2>4. new \in InoMasks
    BY <1>1, <2>2, <2>3
  <2>5. watches' = [watches EXCEPT ![i][wd].mask = new]
    BY <1>2, <2>1, <2>3 DEF AddWatch
  <2>6. UNCHANGED <<nextWd, registry, inoOpen, inoQueue, inoCall, ignored, inoPast>>
    BY <1>2 DEF AddWatch
  <2> QED BY <2>2, <2>4, <2>5, <2>6, AddAgain
<1>3. CASE Watching(i, target) = {}
  <2>1. PICK n, d : n = nextWd[i] /\ d = [at |-> "register", target |-> target, reg |-> <<i, n>>]
    OBVIOUS
  <2>2. /\ inoCall[t] = InoIdle /\ n <= MaxWd /\ InoMoves(t, d) /\ UNCHANGED <<registry, inoOpen, inoQueue, ignored, inoPast>>
        /\ watches' = [watches EXCEPT ![i] = [wd \in DOMAIN watches[i] \cup {n} |->
                         IF wd = n THEN [target |-> target, mask |-> mask] ELSE watches[i][wd]]]
        /\ nextWd' = [nextWd EXCEPT ![i] = n + 1]
    BY <1>3, <2>1 DEF AddWatch, InoStarts, InoGo, InoMoves
  <2> QED BY <1>1, <2>1, <2>2, AddNew, ZenonT(40)
<1> QED BY <1>2, <1>3

(* A file is closed: its watches are nobody's.                             *)
LEMMA InoCloseStep ==
    ASSUME InoInv, NEW i \in InoFile, InoClose(i)
    PROVE  InoInv'
<1>1. inoOpen' \subseteq inoOpen /\ UNCHANGED <<watches, nextWd, registry, inoQueue, inoCall, ignored, inoPast>>
  BY DEF InoClose
<1>2. \A q : InoListed(q)' <=> InoListed(q)
  BY <1>1 DEF InoListed
<1>3. InoTypeOK'
  BY <1>1 DEF InoInv, InoTypeOK
<1>4. InoFormed' /\ InoQueued'
  BY <1>1 DEF InoInv, InoFormed, InoQueued, InoQueuedOf
<1>5. \A q, tg : InoMentioned(q, tg)' <=> InoMentioned(q, tg)
  BY <1>1, <1>2 DEF InoMentioned
<1>6. InoHomes' /\ InoTold' /\ InoGone'
  BY <1>1, <1>2, <1>5 DEF InoInv, InoHomes, InoTold, InoGone
<1>7. InoFound' /\ InoCleared'
  BY <1>1, <1>2 DEF InoInv, InoFound, InoCleared
<1>8. InoOnce'
  BY <1>1, <1>2, Zenon DEF InoInv, InoOnce, InoOnceOf
<1> QED BY <1>3, <1>4, <1>6, <1>7, <1>8 DEF InoInv

(* read takes events from the front of the queue: the order of the rest    *)
(* stays.                                                                  *)
LEMMA InoReadStep ==
    ASSUME InoInv, NEW i \in InoFile, NEW n, InoRead(i, n)
    PROVE  InoInv'
<1>1. PICK s : s = inoQueue[i]
  OBVIOUS
<1>2. /\ n \in 1..Len(s) /\ inoQueue' = [inoQueue EXCEPT ![i] = SubSeq(s, n + 1, Len(s))]
      /\ UNCHANGED <<watches, nextWd, registry, inoOpen, inoCall, ignored, inoPast>>
  BY <1>1 DEF InoRead
<1>3. inoQueue \in [InoFile -> Seq(InoEvent)] /\ s \in Seq(InoEvent) /\ Len(s) \in Nat /\ DOMAIN s = 1..Len(s)
  <2>1. inoQueue \in [InoFile -> Seq(InoEvent)]
    BY DEF InoInv, InoTypeOK, InoEvent
  <2> QED BY <1>1, <2>1
<1>4. PICK q : q = SubSeq(s, n + 1, Len(s))
  OBVIOUS
<1>5. q \in Seq(InoEvent) /\ DOMAIN q = 1..(Len(s) - n) /\ \A k \in 1..(Len(s) - n) : q[k] = s[k + n] /\ k + n \in 1..Len(s)
  <2>1. /\ q \in Seq(InoEvent) /\ Len(q) = Len(s) - n /\ \A k \in 1..(Len(s) - n) : q[k] = s[n + 1 + k - 1]
    <3>1. \A k \in (n + 1)..Len(s) : s[k] \in InoEvent
      BY <1>2, <1>3
    <3>2. n + 1 \in Int /\ Len(s) \in Int /\ n \in Nat
      BY <1>2, <1>3
    <3>3. Len(q) = (IF n + 1 <= Len(s) THEN Len(s) - (n + 1) + 1 ELSE 0) /\ q \in Seq(InoEvent)
      BY <1>3, <1>4, <3>1, <3>2, SubSeqProperties
    <3>4. PICK m, l : m = Len(s) /\ l = Len(q)
      OBVIOUS
    <3>5. m \in Nat /\ n \in 1..m /\ l = (IF n + 1 <= m THEN m - (n + 1) + 1 ELSE 0)
      BY <1>2, <1>3, <3>3, <3>4
    <3>6. l = m - n
      BY <3>5
    <3>7. \A k \in 1..l : q[k] = s[n + 1 + k - 1]
      BY <1>3, <1>4, <3>1, <3>2, <3>4, SubSeqProperties
    <3> QED BY <3>3, <3>4, <3>6, <3>7
  <2>2. DOMAIN q = 1..(Len(s) - n)
    BY <2>1
  <2>3. \A k \in 1..(Len(s) - n) : n + 1 + k - 1 = k + n /\ k + n \in 1..Len(s)
    BY <1>2, <1>3
  <2> QED BY <2>1, <2>2, <2>3
<1>6. inoQueue' \in [InoFile -> Seq(InoEvent)] /\ inoQueue'[i] = q /\ \A f \in InoFile : f # i => inoQueue'[f] = inoQueue[f]
  BY <1>2, <1>3, <1>4, <1>5
<1>7. \A j, k \in 1..(Len(s) - n) : j < k => j + n < k + n
  BY <1>2, <1>3
<1>8. ASSUME NEW f \in InoFile PROVE InoQueuedOf(f)'
  <2>1. InoQueuedOf(f)
    BY DEF InoInv, InoQueued
  <2>2. CASE f # i
    BY <1>2, <1>6, <2>1, <2>2 DEF InoQueuedOf
  <2>3. CASE f = i
    <3>1. /\ \A j \in 1..Len(s) : s[j].event = "ignored" => ignored[i][s[j].wd] # 0
          /\ \A j, k \in 1..Len(s) : (j < k /\ s[j].event = "ignored" /\ s[k].wd = s[j].wd) => <<i, s[j].wd>> \in inoPast
      BY <1>1, <1>3, <2>1, <2>3, Zenon DEF InoQueuedOf
    <3>2. /\ \A j \in 1..(Len(s) - n) : q[j].event = "ignored" => ignored[i][q[j].wd] # 0
          /\ \A j, k \in 1..(Len(s) - n) : (j < k /\ q[j].event = "ignored" /\ q[k].wd = q[j].wd) => <<i, q[j].wd>> \in inoPast
      BY <1>5, <1>7, <3>1
    <3>3. inoQueue'[i] = q /\ DOMAIN q = 1..(Len(s) - n) /\ ignored' = ignored /\ inoPast' = inoPast
      BY <1>2, <1>5, <1>6
    <3> QED BY <2>3, <3>2, <3>3, Zenon DEF InoQueuedOf
  <2> QED BY <2>2, <2>3
<1>9. InoQueued'
  BY <1>8, Zenon DEF InoQueued
<1>10. \A r : InoListed(r)' <=> InoListed(r)
  BY <1>2 DEF InoListed
<1>11. InoTypeOK'
  BY <1>2, <1>6 DEF InoInv, InoTypeOK, InoEvent
<1>12. \A r, tg : InoMentioned(r, tg)' <=> InoMentioned(r, tg)
  BY <1>2, <1>10 DEF InoMentioned
<1>13. InoFormed' /\ InoHomes' /\ InoTold' /\ InoGone'
  BY <1>2, <1>10, <1>12 DEF InoInv, InoFormed, InoHomes, InoTold, InoGone
<1>14. InoFound' /\ InoCleared'
  BY <1>2, <1>10 DEF InoInv, InoFound, InoCleared
<1>15. InoOnce'
  BY <1>2, <1>10, Zenon DEF InoInv, InoOnce, InoOnceOf
<1> QED BY <1>9, <1>11, <1>13, <1>14, <1>15 DEF InoInv

(* The invariant holds before the first watch.                             *)
LEMMA InoStart == InoInit => InoInv
<1> SUFFICES ASSUME InoInit PROVE InoInv
  OBVIOUS
<1>1. \A t \in InoThread : inoCall[t] = InoIdle
  BY DEF InoInit
<1>2. \A r, tg : /\ ~InoNames(InoIdle, r, tg) /\ ~InoEnds(InoIdle, r) /\ ~InoDelivers(InoIdle, r)
                 /\ ~InoClears(InoIdle, r) /\ ~InoAnnounces(InoIdle, r) /\ InoIdle.at \notin Dispatching
  BY InoIdleNames
<1>3. \A r \in InoReg : ~InoListed(r) /\ \A tg \in WatchTarget : ~InoIn(r, registry[tg])
  BY InoRegForm, InEmpty DEF InoInit, InoListed
<1>4. InoTypeOK
  <2>1. /\ watches = [i \in InoFile |-> watches[i]] /\ \A i \in InoFile : watches[i] = <<>> /\ DOMAIN watches[i] = {}
    BY DEF InoInit
  <2>2. \A i \in InoFile : InoFcn(watches[i])
    <3>1. <<>> \in [1..0 -> {}]
      OBVIOUS
    <3>2. InoFcn(<<>>)
      BY <3>1 DEF InoFcn
    <3> QED BY <2>1, <3>2
  <2>3. inoCall \in [InoThread -> InoCallOf] /\ ignored \in [InoFile -> [1..MaxWd -> Nat]] /\ inoOpen \subseteq InoFile
    BY DEF InoInit, InoCallOf
  <2>4. registry \in [WatchTarget -> Seq(InoReg)] /\ inoQueue \in [InoFile -> Seq([wd : 1..MaxWd, event : InoHeard \cup {"ignored"}])]
    BY DEF InoInit
  <2>5. nextWd \in [InoFile -> 1..(MaxWd + 1)]
    BY InotifyAssumption DEF InoInit
  <2> QED BY <2>1, <2>2, <2>3, <2>4, <2>5 DEF InoTypeOK
<1>5. InoFormed
  BY <1>1, <1>2 DEF InoFormed, InoFormedCall
<1>6. InoHomes /\ InoFound
  BY <1>1, <1>2, <1>3, Zenon DEF InoHomes, InoMentioned, InoFound
<1>7. InoTold /\ InoCleared /\ InoGone
  BY <1>1, <1>2, <1>3, Zenon DEF InoTold, InoCleared, InoGone
<1>8. InoOnce
  <2>1. \A r \in InoReg : ignored[r[1]][r[2]] = 0 /\ ~(r[2] < nextWd[r[1]])
    BY InoRegForm DEF InoInit
  <2> QED BY <1>1, <1>2, <1>3, <2>1, Zenon DEF InoOnce, InoOnceOf
<1>9. InoQueued
  BY DEF InoInit, InoQueued, InoQueuedOf
<1> QED BY <1>4, <1>5, <1>6, <1>7, <1>8, <1>9 DEF InoInv

(* Every step keeps the invariant.                                         *)
LEMMA InoStep == InoInv /\ [InoNext]_inoVars => InoInv'
<1> SUFFICES ASSUME InoInv, [InoNext]_inoVars PROVE InoInv'
  OBVIOUS
<1>1. CASE UNCHANGED inoVars
  <2>1. UNCHANGED <<watches, nextWd, registry, inoOpen, inoQueue, inoCall, ignored, inoPast>>
    BY <1>1 DEF inoVars
  <2>2. \A r : InoListed(r)' <=> InoListed(r)
    BY <2>1 DEF InoListed
  <2>3. \A r, tg : InoMentioned(r, tg)' <=> InoMentioned(r, tg)
    BY <2>1, <2>2 DEF InoMentioned
  <2>4. InoTypeOK' /\ InoFormed' /\ InoQueued'
    BY <2>1 DEF InoInv, InoTypeOK, InoFormed, InoQueued, InoQueuedOf
  <2>5. InoHomes' /\ InoTold' /\ InoGone' /\ InoFound' /\ InoCleared'
    BY <2>1, <2>2, <2>3 DEF InoInv, InoHomes, InoTold, InoGone, InoFound, InoCleared
  <2>6. InoOnce'
    BY <2>1, <2>2, Zenon DEF InoInv, InoOnce, InoOnceOf
  <2> QED BY <2>4, <2>5, <2>6 DEF InoInv
<1>2. ASSUME NEW t \in InoThread, NEW i \in InoFile, NEW target \in WatchTarget, NEW mask \in WatchMasks, NEW mode,
             AddWatch(t, i, target, mask, mode)
      PROVE  InoInv'
  BY <1>2, AddWatchStep
<1>3. ASSUME NEW t \in InoThread, NEW i \in InoFile, NEW wd \in 1..MaxWd, RemoveWatch(t, i, wd) PROVE InoInv'
  BY <1>3, RemoveWatchStep
<1>4. ASSUME NEW t \in InoThread, NEW notices \in Notices, NotifyStart(t, notices) PROVE InoInv'
  BY <1>4, NotifyStartStep
<1>5. ASSUME NEW t \in InoThread, Register(t) \/ RemoveIgnore(t) \/ RemoveUnregister(t) PROVE InoInv'
  BY <1>5, RegisterStep, RemoveIgnoreStep, RemoveUnregisterStep
<1>6. ASSUME NEW t \in InoThread, Take(t) \/ Look(t) \/ Deliver(t) \/ Told(t) PROVE InoInv'
  BY <1>6, TakeStep, LookStep, DeliverStep, ToldStep
<1>7. ASSUME NEW t \in InoThread, AutoRemove(t) \/ AutoUnregister(t) \/ AutoIgnore(t) PROVE InoInv'
  BY <1>7, AutoRemoveStep, AutoUnregisterStep, AutoIgnoreStep
<1>8. ASSUME NEW i \in InoFile, InoClose(i) \/ \E n \in 1..MaxInoEvents : InoRead(i, n) PROVE InoInv'
  BY <1>8, InoCloseStep, InoReadStep
<1> QED BY <1>1, <1>2, <1>3, <1>4, <1>5, <1>6, <1>7, <1>8 DEF InoNext

(* The invariant says what WatchesSound says.                              *)
LEMMA InoSoundness == InoInv => WatchesSound
<1> SUFFICES ASSUME InoInv PROVE WatchesSound
  OBVIOUS
<1>1. \A r \in InoReg : (\E t \in InoThread : InoEnds(inoCall[t], r) \/ InoClears(inoCall[t], r) \/ InoAnnounces(inoCall[t], r)) => Held(r)
  BY DEF InoEnds, InoClears, InoAnnounces, Held, InoIn, Dispatching
<1>2. WatchesHeard
  <2>1. ASSUME NEW i \in inoOpen, NEW wd \in DOMAIN watches[i]
        PROVE  Registered(<<i, wd>>, watches[i][wd].target) \/ Held(<<i, wd>>)
    <3>1. PICK r : r = <<i, wd>>
      OBVIOUS
    <3>2. r \in InoReg /\ r[1] = i /\ r[2] = wd
      BY <3>1, InotifyAssumption DEF InoInv, InoTypeOK, InoReg
    <3>3. InoIn(r, registry[watches[i][wd].target]) \/ \E t \in InoThread : InoEnds(inoCall[t], r)
      BY <3>2 DEF InoInv, InoFound, InoListed
    <3> QED BY <1>1, <3>1, <3>2, <3>3 DEF Registered, InoIn
  <2>2. ASSUME NEW i \in inoOpen, NEW target \in WatchTarget, NEW k \in DOMAIN registry[target], NEW r, r = registry[target][k], r[1] = i
        PROVE  r[2] \in DOMAIN watches[i] \/ Held(r) \/ r \in inoPast
    <3>1. r \in InoReg /\ InoIn(r, registry[target])
      BY <2>2 DEF InoInv, InoTypeOK, InoIn
    <3> QED BY <1>1, <2>2, <3>1 DEF InoInv, InoCleared, InoListed
  <2> QED BY <2>1, <2>2 DEF WatchesHeard
<1>3. IgnoredOnce
  <2>1. ASSUME NEW i \in inoOpen, NEW wd \in 1..(nextWd[i] - 1)
        PROVE  ignored[i][wd] <= 1 /\ (wd \notin DOMAIN watches[i] /\ ~Held(<<i, wd>>) => ignored[i][wd] = 1)
    <3>1. PICK r : r = <<i, wd>>
      OBVIOUS
    <3>2. r \in InoReg /\ r[1] = i /\ r[2] = wd /\ wd < nextWd[i]
      BY <3>1, InotifyAssumption DEF InoInv, InoTypeOK, InoReg
    <3>3. InoOnceOf(r)
      BY <3>2 DEF InoInv, InoOnce
    <3>4. ignored[i][wd] = 0 \/ ignored[i][wd] = 1
      BY <3>2, <3>3 DEF InoOnceOf
    <3>5. InoListed(r) <=> wd \in DOMAIN watches[i]
      BY <3>2 DEF InoListed
    <3>6. wd \notin DOMAIN watches[i] /\ ~Held(r) => ignored[i][wd] = 1
      BY <1>1, <3>2, <3>3, <3>5, Zenon DEF InoOnceOf
    <3> QED BY <3>1, <3>4, <3>6
  <2>2. \A i \in inoOpen : InoQueuedOf(i)
    BY DEF InoInv, InoQueued, InoTypeOK
  <2> QED BY <2>1, <2>2, Zenon DEF IgnoredOnce, InoQueuedOf
<1> QED BY <1>2, <1>3 DEF WatchesSound

(* For any number of files, threads, targets and descriptors: a watch of   *)
(* an open file is found through its target or about to be, a registration *)
(* without a watch is about to be cleared, each watch that ends is         *)
(* announced exactly once and nothing is queued for it after that, but for *)
(* the watches that another call ended while an event for them was under   *)
(* way (inotify.rs).                                                       *)
THEOREM Watches == InoSpec => []WatchesSound
<1> QED BY InoStart, InoStep, InoSoundness, PTL DEF InoSpec
=============================================================================
