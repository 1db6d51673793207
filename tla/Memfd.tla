------------------------------- MODULE Memfd -------------------------------
(***************************************************************************)
(* Memory files (aether-vfs node.rs, SharedMemoryFile): the file behind    *)
(* memfd_create and the segments of System V shared memory.  Its pages are *)
(* mapped as they are, so a store through a mapping takes no lock and does *)
(* not look at the size.  Pages are never given back before the file goes. *)
(*                                                                         *)
(* Size and pages are behind the lock of the state; the seals are an       *)
(* atomic of their own, read before the lock is taken (write) or under it  *)
(* (growing and shrinking).  A page is two units of content.               *)
(***************************************************************************)
EXTENDS Integers

CONSTANTS
    MfThread,
    MfPages,       \* pages the file may have
    SealSets,      \* the arguments of F_ADD_SEALS
    MfBudgets,     \* bounds: changes of the file, stores through mappings; mmap is not counted
    NoHolder

MfUnit == 2
MfUnits == 0..(MfUnit * MfPages - 1)

ASSUME MemfdAssumption ==
    /\ MfPages \in Nat \ {0} /\ NoHolder \notin MfThread
    /\ SealSets \subseteq SUBSET {"seal", "shrink", "grow", "write"}

VARIABLES
    mfSize,     \* in units
    mfAlloc,    \* pages allocated: at least those of the size
    mfData,     \* the content of every unit of an allocated page
    mfSeals,
    mfMapped,   \* pages some process has mapped
    mfHolder,   \* the thread that holds the lock of the state
    mfCall,
    mfBudget    \* what is left of the bounds
mfVars == <<mfSize, mfAlloc, mfData, mfSeals, mfMapped, mfHolder, mfCall, mfBudget>>

MfIdle == [at |-> "idle"]
Written == 1
StoredThrough == 2
\* new_memfd: without MFD_ALLOW_SEALING the file is sealed against seals.
InitialSeals == {{}, {"seal"}}
MfInit ==
    /\ mfSize = 0 /\ mfAlloc = 0 /\ mfData = [u \in MfUnits |-> 0]
    /\ mfSeals \in InitialSeals /\ mfMapped = {}
    /\ mfHolder = NoHolder
    /\ mfCall = [t \in MfThread |-> MfIdle] /\ mfBudget \in MfBudgets

MfGo(t, call) == mfCall' = [mfCall EXCEPT ![t] = call]
SpendMf(what) == mfBudget[what] > 0 /\ mfBudget' = [mfBudget EXCEPT ![what] = @ - 1]
MfStarts(t) == mfCall[t] = MfIdle /\ SpendMf("calls")
MfSame == UNCHANGED <<mfSize, mfAlloc, mfData, mfSeals, mfMapped>>
\* The call returns, and its guard of the lock is dropped.
MfReturn(t) ==
    /\ MfGo(t, MfIdle)
    /\ mfHolder' = IF mfHolder = t THEN NoHolder ELSE mfHolder

---------------------------------------------------------------------------
(* Changing the file                                                       *)

MfChange(t, at, op, pos, end) ==
    /\ MfStarts(t)
    /\ MfGo(t, [at |-> at, op |-> op, pos |-> pos, end |-> end])
    /\ UNCHANGED mfHolder /\ MfSame
MfWrite(t, pos, end) == pos < end /\ MfChange(t, "check", "write", pos, end)
Ftruncate(t, end) == MfChange(t, "lock", "truncate", 0, end)
\* mode: with or without FALLOC_FL_KEEP_SIZE
Fallocate(t, pos, end, mode) == pos < end /\ MfChange(t, "lock", mode, pos, end)

\* ensure_write_allowed, before the lock
MfCheckWrite(t) ==
    /\ mfCall[t].at = "check"
    /\ IF "write" \in mfSeals THEN MfReturn(t)
       ELSE MfGo(t, [mfCall[t] EXCEPT !.at = "lock"]) /\ UNCHANGED mfHolder
    /\ MfSame /\ UNCHANGED mfBudget

\* ensure_grow_allowed and ensure_shrink_allowed
Allowed(call) ==
    /\ call.end > mfSize => "grow" \notin mfSeals
    /\ call.op = "truncate" /\ call.end < mfSize => "shrink" \notin mfSeals
MfLock(t) ==
    /\ mfCall[t].at = "lock" /\ mfHolder = NoHolder
    /\ IF Allowed(mfCall[t])
       THEN MfGo(t, [mfCall[t] EXCEPT !.at = "apply"]) /\ mfHolder' = t
       ELSE MfGo(t, MfIdle) /\ UNCHANGED mfHolder
    /\ MfSame /\ UNCHANGED mfBudget

\* ensure_capacity: new pages are zeroed.  The allocator may have too few;
\* those it gave stay.
PagesFor(end) == (end + MfUnit - 1) \div MfUnit
Capacities(end) ==
    IF PagesFor(end) <= mfAlloc THEN {mfAlloc} ELSE mfAlloc..PagesFor(end)

\* The new contents: write fills the gap it leaves behind the old end with
\* zeroes, truncate what it cuts off or adds, fallocate what it adds.
\* Mutant of Zeroed: what a longer file shows is taken to be zero already.
ZeroedOnShrink(call) ==
    [u \in MfUnits |->
      IF call.op = "write" /\ call.pos <= u /\ u < call.end THEN Written
      ELSE IF call.op = "truncate" /\ call.end <= u /\ u < mfSize THEN 0 ELSE mfData[u]]
Zeroed(call) ==
    [u \in MfUnits |->
      CASE call.op = "write" /\ call.pos <= u /\ u < call.end -> Written
        [] call.op = "write" /\ mfSize <= u /\ u < call.pos -> 0
        [] call.op = "truncate" /\ (mfSize <= u) # (call.end <= u) -> 0
        [] call.op = "fallocate" /\ mfSize <= u /\ u < call.end -> 0
        [] OTHER -> mfData[u]]
MfApply(t) ==
    /\ mfCall[t].at = "apply"
    /\ LET call == mfCall[t]
       IN  /\ mfAlloc' \in IF call.op = "truncate" /\ call.end <= mfSize THEN {mfAlloc}
                           ELSE Capacities(call.end)
           /\ IF PagesFor(call.end) <= mfAlloc'
              THEN /\ mfData' = Zeroed(call)
                   /\ mfSize' = CASE call.op = "truncate" -> call.end
                                  [] call.op = "keep" -> mfSize
                                  [] OTHER -> IF call.end > mfSize THEN call.end ELSE mfSize
              ELSE UNCHANGED <<mfData, mfSize>>
    /\ MfReturn(t) /\ UNCHANGED <<mfSeals, mfMapped, mfBudget>>

---------------------------------------------------------------------------
(* Seals and mappings                                                      *)

\* add_seals: a loop of compare and exchange
MfAddSeals(t, seals) ==
    /\ MfStarts(t) /\ "seal" \notin mfSeals
    /\ mfSeals' = mfSeals \cup seals
    /\ UNCHANGED <<mfSize, mfAlloc, mfData, mfMapped, mfHolder, mfCall>>

\* mmap, shared_pages: allocated pages, the last one perhaps beyond the end
MfMap(t, first, count) ==
    /\ mfCall[t] = MfIdle /\ mfHolder = NoHolder
    /\ MfUnit * (first + count) < mfSize + MfUnit /\ first + count <= mfAlloc
    /\ mfMapped' = mfMapped \cup (first..(first + count - 1))
    /\ UNCHANGED <<mfSize, mfAlloc, mfData, mfSeals, mfHolder, mfCall, mfBudget>>

\* A store of the program through its mapping
MfStore(u) ==
    /\ u \div MfUnit \in mfMapped /\ SpendMf("stores")
    /\ mfData' = [mfData EXCEPT ![u] = StoredThrough]
    /\ UNCHANGED <<mfSize, mfAlloc, mfSeals, mfMapped, mfHolder, mfCall>>

MfNext ==
    \/ \E t \in MfThread :
         \/ mfCall[t] = MfIdle /\ \E pos, end \in MfUnits \cup {MfUnit * MfPages} :
              MfWrite(t, pos, end) \/ Fallocate(t, pos, end, "fallocate") \/ Fallocate(t, pos, end, "keep")
         \/ \E end \in MfUnits \cup {MfUnit * MfPages} : Ftruncate(t, end)
         \/ MfCheckWrite(t) \/ MfLock(t) \/ MfApply(t)
         \/ \E seals \in SealSets : MfAddSeals(t, seals)
         \/ \E first \in 0..(MfPages - 1), count \in 1..MfPages : MfMap(t, first, count)
    \/ \E u \in MfUnits : MfStore(u)
MfSpec == MfInit /\ [][MfNext]_mfVars

---------------------------------------------------------------------------
(* Properties                                                              *)

(* What a step adds at the end of the file reads as zero, except where the  *)
(* call that adds it writes: neither what the file held before it was cut  *)
(* nor what was stored through a mapping beyond the end comes back, in     *)
(* whichever way the file gets longer (write past the end, ftruncate,      *)
(* fallocate).                                                             *)
GrowthReadsZero ==
    \A u \in MfUnits : mfSize <= u /\ u < mfSize' =>
         \/ mfData'[u] = 0
         \/ \E t \in MfThread : /\ mfCall[t].at = "apply" /\ mfCall[t].op = "write"
                                /\ mfCall[t].pos <= u /\ u < mfCall[t].end

(* A sealed file holds still: once it is sealed against growing, shrinking *)
(* and writing, and the calls that had made their checks before have       *)
(* ended, no later call gets past the checks to change its size or its     *)
(* contents; only stores through mappings still do.                        *)
Settled ==
    /\ {"grow", "shrink", "write"} \subseteq mfSeals
    /\ \A t \in MfThread :
         LET call == mfCall[t]
         IN  /\ call.at \in {"lock", "apply"} => call.op # "write"
             /\ call.at = "apply" => /\ call.end <= mfSize
                                     /\ call.op = "truncate" => call.end = mfSize
SealsHold ==
    Settled => /\ Settled' /\ mfSize' = mfSize
               /\ \A u \in MfUnits : mfData'[u] # mfData[u] => u \div MfUnit \in mfMapped

(* A memory file gives back nothing it was told to forget, and keeps its   *)
(* seals (node.rs, SharedMemoryFile).                                      *)
MemfdSound == [][GrowthReadsZero /\ SealsHold]_mfVars
============================================================================
