------------------------------ MODULE SysvShm ------------------------------
(***************************************************************************)
(* System V shared memory (fs/shm.rs): segments with a count of their      *)
(* attachments, and per address space the attachments and the number of    *)
(* processes that share it.  shmat and shmdt look at the registry, change  *)
(* the mappings of the address space without it, and then come back to it. *)
(***************************************************************************)
EXTENDS Integers, FiniteSets, Sequences

CONSTANTS
    ShmThread,      \* processes and threads
    ShmSpace,       \* address spaces
    ShmKey,         \* keys other than IPC_PRIVATE
    ShmSizes, MaxShmId, MaxShmCalls, NoSpace

ASSUME ShmAssumption ==
    /\ IsFiniteSet(ShmThread) /\ IsFiniteSet(ShmSpace) /\ NoSpace \notin ShmSpace
    /\ Cardinality(ShmThread) <= Cardinality(ShmSpace)

VARIABLES
    segments,     \* key, size, nattch and marked_destroy of each segment by shmid
    nextShmid,
    attached,     \* per address space: owners, and the list of attachments
    space,        \* the address space each thread runs in, NoSpace when it is gone
    mapped,       \* per address space: which segment is mapped at which address
    shmCall, shmCalls,
    shmPast       \* history: segments detached twice through one attachment
shmVars == <<segments, nextShmid, attached, space, mapped, shmCall, shmCalls, shmPast>>

Private == "private"
ShmIdle == [at |-> "idle"]
NoAttachments == [owners |-> 0, at |-> <<>>]
Addresses == 1..MaxShmCalls    \* mmap finds a free place: never one in use

ShmInit ==
    \E first \in ShmThread, home \in ShmSpace :
      /\ segments = <<>> /\ nextShmid = 1
      /\ attached = [s \in ShmSpace |-> IF s = home THEN [owners |-> 1, at |-> <<>>] ELSE NoAttachments]
      /\ space = [t \in ShmThread |-> IF t = first THEN home ELSE NoSpace]
      /\ mapped = [s \in ShmSpace |-> <<>>]
      /\ shmCall = [t \in ShmThread |-> ShmIdle] /\ shmCalls = 0
      /\ shmPast = {}

ShmGo(t, call) == shmCall' = [shmCall EXCEPT ![t] = call]
ShmStarts(t) ==
    /\ space[t] # NoSpace /\ shmCall[t] = ShmIdle
    /\ shmCalls < MaxShmCalls /\ shmCalls' = shmCalls + 1
Minus(f, x) == [y \in DOMAIN f \ {x} |-> f[y]]
Plus(f, x, v) == [y \in DOMAIN f \cup {x} |-> IF y = x THEN v ELSE f[y]]
\* reap_segment_if_needed
Reaped(segs, id) ==
    IF id \in DOMAIN segs /\ segs[id].destroy /\ segs[id].nattch = 0 THEN Minus(segs, id) ELSE segs
Counts(segs, id, delta) ==
    IF id \notin DOMAIN segs \/ segs[id].nattch + delta < 0 THEN segs
    ELSE [segs EXCEPT ![id].nattch = @ + delta]

---------------------------------------------------------------------------
(* Segments                                                                *)

ByKey(key) == {id \in DOMAIN segments : segments[id].key = key /\ ~segments[id].destroy}
\* build_segment
NewSegment(key, size) == [key |-> key, size |-> size, nattch |-> 0, destroy |-> FALSE]
\* shmget: an existing segment is only returned, or refused with IPC_EXCL;
\* IPC_PRIVATE, or IPC_CREAT with a new key, makes one - without memory for it
\* the number is used up all the same
Shmget(t, key, size, creat) ==
    /\ ShmStarts(t)
    /\ key = Private \/ (creat /\ ByKey(key) = {})
    /\ nextShmid <= MaxShmId
    /\ \/ segments' = Plus(segments, nextShmid, NewSegment(key, size))
       \/ UNCHANGED segments
    /\ nextShmid' = nextShmid + 1
    /\ UNCHANGED <<attached, space, mapped, shmCall, shmPast>>

\* shmctl IPC_RMID
ShmctlRmid(t, id) ==
    /\ ShmStarts(t) /\ id \in DOMAIN segments
    /\ segments' = Reaped([segments EXCEPT ![id].destroy = TRUE], id)
    /\ UNCHANGED <<nextShmid, attached, space, mapped, shmCall, shmPast>>

---------------------------------------------------------------------------
(* Attaching and detaching                                                 *)

\* shmat: the segment's file, its mapping, and then the count; the mapping
\* stays when the segment has gone meanwhile
ShmatMap(t, id) ==
    /\ ShmStarts(t) /\ id \in DOMAIN segments
    /\ \E address \in Addresses \ DOMAIN mapped[space[t]] :
         /\ \A low \in Addresses \ DOMAIN mapped[space[t]] : address <= low
         /\ mapped' = [mapped EXCEPT ![space[t]] = Plus(@, address, id)]
         /\ ShmGo(t, [at |-> "attach", id |-> id, address |-> address])
    /\ UNCHANGED <<segments, nextShmid, attached, space, shmPast>>
ShmatCount(t) ==
    /\ shmCall[t].at = "attach"
    /\ LET call == shmCall[t]
           s == space[t]
       IN  IF call.id \in DOMAIN segments
           THEN /\ segments' = Counts(segments, call.id, 1)
                /\ attached' = [attached EXCEPT
                                  ![s].owners = IF @ = 0 THEN 1 ELSE @,
                                  ![s].at = Append(@, [id |-> call.id, address |-> call.address])]
           ELSE UNCHANGED <<segments, attached>>
    /\ ShmGo(t, ShmIdle)
    /\ UNCHANGED <<nextShmid, space, mapped, shmCalls, shmPast>>

\* shmdt: the first attachment at the address, the mapping, and then the
\* count, which goes down even when the attachment is no longer there
ShmdtUnmap(t, address) ==
    /\ ShmStarts(t)
    /\ LET list == attached[space[t]].at
           here == {k \in DOMAIN list : list[k].address = address}
       IN  \E k \in here : /\ \A j \in here : k <= j
                           /\ ShmGo(t, [at |-> "detach", this |-> list[k]])
    /\ mapped' = [mapped EXCEPT ![space[t]] = Minus(@, address)]
    /\ UNCHANGED <<segments, nextShmid, attached, space, shmPast>>
Cut(list, k) == SubSeq(list, 1, k - 1) \o SubSeq(list, k + 1, Len(list))
ShmdtCount(t) ==
    /\ shmCall[t].at = "detach"
    /\ LET this == shmCall[t].this
           list == attached[space[t]].at
           there == {k \in DOMAIN list : list[k] = this}
       IN  /\ attached' = [attached EXCEPT ![space[t]].at =
                             IF there = {} THEN @ ELSE Cut(@, CHOOSE k \in there : \A j \in there : k <= j)]
           /\ segments' = Reaped(Counts(segments, this.id, -1), this.id)
           /\ shmPast' = IF there = {} THEN shmPast \cup {this.id} ELSE shmPast
    /\ ShmGo(t, ShmIdle)
    /\ UNCHANGED <<nextShmid, space, mapped, shmCalls>>
\* munmap of an attached segment: the registry does not hear of it
ShmMunmap(t, address) ==
    /\ ShmStarts(t) /\ address \in DOMAIN mapped[space[t]]
    /\ mapped' = [mapped EXCEPT ![space[t]] = Minus(@, address)]
    /\ UNCHANGED <<segments, nextShmid, attached, space, shmCall, shmPast>>

---------------------------------------------------------------------------
(* Processes                                                               *)

Unborn == {t \in ShmThread : space[t] = NoSpace /\ shmCall[t] = ShmIdle}
Vacant == {s \in ShmSpace : attached[s].owners = 0 /\ \A t \in ShmThread : space[t] # s}
AttachedIn(s, id) == {k \in DOMAIN attached[s].at : attached[s].at[k].id = id}
AttachedAt(s, id) == Cardinality(AttachedIn(s, id))

\* clone_process: a thread shares the space, a child gets a copy of it and
\* counts once more in every segment attached there
Inherited(s) ==
    [id \in DOMAIN segments |-> [segments[id] EXCEPT !.nattch = @ + AttachedAt(s, id)]]
ShmClone(t, child) ==
    /\ ShmStarts(t) /\ child \in Unborn
    /\ \/ /\ space' = [space EXCEPT ![child] = space[t]]
          /\ attached' = [attached EXCEPT ![space[t]].owners = @ + 1]
          /\ UNCHANGED <<segments, mapped>>
       \/ \E s \in Vacant :
            /\ space' = [space EXCEPT ![child] = s]
            /\ attached' = [attached EXCEPT ![s] = [owners |-> 1, at |-> attached[space[t]].at]]
            /\ mapped' = [mapped EXCEPT ![s] = mapped[space[t]]]
            /\ segments' = Inherited(space[t])
    /\ UNCHANGED <<nextShmid, shmCall, shmPast>>

\* unregister_process: the last owner of a space detaches everything
\* Mutant of Left: every owner that leaves detaches.
LeftByAny(s) == TRUE
Left(s) == attached[s].owners <= 1
SegmentLeft(segs, s) ==
    LET ids == DOMAIN segs
        less == [id \in ids |-> [segs[id] EXCEPT !.nattch =
                   IF @ < AttachedAt(s, id) THEN 0 ELSE @ - AttachedAt(s, id)]]
        kept == {id \in ids : ~(AttachedAt(s, id) > 0 /\ less[id].destroy /\ less[id].nattch = 0)}
    IN  [id \in kept |-> less[id]]
Unlisted(s) ==
    IF Left(s) THEN /\ attached' = [attached EXCEPT ![s] = NoAttachments]
                    /\ segments' = SegmentLeft(segments, s)
    ELSE /\ attached' = [attached EXCEPT ![s].owners = @ - 1]
         /\ UNCHANGED segments
ShmExit(t) ==
    /\ space[t] # NoSpace /\ shmCall[t] = ShmIdle
    /\ Unlisted(space[t])
    /\ space' = [space EXCEPT ![t] = NoSpace]
    /\ mapped' = [mapped EXCEPT ![space[t]] = IF \E u \in ShmThread \ {t} : space[u] = space[t]
                                              THEN @ ELSE <<>>]
    /\ UNCHANGED <<nextShmid, shmCall, shmCalls, shmPast>>
\* replace_process: exec registers the new space and then leaves the old one
ShmExecRegister(t) ==
    /\ ShmStarts(t)
    /\ \E s \in Vacant :
         /\ attached' = [attached EXCEPT ![s].owners = 1]
         /\ ShmGo(t, [at |-> "exec", new |-> s])
    /\ UNCHANGED <<segments, nextShmid, space, mapped, shmPast>>
ShmExecLeave(t) ==
    /\ shmCall[t].at = "exec"
    /\ Unlisted(space[t])
    /\ space' = [space EXCEPT ![t] = shmCall[t].new]
    /\ mapped' = [mapped EXCEPT ![space[t]] = IF \E u \in ShmThread \ {t} : space[u] = space[t]
                                              THEN @ ELSE <<>>]
    /\ ShmGo(t, ShmIdle)
    /\ UNCHANGED <<nextShmid, shmCalls, shmPast>>

ShmNext == \E t \in ShmThread :
    \/ \E key \in ShmKey \cup {Private}, size \in ShmSizes, creat \in BOOLEAN : Shmget(t, key, size, creat)
    \/ \E id \in 1..MaxShmId : ShmctlRmid(t, id) \/ ShmatMap(t, id)
    \/ \E address \in Addresses : ShmdtUnmap(t, address) \/ ShmMunmap(t, address)
    \/ ShmatCount(t) \/ ShmdtCount(t) \/ ShmExit(t) \/ ShmExecRegister(t) \/ ShmExecLeave(t)
    \/ \E child \in ShmThread : ShmClone(t, child)
ShmSpec == ShmInit /\ [][ShmNext]_shmVars

---------------------------------------------------------------------------
AttachedAnywhere(id) == UNION {{s} \X AttachedIn(s, id) : s \in ShmSpace}

(* The number of attachments a segment counts is the number that address   *)
(* spaces have, and the owners of an address space are the threads in it,  *)
(* through clone, exec and exit: so a segment that is attached anywhere is *)
(* still there, removed or not, and goes with the last.  Two threads of    *)
(* one process that detach the same address at once break the count.       *)
AttachmentsCounted ==
    /\ \A id \in (1..(nextShmid - 1)) \ shmPast :
         IF id \in DOMAIN segments
         THEN segments[id].nattch = Cardinality(AttachedAnywhere(id))
         ELSE AttachedAnywhere(id) = {}
    /\ \A s \in ShmSpace :
         attached[s].owners = Cardinality({t \in ShmThread : space[t] = s})
                              + Cardinality({t \in ShmThread : shmCall[t].at = "exec" /\ shmCall[t].new = s})
=============================================================================
