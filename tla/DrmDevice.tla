----------------------------- MODULE DrmDevice -----------------------------
(***************************************************************************)
(* The display device (drm/core.rs) and its ioctls (handlers/fd/ioctl.rs): *)
(* dumb buffers and the framebuffers made of them, the mode-setting state  *)
(* with its legacy and atomic commits, and the vertical-blank clock with   *)
(* the events it releases.                                                 *)
(*                                                                         *)
(* The state is behind one spin lock, which every longer operation takes   *)
(* several times: a commit checks, presents and writes under three         *)
(* separate holds, an event is queued under one and announced under        *)
(* another.  Each hold is an action.  Pixels, names, formats and the byte  *)
(* layout of the ioctl structures are left out; a mode and a rectangle are *)
(* one number, 0 for the empty one.                                        *)
(***************************************************************************)
EXTENDS Integers, Sequences, FiniteSets

CONSTANTS
    DrmClient,     \* threads that use the device
    DrmTick,       \* CPU 0 in drain_pending_runtime_events
    MaxHandles, MaxFrames, MaxBlobs,
    Commits,       \* atomic requests: sequences of <<property, value>>
    VblankPeriods, \* vblank periods a backend may have; 0: no vblank
    MaxReady, MaxPending,
    DrmBudgets,    \* bounds: calls on objects, commits, events, clock
    NoDeadline

ASSUME DrmAssumption ==
    /\ DrmTick \notin DrmClient
    /\ MaxReady \in Nat \ {0} /\ MaxPending \in Nat \ {0}
    /\ VblankPeriods \subseteq Nat

DrmActor == DrmClient \cup {DrmTick}
Modes == 0..2

VARIABLES
    card,      \* current_fb_id, plane and connector bound, mode, size, active
    buffers,   \* dumb_buffers: the handles in use, and how many were made
    frames,    \* framebuffers: the handle behind each id made, 0 once removed
    blobs,     \* USER_PROPERTY_BLOBS: the mode each holds, NoDeadline if none
    drmMaster, \* master_file_id: at most one client's file
    vblank,    \* period, sequence, next_vblank_ns, the published deadline
    pending,   \* pending_events
    ready,     \* event_queue
    drm,       \* the call each actor is in
    drmHolder, \* who holds DRM_DEVICES
    drmNow, tickDue, drmBudget,
    drmPast    \* history: events issued, read, dropped; frames torn; moved
drmVars == <<card, buffers, frames, blobs, drmMaster, vblank, pending, ready,
             drm, drmHolder, drmNow, tickDue, drmBudget, drmPast>>
objVars == <<buffers, frames, blobs, drmMaster>>
eventVars == <<vblank, pending, ready>>
clockVars == <<drmNow, tickDue>>

DrmIdle == [at |-> "idle"]
FirstCard == [fb |-> 0, plane |-> TRUE, conn |-> TRUE, mode |-> 1, size |-> 1,
              active |-> TRUE]

DrmInit ==
    /\ card = FirstCard
    /\ buffers = [made |-> 0, live |-> {}] /\ frames = <<>>
    /\ blobs = [b \in 1..MaxBlobs |-> NoDeadline] /\ drmMaster = {}
    /\ \E p \in VblankPeriods :
         vblank = [period |-> p, seq |-> 0, next |-> p, deadline |-> NoDeadline]
    /\ pending = <<>> /\ ready = <<>>
    /\ drm = [c \in DrmActor |-> DrmIdle] /\ drmHolder = {}
    /\ drmNow = 0 /\ tickDue = FALSE
    /\ drmBudget \in DrmBudgets
    /\ drmPast = [issued |-> 0, read |-> <<>>, dropped |-> {}, torn |-> {}, moved |-> FALSE]

SpendDrm(f) == drmBudget[f] > 0 /\ drmBudget' = [drmBudget EXCEPT ![f] = @ - 1]
Enter(c, call) == drm' = [drm EXCEPT ![c] = call]
Idling(c) == drm[c] = DrmIdle

---------------------------------------------------------------------------
(* Buffers, framebuffers, blobs, the master: one hold of the lock each.    *)

\* create_dumb, DRM_IOCTL_MODE_CREATE_DUMB
CreateDumb(c) ==
    /\ Idling(c) /\ SpendDrm("objects")
    /\ buffers.made < MaxHandles
    /\ buffers' = [made |-> buffers.made + 1, live |-> buffers.live \cup {buffers.made + 1}]
    /\ UNCHANGED <<card, frames, blobs, drmMaster, eventVars, drm, drmHolder,
                   clockVars, drmPast>>

\* destroy_dumb: refused while a framebuffer is made of the buffer
Unused(h) == \A f \in DOMAIN frames : frames[f] # h
DestroyDumb(c, h) ==
    /\ Idling(c) /\ SpendDrm("objects")
    /\ h \in buffers.live /\ Unused(h)
    /\ buffers' = [buffers EXCEPT !.live = @ \ {h}]
    /\ UNCHANGED <<card, frames, blobs, drmMaster, eventVars, drm, drmHolder,
                   clockVars, drmPast>>

\* add_framebuffer2
AddFramebuffer(c, h) ==
    /\ Idling(c) /\ SpendDrm("objects")
    /\ h \in buffers.live
    /\ Len(frames) < MaxFrames /\ frames' = Append(frames, h)
    /\ UNCHANGED <<card, buffers, blobs, drmMaster, eventVars, drm, drmHolder,
                   clockVars, drmPast>>

\* The framebuffers a call in progress may still write into the state.
InHand(f) == \E c \in DrmClient :
                \/ drm[c].at = "present" /\ drm[c].fb = f
                \/ drm[c].at \in {"snapshot", "checked"} /\ drm[c].next.fb = f

\* remove_framebuffer: refused for the one on the screen.  Framebuffer ids
\* are never reused, so one that a call still holds is gone for good.
RemoveFramebuffer(c, f) ==
    /\ Idling(c) /\ SpendDrm("objects")
    /\ f # card.fb /\ frames[f] # 0
    /\ frames' = [frames EXCEPT ![f] = 0]
    /\ drmPast' = [drmPast EXCEPT !.torn = IF InHand(f) THEN @ \cup {f} ELSE @]
    /\ UNCHANGED <<card, buffers, blobs, drmMaster, eventVars, drm, drmHolder, clockVars>>

\* create_property_blob
CreatePropertyBlob(c) ==
    /\ Idling(c) /\ SpendDrm("objects")
    /\ \E b \in DOMAIN blobs, m \in Modes :
         blobs[b] = NoDeadline /\ blobs' = [blobs EXCEPT ![b] = m]
    /\ UNCHANGED <<card, buffers, frames, drmMaster, eventVars, drm, drmHolder,
                   clockVars, drmPast>>

\* destroy_property_blob
DestroyPropertyBlob(c, b) ==
    /\ Idling(c) /\ SpendDrm("objects")
    /\ blobs[b] # NoDeadline
    /\ blobs' = [blobs EXCEPT ![b] = NoDeadline]
    /\ UNCHANGED <<card, buffers, frames, drmMaster, eventVars, drm, drmHolder,
                   clockVars, drmPast>>

\* set_master: a second master is refused
SetMaster(c) ==
    /\ Idling(c) /\ SpendDrm("objects")
    /\ drmMaster \subseteq {c}
    /\ drmMaster' = {c}
    /\ UNCHANGED <<card, buffers, frames, blobs, eventVars, drm, drmHolder,
                   clockVars, drmPast>>

\* drop_master; closing the file does not do it
DropMaster(c) ==
    /\ Idling(c) /\ SpendDrm("objects")
    /\ drmMaster = {c}
    /\ drmMaster' = {}
    /\ UNCHANGED <<card, buffers, frames, blobs, eventVars, drm, drmHolder,
                   clockVars, drmPast>>

---------------------------------------------------------------------------
(* Mode setting                                                            *)

Framed(f) == f \in DOMAIN frames /\ frames[f] # 0
\* present_framebuffer finds the framebuffer and its buffer; the buffer is
\* kept alive while the backend copies it.
Presentable(f) == Framed(f) /\ frames[f] \in buffers.live

\* set_crtc, page_flip, dirty_framebuffer: the check and the copy.  The
\* backend may also refuse, and the call ends.
SetCrtc(c, f, kind) ==
    /\ Idling(c) /\ SpendDrm("commits")
    /\ Presentable(f)
    /\ \/ kind # "dirty" /\ Enter(c, [at |-> "present", fb |-> f, event |-> kind = "flip"])
       \/ kind = "dirty" /\ UNCHANGED drm
    /\ UNCHANGED <<card, objVars, eventVars, drmHolder, clockVars, drmPast>>

Deferred(event) == IF event THEN [at |-> "defer"] ELSE DrmIdle

\* set_crtc: the state is written under a second hold of the lock
SetCrtcWrite(c) ==
    /\ drm[c].at = "present"
    /\ card' = [card EXCEPT !.fb = drm[c].fb, !.plane = TRUE, !.conn = TRUE]
    /\ Enter(c, Deferred(drm[c].event))
    /\ UNCHANGED <<objVars, eventVars, drmHolder, clockVars, drmBudget, drmPast>>

\* mode_from_blob: -1 stands for the blob of the mode in use.  Errors are {}.
ModeOf(b, held) == IF b = -1 THEN {card.mode}
                   ELSE IF b \in DOMAIN held /\ held[b] # NoDeadline THEN {held[b]} ELSE {}

\* One property of an atomic request applied to the state it builds; the
\* result is empty when the request is refused.
Applied(next, prop, value) ==
    CASE prop = "FB_ID" -> IF value = 0 \/ Framed(value)
                           THEN {[next EXCEPT !.fb = value]} ELSE {}
      [] prop = "CRTC_ID" -> {[next EXCEPT !.plane = value # 0]}
      [] prop = "CRTC_WH" -> {[next EXCEPT !.size = value]}
      [] prop = "CONNECTOR_CRTC_ID" -> {[next EXCEPT !.conn = value # 0]}
      [] prop = "ACTIVE" -> {[next EXCEPT !.active = value # 0]}
      [] prop = "MODE_ID" ->
           IF value = 0 THEN {[next EXCEPT !.active = FALSE, !.mode = 0, !.size = 0]}
           ELSE {[next EXCEPT !.active = TRUE, !.mode = m, !.size = m] :
                   m \in ModeOf(value, blobs) \ {0}}

Sequentially == INSTANCE SequencesExt
Built(next, request) ==
    Sequentially!FoldLeft(
        LAMBDA made, p : UNION {Applied(m, p[1], p[2]) : m \in made}, {next}, request)

\* get_object_properties of the connector, the CRTC and the plane, in that
\* order: what a client saves to put the display back later.
Saved(now) ==
    <<<<"CONNECTOR_CRTC_ID", IF now.conn THEN 2 ELSE 0>>,
      <<"ACTIVE", IF now.active THEN 1 ELSE 0>>, <<"MODE_ID", -1>>,
      <<"FB_ID", now.fb>>, <<"CRTC_ID", IF now.plane THEN 2 ELSE 0>>,
      <<"CRTC_WH", IF now.plane THEN now.size ELSE 0>>>>

\* atomic_commit: the state is copied,
AtomicSnapshot(c, r) ==
    /\ Idling(c) /\ SpendDrm("commits")
    /\ Enter(c, [at |-> "snapshot", next |-> card, request |-> r])
    /\ UNCHANGED <<card, objVars, eventVars, drmHolder, clockVars, drmPast>>

\* the request is checked and applied to the copy; a refused one, and one
\* that only tests, ends here,
AtomicCheck(c) ==
    /\ drm[c].at = "snapshot"
    /\ LET made == Built(drm[c].next, drm[c].request)
           fbSet == \E i \in DOMAIN drm[c].request : drm[c].request[i][1] = "FB_ID"
       IN  \/ Enter(c, DrmIdle)
           \/ \E next \in made, event \in BOOLEAN :
                Enter(c, [at |-> "checked", next |-> next, event |-> event,
                          shows |-> fbSet /\ next.active /\ next.fb # 0])
    /\ UNCHANGED <<card, objVars, eventVars, drmHolder, clockVars, drmBudget, drmPast>>

\* the whole copy is written back,
AtomicWrite(c) ==
    /\ drm[c].at = "checked"
    /\ card' = drm[c].next
    /\ Enter(c, IF drm[c].shows THEN [at |-> "show", fb |-> drm[c].next.fb,
                                      event |-> drm[c].event]
                ELSE Deferred(drm[c].event))
    /\ UNCHANGED <<objVars, eventVars, drmHolder, clockVars, drmBudget, drmPast>>

\* and only then is the framebuffer presented: when it has gone meanwhile the
\* call fails, its state written and its event never queued.
AtomicPresent(c) ==
    /\ drm[c].at = "show"
    /\ Enter(c, IF Presentable(drm[c].fb) THEN Deferred(drm[c].event) ELSE DrmIdle)
    /\ UNCHANGED <<card, objVars, eventVars, drmHolder, clockVars, drmBudget, drmPast>>

---------------------------------------------------------------------------
(* The vblank clock and its events                                         *)

\* advance_vblank_state_locked
Advanced(v, at) ==
    IF v.period = 0 \/ at < v.next THEN v
    ELSE LET n == ((at - v.next) \div v.period) + 1
         IN  [v EXCEPT !.seq = @ + n, !.next = @ + n * v.period]

Ids(queue) == {queue[i].id : i \in DOMAIN queue}
Newest(queue, n) == SubSeq(queue, IF Len(queue) > n THEN Len(queue) - n + 1 ELSE 1, Len(queue))

\* queue_ready_event_locked: the oldest make room
Queued(events, at) == Newest(ready \o [i \in DOMAIN events |-> [events[i] EXCEPT !.at = at]],
                           MaxReady)
\* The bounded push to pending_events
Awaited(event) == Append(Newest(pending, MaxPending - 1), event)
NewEvent(target) == [id |-> drmPast.issued + 1, target |-> target, at |-> 0]

\* The history of a step that issues n events and moves the sequence or not.
EventsNoted(n, kept, moves) ==
    drmPast' = [drmPast EXCEPT
                  !.issued = @ + n,
                  !.dropped = @ \cup ((Ids(pending) \cup Ids(ready)
                                        \cup {drmPast.issued + i : i \in 1..n}) \ kept),
                  !.moved = moves]

\* defer_flip_event
DeferFlipEvent(c) ==
    /\ drm[c].at = "defer" /\ SpendDrm("events")
    /\ LET v == IF vblank.period = 0 THEN [vblank EXCEPT !.seq = @ + 1]
                ELSE Advanced(vblank, drmNow)
           at == IF v.period = 0 THEN v.seq ELSE v.seq + 1
           e == NewEvent(at)
       IN  /\ vblank' = v
           /\ \/ /\ v.period = 0
                 /\ ready' = Queued(<<e>>, v.seq) /\ UNCHANGED pending
              \/ /\ v.period # 0
                 /\ pending' = Awaited(e) /\ UNCHANGED ready
           /\ Enter(c, [at |-> "refresh", notify |-> v.period = 0])
           /\ EventsNoted(1, Ids(pending') \cup Ids(ready'), drmPast.moved \/ v.seq # vblank.seq)
    /\ UNCHANGED <<card, objVars, drmHolder, clockVars>>

\* wait_vblank: the clock is read and the sequence advanced, and the target
\* chosen: absolute, relative, or the next one when it was missed.  The loop
\* of drm_wait_vblank_blocking comes back here with its target.
TargetOf(v, request) ==
    LET t == IF request.relative THEN v.seq + request.sequence ELSE request.sequence
    IN  IF request.nextOnMiss /\ v.seq >= t THEN v.seq + 1 ELSE t
VblankRequests == [relative : BOOLEAN, nextOnMiss : BOOLEAN, sequence : {1}, event : BOOLEAN]
WaitVblank(c, request) ==
    /\ Idling(c) /\ SpendDrm("events")
    /\ LET v == Advanced(vblank, drmNow)
           t == TargetOf(v, request)
       IN  /\ vblank' = v
           /\ Enter(c, IF request.event THEN [at |-> "queue", target |-> t, now |-> drmNow]
                       ELSE IF v.seq >= t \/ v.period = 0 THEN DrmIdle
                       ELSE [at |-> "vwait", target |-> t, until |-> v.next])
           /\ drmPast' = [drmPast EXCEPT !.moved = @ \/ v.seq # vblank.seq]
    /\ UNCHANGED <<card, objVars, pending, ready, drmHolder, clockVars>>

\* wait_vblank with DRM_VBLANK_EVENT: the second hold of the lock
QueueVblankEvent(c) ==
    /\ drm[c].at = "queue"
    /\ LET v == Advanced(vblank, drm[c].now)
           e == NewEvent(drm[c].target)
           due == v.seq >= e.target \/ v.period = 0
       IN  /\ vblank' = v
           /\ \/ due /\ ready' = Queued(<<e>>, v.seq) /\ UNCHANGED pending
              \/ ~due /\ pending' = Awaited(e) /\ UNCHANGED ready
           /\ Enter(c, [at |-> "refresh", notify |-> due])
           /\ EventsNoted(1, Ids(pending') \cup Ids(ready'), drmPast.moved \/ v.seq # vblank.seq)
    /\ UNCHANGED <<card, objVars, drmHolder, clockVars, drmBudget>>

\* The timer of the blocking wait expires, or a signal ends the call.
VblankAwake(c) ==
    /\ drm[c].at = "vwait"
    /\ \/ Enter(c, DrmIdle) /\ UNCHANGED <<vblank, drmPast>>
       \/ /\ drmNow >= drm[c].until
          /\ LET v == Advanced(vblank, drmNow)
             IN  /\ vblank' = v
                 /\ Enter(c, IF v.seq >= drm[c].target THEN DrmIdle
                             ELSE [drm[c] EXCEPT !.until = v.next])
                 /\ drmPast' = [drmPast EXCEPT !.moved = @ \/ v.seq # vblank.seq]
    /\ UNCHANGED <<card, objVars, pending, ready, drmHolder, clockVars, drmBudget>>

\* runtime_tick_handler on CPU 0, and the clock
DeadlineDue == vblank.deadline # NoDeadline /\ drmNow >= vblank.deadline
ClockInterrupt ==
    /\ SpendDrm("clock")
    /\ drmNow' = drmNow + 1
    /\ tickDue' = (tickDue \/ (vblank.deadline # NoDeadline /\ drmNow' >= vblank.deadline))
    /\ UNCHANGED <<card, objVars, eventVars, drm, drmHolder, drmPast>>

\* handle_vblank_tick: a tick that finds the sequence where it was leaves
\* everything, the published deadline too.
\* Mutant of Released: an event waits for the vblank after its own.
ReleasedLate(v) == SelectSeq(pending, LAMBDA e : e.target < v.seq)
Released(v) == SelectSeq(pending, LAMBDA e : e.target <= v.seq)
HandleVblankTick ==
    /\ Idling(DrmTick) /\ (tickDue \/ DeadlineDue)
    /\ tickDue' = FALSE
    /\ LET v == Advanced(vblank, drmNow)
           out == Released(v)
       IN  /\ vblank' = v
           /\ \/ /\ v.seq = vblank.seq \/ pending = <<>>
                 /\ drmPast' = [drmPast EXCEPT !.moved = @ /\ v.seq = vblank.seq]
                 /\ UNCHANGED <<pending, ready, drm>>
              \/ /\ v.seq # vblank.seq /\ pending # <<>>
                 /\ pending' = SelectSeq(pending, LAMBDA e : \A i \in DOMAIN out : out[i].id # e.id)
                 /\ ready' = Queued(out, v.seq)
                 /\ Enter(DrmTick, [at |-> "refresh", notify |-> out # <<>>])
                 /\ EventsNoted(0, Ids(pending') \cup Ids(ready'), FALSE)
    /\ UNCHANGED <<card, objVars, drmHolder, drmNow, drmBudget>>

NextVblankDeadline ==
    IF vblank.period # 0 /\ pending # <<>> THEN vblank.next ELSE NoDeadline
\* refresh_next_vblank_deadline: DRM_DEVICES is held throughout, the device's
\* lock only for the reading.
RefreshRead(c) ==
    /\ drm[c].at = "refresh" /\ drmHolder = {}
    /\ drmHolder' = {c}
    /\ Enter(c, [at |-> "store", notify |-> drm[c].notify,
                 deadline |-> NextVblankDeadline])
    /\ UNCHANGED <<card, objVars, eventVars, clockVars, drmBudget, drmPast>>

\* The store, and the waiters told.
RefreshStore(c) ==
    /\ drm[c].at = "store"
    /\ vblank' = [vblank EXCEPT !.deadline = drm[c].deadline]
    /\ drmHolder' = {}
    /\ drm' = [d \in DrmActor |->
                 IF d = c \/ (drm[c].notify /\ drm[d].at = "asleep") THEN DrmIdle ELSE drm[d]]
    /\ UNCHANGED <<card, objVars, pending, ready, clockVars, drmBudget, drmPast>>

\* drain_events: as many events as the buffer holds
DrainEvents(c, n) ==
    /\ Idling(c) /\ ready # <<>> /\ n <= Len(ready)
    /\ ready' = SubSeq(ready, n + 1, Len(ready))
    /\ drmPast' = [drmPast EXCEPT !.read = @ \o SubSeq(ready, 1, n)]
    /\ UNCHANGED <<card, objVars, vblank, pending, drm, drmHolder, clockVars, drmBudget>>

\* A read that finds nothing: the thread registers as a waiter, polls again
\* and sleeps.
DrmSleep(c) ==
    /\ Idling(c) /\ ready = <<>> /\ pending # <<>>
    /\ Enter(c, [at |-> "asleep"])
    /\ UNCHANGED <<card, objVars, eventVars, drmHolder, clockVars, drmBudget, drmPast>>

\* drm_ioctl: a call that faults or that the device refuses changes nothing.
MasterIoctl(c) == SetMaster(c) \/ DropMaster(c)
BufferIoctl(c) ==
    \/ CreateDumb(c)
    \/ \E h \in buffers.live : DestroyDumb(c, h) \/ AddFramebuffer(c, h)
    \/ \E f \in DOMAIN frames : RemoveFramebuffer(c, f)
BlobIoctl(c) ==
    CreatePropertyBlob(c) \/ \E b \in DOMAIN blobs : DestroyPropertyBlob(c, b)
AtomicIoctl(c) == \E r \in Commits : AtomicSnapshot(c, r)
CrtcIoctl(c) ==
    \/ \E f \in DOMAIN frames, kind \in {"set", "flip", "dirty"} : SetCrtc(c, f, kind)
    \/ \E r \in VblankRequests : WaitVblank(c, r)

DrmNext ==
    \/ \E c \in DrmClient :
         \/ MasterIoctl(c) \/ BufferIoctl(c) \/ BlobIoctl(c) \/ AtomicIoctl(c) \/ CrtcIoctl(c)
         \/ SetCrtcWrite(c) \/ AtomicCheck(c) \/ AtomicWrite(c) \/ AtomicPresent(c)
         \/ DeferFlipEvent(c) \/ QueueVblankEvent(c) \/ VblankAwake(c)
         \/ \E n \in 1..MaxReady : DrainEvents(c, n)
         \/ DrmSleep(c)
    \/ \E c \in DrmActor : RefreshRead(c) \/ RefreshStore(c)
    \/ ClockInterrupt \/ HandleVblankTick

---------------------------------------------------------------------------
(* Every framebuffer keeps its buffer (destroy_dumb refuses while one is   *)
(* made of it), and the framebuffer on the screen exists: the one case     *)
(* where it does not is a framebuffer removed while a commit was between   *)
(* its check and its write.                                                *)
ScanoutBacked ==
    /\ \A f \in DOMAIN frames : Framed(f) => frames[f] \in buffers.live
    /\ card.fb # 0 => Framed(card.fb) \/ card.fb \in drmPast.torn

(* Every event asked for is pending, ready, read or pushed out by newer    *)
(* ones, once; none is released before its vblank, and the queue releases  *)
(* them in the order of the vblanks.  An event whose vblank is past is     *)
(* still pending only when a client's own call moved the sequence on: the  *)
(* tick then finds it unchanged and looks at nothing (core.rs:1723).       *)
DrmEventsExact ==
    LET seen == drmPast.read \o ready
        all == seen \o pending
    IN  /\ \A i, j \in DOMAIN all : i # j => all[i].id # all[j].id
        /\ Ids(all) \cup drmPast.dropped = 1..drmPast.issued
        /\ Ids(all) \cap drmPast.dropped = {}
        /\ \A i \in DOMAIN seen : vblank.period # 0 => seen[i].at >= seen[i].target
        /\ \A i, j \in DOMAIN seen : i < j => seen[i].at <= seen[j].at
        /\ \A i \in DOMAIN pending : pending[i].target <= vblank.seq => drmPast.moved

(* While events are pending the published deadline is not later than the   *)
(* next vblank, unless the call that queued them or the tick has still to  *)
(* publish it; and a thread asleep on the device with an event ready is    *)
(* about to be told.  Both are done after the device's lock is dropped, by *)
(* several callers at once.                                                *)
DrmWakeups ==
    LET Telling(c) == drm[c].at \in {"refresh", "store"}
    IN  /\ (pending # <<>> /\ \A c \in DrmActor : ~Telling(c)) => vblank.deadline <= vblank.next
        /\ (ready # <<>> /\ \E c \in DrmClient : drm[c].at = "asleep")
             => \E c \in DrmActor : Telling(c) /\ drm[c].notify

(* What get_object_properties reports of a display in use, given back to   *)
(* atomic_commit, changes nothing: a compositor that saves the display and *)
(* restores it finds it as it was.  (A CRTC that is off is reported with   *)
(* the blob of its mode, and giving that back turns it on.)                *)
SaveRestores ==
    (card.active /\ card.plane /\ (card.fb # 0 => Framed(card.fb)))
        => Built(card, Saved(card)) = {card}

\* The display keeps its promises: what is scanned out is backed, a requested
\* event comes once, a saved configuration can be restored, and the timer knows
\* of the next blank (drm/core.rs).
DisplaySound == ScanoutBacked /\ DrmEventsExact /\ SaveRestores /\ DrmWakeups
=============================================================================
