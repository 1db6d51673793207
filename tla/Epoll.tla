------------------------------- MODULE Epoll -------------------------------
(***************************************************************************)
(* One epoll instance: libs/aether-vfs/src/epoll.rs and the wait loop of   *)
(* process/context/fd.rs.                                                  *)
(*                                                                         *)
(* epoll_ctl and epoll_wait hold the lock of the epoll's own open file, so *)
(* they exclude each other; the files they watch change at any time.  A    *)
(* change takes the file's lock, its notification collects the listeners   *)
(* afterwards, each listener marks the descriptor ready under a third      *)
(* lock, and only then are the sleepers of the epoll notified.  FileWait   *)
(* is the detail of how a notified sleeper is woken.                       *)
(*                                                                         *)
(* A watched file has one event, readiness; epoll_wait polls the file      *)
(* again and never returns the stored bits.                                *)
(***************************************************************************)
EXTENDS Naturals, Sequences, FiniteSets

CONSTANTS
    Thread,     \* threads that share the epoll
    Writer,     \* whoever makes the watched files ready
    Fd,         \* the watched descriptors, each with a file of its own
    Mode,       \* a subset of {"LT", "ET", "ONESHOT"}
    MaxEvents,  \* the largest max_events
    QueueBound, \* epoll_ctl is not called with a longer ready queue
    None

ASSUME ModeAssumption == Mode \subseteq {"LT", "ET", "ONESHOT"}
ASSUME MaxEventsAssumption == MaxEvents \in Nat \ {0}
ASSUME QueueBoundAssumption == QueueBound \in Nat
ASSUME NoneAssumption == None \notin Thread \cup Writer \cup Fd \cup Mode

VARIABLES
    level,          \* the descriptors whose file is ready
    unseen,         \* ... and became so since it was last polled (history)
    writer,         \* Writer: [pc, fd]
    listening,      \* descriptors with a listener in their file's WaitQueue
    interests,      \* fd -> [mode, disabled], the interest list
    events,         \* EpollReadyState.events
    queue,          \* EpollReadyState.queue
    epoll_lock,     \* the thread inside epoll_ctl or epoll_wait
    pc,             \* how far each thread is; see the actions
    ctl,            \* [fd, mode] of its epoll_ctl
    max_events,     \* of its epoll_wait
    last_look,      \* threads whose epoll_wait has timed out and looks once more
    batch,          \* what take_ready gave it
    result,         \* the descriptors it returns
    requeue,        \* level-triggered descriptors it has to mark again
    registered,     \* threads registered with the epoll's own WaitQueue
    woken           \* threads a notification of the epoll has reached

vars == <<level, unseen, writer, listening, interests, events, queue, epoll_lock, pc, ctl,
          max_events, last_look, batch, result, requeue, registered, woken>>
fileVars == <<level, unseen, writer>>
readyVars == <<events, queue>>
waitVars == <<max_events, last_look, batch, result, requeue>>
sleepVars == <<registered, woken>>

Interest == [mode : Mode, disabled : BOOLEAN]
PC == {"user", "register", "poll", "mark", "insert", "insert_notify",
       "wait", "take", "examine", "requeue", "requeue_notify", "return",
       "block", "registered", "sleeping"}
WriterPC == {"idle", "changed", "collected", "notify"}

Init ==
    /\ level = {} /\ unseen = {}
    /\ writer = [w \in Writer |-> [pc |-> "idle", fd |-> None]]
    /\ listening = {} /\ interests = [f \in {} |-> None]
    /\ events = {} /\ queue = <<>>
    /\ epoll_lock = None
    /\ pc = [t \in Thread |-> "user"]
    /\ ctl = [t \in Thread |-> None]
    /\ max_events = [t \in Thread |-> 0]
    /\ last_look = {}
    /\ batch = [t \in Thread |-> <<>>]
    /\ result = [t \in Thread |-> {}]
    /\ requeue = [t \in Thread |-> {}]
    /\ registered = {} /\ woken = {}

Goto(t, where) == pc' = [pc EXCEPT ![t] = where]

-----------------------------------------------------------------------------
(* EpollNotifier *)

\* Mutant of MarkReady: the latest descriptor is served first.
MarkFront(f) ==
    /\ events' = events \cup {f}
    /\ queue' = IF f \in events THEN queue ELSE <<f>> \o queue
\* mark_ready, up to the notification
MarkReady(f) ==
    /\ events' = events \cup {f}
    /\ queue' = IF f \in events THEN queue ELSE Append(queue, f)

ShouldNotify(f) == f \notin events

\* notifier.waiters.notify(READ)
NotifyWaiters == woken' = woken \cup registered

\* How much of the queue take_ready pops: up to n events, stale entries
\* (whose event was removed) on the way included.
Live(i) == queue[i] \in events /\ \A j \in 1..(i - 1) : queue[j] # queue[i]
LiveIn(k) == {i \in 1..k : Live(i)}
Popped(n) ==
    LET enough == {k \in 0..Len(queue) : Cardinality(LiveIn(k)) = n}
    IN  IF enough = {} THEN Len(queue)
        ELSE CHOOSE k \in enough : \A m \in enough : k <= m
\* ... and the events among it, in the order of the queue.
Taken(n) ==
    LET taken == LiveIn(Popped(n))
    IN  [m \in 1..Cardinality(taken) |-> queue[CHOOSE i \in taken : Cardinality(LiveIn(i)) = m]]

-----------------------------------------------------------------------------
(* The watched files *)

\* A writer makes f ready, or adds to a file that is ready already.
MakeReady(w, f) ==
    /\ writer[w].pc = "idle"
    /\ level' = level \cup {f}
    /\ unseen' = unseen \cup {f}
    /\ writer' = [writer EXCEPT ![w] = [pc |-> "changed", fd |-> f]]
    /\ UNCHANGED <<listening, interests, readyVars, epoll_lock, pc, ctl, waitVars, sleepVars>>

\* WaitQueue::notify of that file collects the listener ...
CollectListeners(w) ==
    /\ writer[w].pc = "changed"
    /\ writer' = [writer EXCEPT ![w] =
          IF writer[w].fd \in listening THEN [@ EXCEPT !.pc = "collected"]
          ELSE [pc |-> "idle", fd |-> None]]
    /\ UNCHANGED <<level, unseen, listening, interests, readyVars, epoll_lock, pc, ctl, waitVars,
                   sleepVars>>

\* ... and EpollTargetListener::wake marks the descriptor ...
WakeTarget(w) ==
    /\ writer[w].pc = "collected"
    /\ MarkReady(writer[w].fd)
    /\ writer' = [writer EXCEPT ![w] =
          IF ShouldNotify(writer[w].fd) THEN [@ EXCEPT !.pc = "notify"]
          ELSE [pc |-> "idle", fd |-> None]]
    /\ UNCHANGED <<level, unseen, listening, interests, epoll_lock, pc, ctl, waitVars, sleepVars>>

\* ... and notifies the sleepers of the epoll.
NotifyEpoll(w) ==
    /\ writer[w].pc = "notify"
    /\ NotifyWaiters
    /\ writer' = [writer EXCEPT ![w] = [pc |-> "idle", fd |-> None]]
    /\ UNCHANGED <<level, unseen, listening, interests, readyVars, epoll_lock, pc, ctl, waitVars,
                   registered>>

\* A thread reads f until it would block.
Consume(t, f) ==
    /\ pc[t] = "user" /\ f \in level
    /\ level' = level \ {f}
    /\ unseen' = unseen \ {f}
    /\ UNCHANGED <<writer, listening, interests, readyVars, epoll_lock, pc, ctl, waitVars, sleepVars>>

-----------------------------------------------------------------------------
(* epoll_ctl *)

\* unregister_interest_waiter
Unlistened(f) == listening \ {f}

Without(f) == [g \in DOMAIN interests \ {f} |-> interests[g]]

CtlAdd(t, f, mode) ==
    /\ pc[t] = "user" /\ epoll_lock = None
    /\ f \notin DOMAIN interests
    /\ Len(queue) < QueueBound
    /\ epoll_lock' = t
    /\ ctl' = [ctl EXCEPT ![t] = [fd |-> f, mode |-> mode]]
    /\ Goto(t, "register")
    /\ UNCHANGED <<fileVars, listening, interests, readyVars, waitVars, sleepVars>>

\* The old interest goes first, with its listener and its event; the entry of
\* the ready queue stays.
CtlMod(t, f, mode) ==
    /\ pc[t] = "user" /\ epoll_lock = None
    /\ f \in DOMAIN interests
    /\ Len(queue) < QueueBound
    /\ epoll_lock' = t
    /\ interests' = Without(f)
    /\ listening' = Unlistened(f)
    /\ events' = events \ {f}
    /\ ctl' = [ctl EXCEPT ![t] = [fd |-> f, mode |-> mode]]
    /\ Goto(t, "register")
    /\ UNCHANGED <<fileVars, queue, waitVars, sleepVars>>

CtlDel(t, f) ==
    /\ pc[t] = "user" /\ epoll_lock = None
    /\ f \in DOMAIN interests
    /\ interests' = Without(f)
    /\ listening' = Unlistened(f)
    /\ events' = events \ {f}
    /\ UNCHANGED <<fileVars, queue, epoll_lock, pc, ctl, waitVars, sleepVars>>

\* Mutant of CtlRegister: a file that is ready already is not looked at.
RegisterOnly(t) ==
    /\ pc[t] = "register"
    /\ listening' = listening \cup {ctl[t].fd}
    /\ Goto(t, "insert")
    /\ UNCHANGED <<fileVars, interests, readyVars, epoll_lock, ctl, waitVars, sleepVars>>
\* register_interest_waiter: the listener first ...
CtlRegister(t) ==
    /\ pc[t] = "register"
    /\ listening' = listening \cup {ctl[t].fd}
    /\ Goto(t, "poll")
    /\ UNCHANGED <<fileVars, interests, readyVars, epoll_lock, ctl, waitVars, sleepVars>>

\* ... then a poll of the file, which was ready before anyone listened ...
CtlPoll(t) ==
    /\ pc[t] = "poll"
    /\ Goto(t, IF ctl[t].fd \in level THEN "mark" ELSE "insert")
    /\ UNCHANGED <<fileVars, listening, interests, readyVars, epoll_lock, ctl, waitVars, sleepVars>>

CtlMark(t) ==
    /\ pc[t] = "mark"
    /\ MarkReady(ctl[t].fd)
    /\ Goto(t, IF ShouldNotify(ctl[t].fd) THEN "insert_notify" ELSE "insert")
    /\ UNCHANGED <<fileVars, listening, interests, epoll_lock, ctl, waitVars, sleepVars>>

\* ... and the interest is in the list.
CtlInsert(t) ==
    /\ pc[t] \in {"insert", "insert_notify"}
    /\ IF pc[t] = "insert_notify" THEN NotifyWaiters ELSE UNCHANGED woken
    /\ interests' = [f \in DOMAIN interests \cup {ctl[t].fd} |->
          IF f = ctl[t].fd THEN [mode |-> ctl[t].mode, disabled |-> FALSE] ELSE interests[f]]
    /\ ctl' = [ctl EXCEPT ![t] = None]
    /\ epoll_lock' = None
    /\ Goto(t, "user")
    /\ UNCHANGED <<fileVars, listening, readyVars, waitVars, registered>>

-----------------------------------------------------------------------------
(* epoll_wait *)

EpollWait(t, n) ==
    /\ pc[t] = "user"
    /\ max_events' = [max_events EXCEPT ![t] = n]
    /\ Goto(t, "wait")
    /\ UNCHANGED <<fileVars, listening, interests, readyVars, epoll_lock, ctl, last_look, batch,
                   result, requeue, sleepVars>>

\* EpollInstance::wait: nothing pending, nothing to return
WaitBegin(t) ==
    /\ pc[t] = "wait" /\ epoll_lock = None
    /\ IF events # {}
       THEN Goto(t, "take") /\ epoll_lock' = t
       ELSE Goto(t, IF t \in last_look THEN "return" ELSE "block") /\ UNCHANGED epoll_lock
    /\ UNCHANGED <<fileVars, listening, interests, readyVars, ctl, waitVars, sleepVars>>

\* take_ready
WaitTake(t) ==
    LET n == max_events[t] - Cardinality(result[t])
        taken == Taken(n)
    IN
    /\ pc[t] = "take"
    /\ batch' = [batch EXCEPT ![t] = taken]
    /\ queue' = SubSeq(queue, Popped(n) + 1, Len(queue))
    /\ events' = events \ {taken[i] : i \in 1..Len(taken)}
    /\ Goto(t, IF taken = <<>> THEN "requeue" ELSE "examine")
    /\ UNCHANGED <<fileVars, listening, interests, epoll_lock, ctl, max_events, last_look, result,
                   requeue, sleepVars>>

\* Mutant of Requeues: a level-triggered descriptor is reported once.
RequeueNothing(f) == FALSE
\* should_requeue_level_triggered
Requeues(f) == interests[f].mode = "LT"

\* The next descriptor of the batch is polled again, and reported if it is
\* ready and its interest enabled.
WaitExamine(t) ==
    LET f == Head(batch[t])
        enabled == f \in DOMAIN interests /\ ~interests[f].disabled
        reported == enabled /\ f \in level
        oneshot == reported /\ interests[f].mode = "ONESHOT"
        result1 == IF reported THEN result[t] \cup {f} ELSE result[t]
    IN
    /\ pc[t] = "examine"
    /\ batch' = [batch EXCEPT ![t] = Tail(@)]
    /\ result' = [result EXCEPT ![t] = result1]
    /\ unseen' = IF enabled THEN unseen \ {f} ELSE unseen
    /\ requeue' = IF reported /\ Requeues(f) THEN [requeue EXCEPT ![t] = @ \cup {f}] ELSE requeue
    /\ interests' = IF oneshot THEN [interests EXCEPT ![f].disabled = TRUE] ELSE interests
    /\ listening' = IF oneshot THEN Unlistened(f) ELSE listening
    /\ Goto(t, IF Len(batch[t]) > 1 THEN "examine"
               ELSE IF Cardinality(result1) < max_events[t] THEN "take" ELSE "requeue")
    /\ UNCHANGED <<level, writer, readyVars, epoll_lock, ctl, max_events, last_look, sleepVars>>

\* What is level-triggered is marked again, one by one.
WaitRequeue(t, f) ==
    /\ pc[t] = "requeue" /\ f \in requeue[t]
    /\ MarkReady(f)
    /\ requeue' = [requeue EXCEPT ![t] = @ \ {f}]
    /\ Goto(t, IF ShouldNotify(f) THEN "requeue_notify" ELSE "requeue")
    /\ UNCHANGED <<fileVars, listening, interests, epoll_lock, ctl, max_events, last_look, batch,
                   result, sleepVars>>

WaitRequeueNotify(t) ==
    /\ pc[t] = "requeue_notify"
    /\ NotifyWaiters
    /\ Goto(t, "requeue")
    /\ UNCHANGED <<fileVars, listening, interests, readyVars, epoll_lock, ctl, waitVars, registered>>

\* A wait that found nothing sleeps; one that found something returns it.
WaitEnd(t) ==
    /\ pc[t] = "requeue" /\ requeue[t] = {}
    /\ epoll_lock' = None
    /\ Goto(t, IF result[t] = {} /\ t \notin last_look THEN "block" ELSE "return")
    /\ UNCHANGED <<fileVars, listening, interests, readyVars, ctl, waitVars, sleepVars>>

Return(t) ==
    /\ pc[t] = "return"
    /\ Goto(t, "user")
    /\ result' = [result EXCEPT ![t] = {}]
    /\ max_events' = [max_events EXCEPT ![t] = 0]
    /\ last_look' = last_look \ {t}
    /\ UNCHANGED <<fileVars, listening, interests, readyVars, epoll_lock, ctl, batch, requeue,
                   sleepVars>>

\* A zero timeout, or a signal that is deliverable already
GiveUp(t) ==
    /\ pc[t] = "block"
    /\ Goto(t, "return")
    /\ UNCHANGED <<fileVars, listening, interests, readyVars, epoll_lock, ctl, waitVars, sleepVars>>

\* wait_poll: register with the epoll, look once more, sleep.
Register(t) ==
    /\ pc[t] = "block" /\ epoll_lock = None
    /\ registered' = registered \cup {t}
    /\ Goto(t, "registered")
    /\ UNCHANGED <<fileVars, listening, interests, readyVars, epoll_lock, ctl, waitVars, woken>>

Track(t) ==
    /\ pc[t] = "registered" /\ epoll_lock = None
    /\ IF events # {} THEN Goto(t, "wait") /\ registered' = registered \ {t}
       ELSE Goto(t, "sleeping") /\ UNCHANGED registered
    /\ UNCHANGED <<fileVars, listening, interests, readyVars, epoll_lock, ctl, waitVars, woken>>

Wake(t) ==
    /\ t \in woken
    /\ woken' = woken \ {t}
    /\ IF pc[t] = "sleeping" THEN Goto(t, "wait") /\ registered' = registered \ {t}
       ELSE UNCHANGED <<pc, registered>>
    /\ UNCHANGED <<fileVars, listening, interests, readyVars, epoll_lock, ctl, waitVars>>

\* The deadline passes: one more look.
Expire(t) ==
    /\ pc[t] = "sleeping"
    /\ registered' = registered \ {t}
    /\ last_look' = last_look \cup {t}
    /\ Goto(t, "wait")
    /\ UNCHANGED <<fileVars, listening, interests, readyVars, epoll_lock, ctl, max_events, batch,
                   result, requeue, woken>>

\* A signal: back to user mode.
Interrupt(t) ==
    /\ pc[t] = "sleeping"
    /\ registered' = registered \ {t}
    /\ Goto(t, "return")
    /\ UNCHANGED <<fileVars, listening, interests, readyVars, epoll_lock, ctl, waitVars, woken>>

-----------------------------------------------------------------------------
WriterStep(w) == CollectListeners(w) \/ WakeTarget(w) \/ NotifyEpoll(w)
CtlStep(t) == CtlRegister(t) \/ CtlPoll(t) \/ CtlMark(t) \/ CtlInsert(t)
WaitStep(t) ==
    \/ WaitTake(t) \/ WaitExamine(t) \/ (\E f \in Fd : WaitRequeue(t, f))
    \/ WaitRequeueNotify(t) \/ WaitEnd(t) \/ Return(t)

Next ==
    \/ \E w \in Writer : (\E f \in Fd : MakeReady(w, f)) \/ WriterStep(w)
    \/ \E t \in Thread :
          \/ \E f \in Fd : Consume(t, f) \/ CtlDel(t, f)
                           \/ \E mode \in Mode : CtlAdd(t, f, mode) \/ CtlMod(t, f, mode)
          \/ \E n \in 1..MaxEvents : EpollWait(t, n)
          \/ CtlStep(t) \/ WaitBegin(t) \/ WaitStep(t) \/ GiveUp(t)
          \/ Register(t) \/ Track(t) \/ Wake(t) \/ Expire(t) \/ Interrupt(t)

Spec == Init /\ [][Next]_vars

\* Whatever has begun goes on; the spin lock of the epoll's file is given to
\* whoever keeps asking.  Nobody has to call, and no file has to change.
Fairness ==
    /\ \A w \in Writer : WF_vars(WriterStep(w))
    /\ \A t \in Thread : /\ WF_vars(CtlStep(t) \/ WaitStep(t)) /\ WF_vars(Wake(t))
                         /\ SF_vars(WaitBegin(t)) /\ SF_vars(Register(t) \/ GiveUp(t))
                         /\ SF_vars(Track(t))
FairSpec == Spec /\ Fairness

-----------------------------------------------------------------------------
(* Properties *)

InBatch(t, f) == \E i \in 1..Len(batch[t]) : batch[t][i] = f

\* Typing; interests, stored events and queue entries are of watched descriptors.
TypeOK ==
    /\ level \subseteq Fd /\ unseen \subseteq level
    /\ writer \in [Writer -> [pc : WriterPC, fd : Fd \cup {None}]]
    /\ listening \subseteq Fd
    /\ DOMAIN interests \subseteq Fd
    /\ interests \in [DOMAIN interests -> Interest]
    /\ events \subseteq Fd
    /\ queue \in Seq(Fd)
    /\ epoll_lock \in Thread \cup {None}
    /\ pc \in [Thread -> PC]
    /\ ctl \in [Thread -> [fd : Fd, mode : Mode] \cup {None}]
    /\ max_events \in [Thread -> 0..MaxEvents]
    /\ last_look \subseteq Thread
    /\ batch \in [Thread -> Seq(Fd)]
    /\ result \in [Thread -> SUBSET Fd]
    /\ requeue \in [Thread -> SUBSET Fd]
    /\ registered \subseteq Thread /\ woken \subseteq Thread

\* A notification of f is on its way to the ready list.
OnItsWay(f) == \E w \in Writer : writer[w].fd = f /\ writer[w].pc \in {"changed", "collected"}

\* epoll_wait will report f unless something changes: it is ready, its interest
\* is enabled and, unless level-triggered, it has not been seen since.
Reportable(f) ==
    /\ f \in DOMAIN interests /\ ~interests[f].disabled
    /\ f \in level
    /\ interests[f].mode = "LT" \/ f \in unseen

\* No lost event: what epoll_wait would have to report is on the ready list, or
\* a notification is on its way there, or an epoll_wait has it in hand.
NoLostEvent ==
    \A f \in Fd : Reportable(f) =>
       f \in events \/ OnItsWay(f) \/ \E t \in Thread : InBatch(t, f) \/ f \in requeue[t]

\* Every stored event is on the queue: epoll_ctl removes events without their
\* queue entries, and still no event is without one.
EventsQueued == \A f \in events : \E i \in 1..Len(queue) : queue[i] = f

\* Whoever is about to notify the sleepers of the epoll.
Notifying ==
    \/ \E w \in Writer : writer[w].pc = "notify"
    \/ \E t \in Thread : pc[t] \in {"insert_notify", "requeue_notify"}

\* No thread sleeps in epoll_wait while an event is stored, unless it is about
\* to be told.
NoSleeperOnEvents ==
    \A t \in Thread : pc[t] = "sleeping" /\ events # {} => t \in woken \/ Notifying

\* A descriptor is listened to exactly while it has an enabled interest.
ListeningExact ==
    epoll_lock = None =>
       listening = {f \in DOMAIN interests : ~interests[f].disabled}

\* The ready list and the listeners are exact: no event without a queue entry,
\* no listener without an enabled interest (epoll.rs, EpollReadyState, ctl).
ReadyListExact == TypeOK /\ EventsQueued /\ ListeningExact

\* No event is lost on its way to epoll_wait, and nobody sleeps on one
\* (epoll.rs; context/fd.rs).
EventsKept == NoLostEvent /\ ReadyListExact /\ NoSleeperOnEvents

\* A thread asleep in epoll_wait wakes when a watched file is ready.
EventWakes ==
    \A t \in Thread, f \in Fd : pc[t] = "sleeping" /\ Reportable(f)
                                  ~> pc[t] # "sleeping" \/ ~Reportable(f)

\* No descriptor starves: one that stays ready and level-triggered is returned
\* again and again, however few events each epoll_wait may return, as long as
\* threads come back from epoll_wait with something.
NoStarvation ==
    \A f \in Fd :
       /\ <>[](Reportable(f) /\ interests[f].mode = "LT")
       /\ []<>(\E t \in Thread : pc[t] = "return" /\ result[t] # {})
       => []<>(\E t \in Thread : pc[t] = "return" /\ f \in result[t])
=============================================================================
