------------------------------ MODULE FileWait ------------------------------
(***************************************************************************)
(* Blocking reads and writes, poll and select: file_blocking_syscall,      *)
(* poll_wait_loop, pselect_wait_loop, the file's WaitQueue,                *)
(* FileBlockListener and wake_ready_file_blocks, around an event counter   *)
(* (eventfd.rs) or the two ends of a pipe (pipe.rs).                       *)
(*                                                                         *)
(* A thread that would block registers a listener, polls once more and is  *)
(* tracked as blocked, all under the manager's lock.  A thread that        *)
(* changes the file does so under the file's own lock, and afterwards, with *)
(* no lock, collects the listeners and wakes each: it puts the pid into a  *)
(* set, then onto a queue, then raises a flag.  A run loop that sees the   *)
(* flag empties the queue.  All of these interleave.                       *)
(***************************************************************************)
EXTENDS Naturals, Sequences, FiniteSets

CONSTANTS
    Thread,
    Kind,     \* the kinds of file: "eventfd", "semaphore" (EFD_SEMAPHORE), "pipe"
    Max,      \* EVENTFD_COUNTER_MAX, or PIPE_CAPACITY in units of one write
    Polls,    \* the calls of poll and select that threads make; see PollCall
    None

ASSUME KindAssumption == Kind \subseteq {"eventfd", "semaphore", "pipe"}
ASSUME MaxAssumption == Max \in Nat \ {0}
ASSUME NoneAssumption == None \notin Thread /\ "drain" \notin Thread /\ None # "drain"

\* What can be waited for; of a pipe, READ at its read end and WRITE at its
\* write end, which are two descriptors
Event == {"READ", "WRITE"}

\* The descriptors a call waits on, and those of them whose event it asked
\* for.  All of them are watched for errors and hang-ups (PollEvents::ALWAYS):
\* poll may ask for nothing else, select by naming a descriptor in exceptfds.
PollCall == [api : {"poll", "select"}, fds : SUBSET Event, wants : SUBSET Event]
ASSUME PollsAssumption == Polls \subseteq {c \in PollCall : c.fds # {} /\ c.wants \subseteq c.fds}

FileCall(event) == [api |-> "file", fds |-> {event}, wants |-> {event}]
NoCall == [api |-> "none", fds |-> {}, wants |-> {}]

VARIABLES
    kind,           \* what the file is
    level,          \* the counter, or the bytes in the pipe
    readers,        \* the threads that hold the read end of the pipe open
    writers,        \* ... and the write end
    pc,             \* how far each thread is; see the actions
    op,             \* its system call
    unpolled,       \* the descriptors that the loop at hand has yet to poll
    rest,           \* how much a write has yet to put
    wrote,          \* a pipe write has put some of it already
    notify,         \* the events a thread has to notify
    todo,           \* the listeners it has collected and not yet woken
    waking,         \* the listener it is waking
    registrations,  \* WaitQueue.registrations: threads with a listener there
    enqueued, queue, pending,   \* file_wait_enqueued, _queue, _pending
    lock            \* the holder of the process manager's lock, or None

vars == <<kind, level, readers, writers, pc, op, unpolled, rest, wrote, notify, todo, waking, registrations,
          enqueued, queue, pending, lock>>
fileVars == <<kind, level, readers, writers>>
callVars == <<op, unpolled, rest, wrote>>
notifyVars == <<notify, todo, waking>>
waitVars == <<registrations, enqueued, queue, pending>>

PC == {"user", "try", "changed", "wake", "push", "flag", "again", "registered", "blocked"}

Init ==
    /\ kind \in Kind
    /\ level = 0
    /\ readers = Thread /\ writers = Thread
    /\ pc = [t \in Thread |-> "user"]
    /\ op = [t \in Thread |-> NoCall]
    /\ unpolled = [t \in Thread |-> {}]
    /\ rest = [t \in Thread |-> 0]
    /\ wrote = {}
    /\ notify = [t \in Thread |-> {}]
    /\ todo = [t \in Thread |-> {}]
    /\ waking = [t \in Thread |-> None]
    /\ registrations = {} /\ enqueued = {} /\ queue = <<>> /\ pending = FALSE
    /\ lock = None

-----------------------------------------------------------------------------
(* The file *)

\* poll of a descriptor: what it is ready for ...
Has(event) ==
    IF event = "READ" THEN level > 0
    ELSE level < Max /\ (kind = "pipe" => readers # {})
\* ... and the errors and hang-ups, which it reports unasked
HungUp(event) == kind = "pipe" /\ (IF event = "READ" THEN writers ELSE readers) = {}
Ready(event) == Has(event) \/ HungUp(event)

Opened(t, event) == t \in (IF event = "READ" THEN readers ELSE writers)

Started(t, call) ==
    /\ pc[t] = "user"
    /\ pc' = [pc EXCEPT ![t] = "try"]
    /\ op' = [op EXCEPT ![t] = call]
    /\ unpolled' = [unpolled EXCEPT ![t] = IF call.api = "file" THEN {} ELSE call.fds]
    /\ UNCHANGED <<fileVars, wrote, notifyVars, waitVars, lock>>

Call(t, event, amount) ==
    /\ Opened(t, event) /\ (event = "READ" => amount = 0)
    /\ Started(t, FileCall(event))
    /\ rest' = [rest EXCEPT ![t] = amount]

CallPoll(t, call) == Started(t, call) /\ UNCHANGED rest

\* The system call is over; the thread is back in user mode.
Ended(t) ==
    /\ pc' = [pc EXCEPT ![t] = "user"]
    /\ op' = [op EXCEPT ![t] = NoCall]
    /\ unpolled' = [unpolled EXCEPT ![t] = {}]
    /\ rest' = [rest EXCEPT ![t] = 0]
    /\ wrote' = wrote \ {t}
Return(t) == Ended(t) /\ UNCHANGED notify

\* The file's lock is released; E remains to be notified.
Changed(t, E) ==
    /\ pc' = [pc EXCEPT ![t] = "changed"]
    /\ notify' = [notify EXCEPT ![t] = E]
    /\ UNCHANGED <<op, unpolled>>

WouldBlock(t) == pc' = [pc EXCEPT ![t] = "again"] /\ UNCHANGED <<callVars, notify>>

\* read notifies writers only when the file was full
WhenFull(was) == was = Max

\* FileOperations::read
TryRead(t) ==
    /\ pc[t] = "try" /\ op[t] = FileCall("READ")
    /\ \/ /\ level > 0
          /\ \E n \in 1..Max :
                /\ n <= level
                /\ kind = "eventfd" => n = level
                /\ kind = "semaphore" => n = 1
                /\ level' = level - n
                /\ Changed(t, IF WhenFull(level) THEN {"WRITE"} ELSE {})
          /\ UNCHANGED <<rest, wrote>>
       \/ /\ level = 0
          /\ IF Ready("READ") THEN Return(t) ELSE WouldBlock(t)
          /\ UNCHANGED level
    /\ UNCHANGED <<kind, readers, writers, todo, waking, waitVars, lock>>

Fits(amount) == amount <= Max - level

\* FileOperations::write, of an event counter ...
TryWriteEventFd(t) ==
    /\ pc[t] = "try" /\ op[t] = FileCall("WRITE") /\ kind # "pipe"
    /\ IF Fits(rest[t])
       THEN /\ level' = level + rest[t]
            /\ Changed(t, IF level = 0 /\ rest[t] > 0 THEN {"READ"} ELSE {})
            /\ rest' = [rest EXCEPT ![t] = 0]
            /\ UNCHANGED wrote
       ELSE WouldBlock(t) /\ UNCHANGED level
    /\ UNCHANGED <<kind, readers, writers, todo, waking, waitVars, lock>>

\* ... and one turn of the loop that writes to a pipe
TryWritePipe(t) ==
    LET space == Max - level
        chunk == IF rest[t] < space THEN rest[t] ELSE space
    IN
    /\ pc[t] = "try" /\ op[t] = FileCall("WRITE") /\ kind = "pipe"
    /\ IF readers = {} \/ rest[t] = 0 \/ (space = 0 /\ t \in wrote)
       THEN Return(t) /\ UNCHANGED level
       ELSE IF space = 0
       THEN WouldBlock(t) /\ UNCHANGED level
       ELSE /\ level' = level + chunk
            /\ rest' = [rest EXCEPT ![t] = @ - chunk]
            /\ wrote' = wrote \cup {t}
            /\ Changed(t, {"READ"})
    /\ UNCHANGED <<kind, readers, writers, todo, waking, waitVars, lock>>

\* Mutant of Hangup: the last close of an end tells nobody.
HangupSilently(t) == UNCHANGED <<pc, op, unpolled, notify>>
\* remove_reader, remove_writer: every waiter is notified
Hangup(t) == Changed(t, Event)
Release(t, event) ==
    /\ kind = "pipe" /\ pc[t] = "user"
    /\ IF event = "READ"
       THEN t \in readers /\ readers' = readers \ {t} /\ UNCHANGED writers
       ELSE t \in writers /\ writers' = writers \ {t} /\ UNCHANGED readers
    /\ Hangup(t)
    /\ UNCHANGED <<kind, level, rest, wrote, todo, waking, waitVars, lock>>

-----------------------------------------------------------------------------
(* poll_wait_loop and pselect_wait_loop: the descriptors are polled one     *)
(* after the other, each under its file's lock, and what was not ready when *)
(* looked at may be ready when the last one has been.                       *)

\* evaluate_poll_fds: an event asked for, or an error
PollAnswers(call, event) == (event \in call.wants /\ Has(event)) \/ HungUp(event)
\* evaluate_select_fd_sets: an error counts for the events asked for, and
\* exceptfds is cleared whatever there is
SelectAnswers(call, event) == event \in call.wants /\ Ready(event)
Answers(call, event) ==
    IF call.api = "poll" THEN PollAnswers(call, event) ELSE SelectAnswers(call, event)

\* A descriptor that is not open ends the call (POLLNVAL, EBADF).
EvaluateFd(t, event) ==
    /\ pc[t] = "try" /\ event \in unpolled[t]
    /\ IF Opened(t, event) /\ ~Answers(op[t], event)
       THEN /\ unpolled' = [unpolled EXCEPT ![t] = @ \ {event}]
            /\ UNCHANGED <<pc, op, rest, wrote>>
       ELSE Ended(t)
    /\ UNCHANGED <<fileVars, notifyVars, waitVars, lock>>

\* None is ready: a call that may not wait (timeout 0), or has a signal to
\* handle, returns, any other waits.
NoneReady(t) ==
    /\ pc[t] = "try" /\ op[t] \in PollCall /\ unpolled[t] = {}
    /\ Return(t) \/ WouldBlock(t)
    /\ UNCHANGED <<fileVars, todo, waking, waitVars, lock>>

-----------------------------------------------------------------------------
(* WaitQueue::notify and FileBlockListener::wake *)

\* A listener registered for some event of E; a hang-up is notified as every
\* event and as an error, for which all are registered.
Hears(l, E) == op[l].wants \cap E # {} \/ E = Event

CollectListeners(t) ==
    /\ pc[t] = "changed"
    /\ todo' = [todo EXCEPT ![t] = {l \in registrations : Hears(l, notify[t])}]
    /\ notify' = [notify EXCEPT ![t] = {}]
    /\ pc' = [pc EXCEPT ![t] = "wake"]
    /\ UNCHANGED <<fileVars, callVars, waking, waitVars, lock>>

ShouldQueue(l) == l \notin enqueued

\* The next listener is entered into file_wait_enqueued ...
WakeListener(t, l) ==
    /\ pc[t] = "wake" /\ l \in todo[t]
    /\ enqueued' = enqueued \cup {l}
    /\ todo' = [todo EXCEPT ![t] = @ \ {l}]
    /\ waking' = [waking EXCEPT ![t] = l]
    /\ pc' = [pc EXCEPT ![t] = IF ShouldQueue(l) THEN "push" ELSE "flag"]
    /\ UNCHANGED <<fileVars, callVars, notify, registrations, queue, pending, lock>>

\* ... and pushed onto file_wait_queue if it was not there ...
PushListener(t) ==
    /\ pc[t] = "push"
    /\ queue' = Append(queue, waking[t])
    /\ pc' = [pc EXCEPT ![t] = "flag"]
    /\ UNCHANGED <<fileVars, callVars, notifyVars, registrations, enqueued, pending, lock>>

\* ... and the flag raised.
RaisePending(t) ==
    /\ pc[t] = "flag"
    /\ pending' = TRUE
    /\ waking' = [waking EXCEPT ![t] = None]
    /\ pc' = [pc EXCEPT ![t] = "wake"]
    /\ UNCHANGED <<fileVars, callVars, notify, todo, registrations, enqueued, queue, lock>>

\* notify returns; a pipe write goes round its loop, any other call is over.
Notified(t) ==
    /\ pc[t] = "wake" /\ todo[t] = {}
    /\ IF kind = "pipe" /\ op[t] = FileCall("WRITE") /\ rest[t] > 0
       THEN pc' = [pc EXCEPT ![t] = "try"] /\ UNCHANGED callVars
       ELSE Ended(t)
    /\ UNCHANGED <<fileVars, notifyVars, waitVars, lock>>

-----------------------------------------------------------------------------
(* The process manager, under its lock *)

\* collect_poll_registrations, collect_select_registrations: every descriptor
\* named, for whatever it was named
Watched(t) == {event \in op[t].fds : Opened(t, event)}

\* finish_kernel_block, ensure_file_wait_registration: one listener for all of
\* the descriptors
Register(t) ==
    /\ pc[t] = "again" /\ lock = None
    /\ lock' = t
    /\ registrations' = registrations \cup {t}
    /\ unpolled' = [unpolled EXCEPT ![t] = Watched(t)]
    /\ pc' = [pc EXCEPT ![t] = "registered"]
    /\ UNCHANGED <<fileVars, op, rest, wrote, notifyVars, enqueued, queue, pending>>

\* Mutant of PolledReady: the file is not looked at again once registered.
NotPolled(call, event) == FALSE
\* blocked_file_ready_result
PolledReady(call, event) == (event \in call.wants /\ Has(event)) \/ HungUp(event)

\* The next attempt of the calls of W starts over.
Retried(W) == [t \in Thread |-> IF t \notin W THEN unpolled[t]
                                ELSE IF op[t] \in PollCall THEN op[t].fds ELSE {}]

\* requeue_process: the descriptors are polled again, and one that is ready by
\* now unblocks the thread at once
Track(t, event) ==
    /\ pc[t] = "registered" /\ event \in unpolled[t]
    /\ IF PolledReady(op[t], event)
       THEN /\ pc' = [pc EXCEPT ![t] = "try"]
            /\ unpolled' = Retried({t})
            /\ registrations' = registrations \ {t}
            /\ lock' = None
       ELSE LET last == unpolled[t] = {event} IN
            /\ unpolled' = [unpolled EXCEPT ![t] = @ \ {event}]
            /\ pc' = [pc EXCEPT ![t] = IF last THEN "blocked" ELSE @]
            /\ lock' = IF last THEN None ELSE lock
            /\ UNCHANGED registrations
    /\ UNCHANGED <<fileVars, op, rest, wrote, notifyVars, enqueued, queue, pending>>

\* unregister_file_wait_registrations
Unregistered(W) == registrations \ W

\* A poll that times out, whose answer is no matter, or a blocked thread whose
\* group exits: the call ends.
Interrupt(t) ==
    /\ pc[t] = "blocked" /\ lock = None
    /\ registrations' = Unregistered({t})
    /\ Ended(t)
    /\ UNCHANGED <<fileVars, notifyVars, enqueued, queue, pending, lock>>

\* wake_ready_file_blocks: the flag is taken first ...
TakePending ==
    /\ lock = None /\ pending
    /\ pending' = FALSE
    /\ lock' = "drain"
    /\ UNCHANGED <<fileVars, pc, callVars, notifyVars, registrations, enqueued, queue>>

\* ... then the queue, and those on it that are blocked are woken.
DrainQueue ==
    LET ready == {queue[i] : i \in 1..Len(queue)}
        woken == {t \in ready : pc[t] = "blocked"}
    IN
    /\ lock = "drain"
    /\ queue' = <<>>
    /\ enqueued' = enqueued \ ready
    /\ registrations' = Unregistered(woken)
    /\ pc' = [t \in Thread |-> IF t \in woken THEN "try" ELSE pc[t]]
    /\ unpolled' = Retried(woken)
    /\ lock' = None
    /\ UNCHANGED <<fileVars, op, rest, wrote, notifyVars, pending>>

-----------------------------------------------------------------------------
Step(t) ==
    \/ TryRead(t) \/ TryWriteEventFd(t) \/ TryWritePipe(t)
    \/ (\E event \in Event : EvaluateFd(t, event)) \/ NoneReady(t)
    \/ CollectListeners(t) \/ (\E l \in Thread : WakeListener(t, l))
    \/ PushListener(t) \/ RaisePending(t) \/ Notified(t)
    \/ Register(t) \/ (\E event \in Event : Track(t, event))

Next ==
    \/ \E t \in Thread :
          \/ \E event \in Event, amount \in 0..Max : Call(t, event, amount)
          \/ \E event \in Event : Release(t, event)
          \/ \E call \in Polls : CallPoll(t, call)
          \/ Step(t) \/ Interrupt(t)
    \/ TakePending \/ DrainQueue

Spec == Init /\ [][Next]_vars

\* Running system calls and the run loops go on; nobody has to start a call.
\* The manager's lock is a spin lock taken again and again by every CPU, so
\* whoever waits for it gets it.
Fairness == /\ \A t \in Thread : WF_vars(Step(t)) /\ SF_vars(Register(t))
            /\ SF_vars(TakePending) /\ WF_vars(DrainQueue)
FairSpec == Spec /\ Fairness

-----------------------------------------------------------------------------
(* Properties *)

\* Typing; the counter, or the pipe, never exceeds its maximum (eventfd.rs, write).
TypeOK ==
    /\ kind \in Kind
    /\ level \in 0..Max
    /\ readers \subseteq Thread /\ writers \subseteq Thread
    /\ pc \in [Thread -> PC]
    /\ op \in [Thread -> {FileCall(event) : event \in Event} \cup Polls \cup {NoCall}]
    /\ unpolled \in [Thread -> SUBSET Event]
    /\ \A t \in Thread : unpolled[t] \subseteq op[t].fds
    /\ rest \in [Thread -> 0..Max]
    /\ wrote \subseteq Thread
    /\ notify \in [Thread -> SUBSET Event]
    /\ todo \in [Thread -> SUBSET Thread]
    /\ waking \in [Thread -> Thread \cup {None}]
    /\ registrations \subseteq Thread
    /\ enqueued \subseteq Thread
    /\ queue \in Seq(Thread)
    /\ pending \in BOOLEAN
    /\ lock \in Thread \cup {None, "drain"}

Queued(t) == \E i \in 1..Len(queue) : queue[i] = t

\* A notification on its way to t: the change is made and the listeners not
\* yet collected, or t's is among the collected ones, or t is about to be pushed.
OnItsWay(t) ==
    \E u \in Thread : \/ pc[u] = "changed" /\ Hears(t, notify[u])
                      \/ t \in todo[u]
                      \/ pc[u] = "push" /\ waking[u] = t

\* Something a blocked thread waits for is there.
Due(t) == pc[t] = "blocked" /\ \E event \in op[t].fds : PollAnswers(op[t], event)

\* No lost wake-up: a thread blocked on a file that is ready is on the queue of
\* threads to wake, or a notification is on its way to it.
NoLostFileWake == \A t \in Thread : Due(t) => Queued(t) \/ OnItsWay(t)

\* Whatever is on the queue, the flag that makes a run loop look is up or about
\* to be raised, or a run loop is looking.
QueueIsSeen ==
    queue # <<>> => pending \/ lock = "drain" \/ \E u \in Thread : pc[u] = "flag"

\* file_wait_enqueued is the queue and what is about to be pushed: no pid is
\* queued twice, none is locked out of the queue.
EnqueuedExact ==
    /\ enqueued = {t \in Thread : Queued(t) \/ \E u \in Thread : pc[u] = "push" /\ waking[u] = t}
    /\ \A i, j \in 1..Len(queue) : queue[i] = queue[j] => i = j

\* A file keeps a listener exactly for the threads that wait on it.
RegistrationsExact ==
    registrations = {t \in Thread : pc[t] \in {"registered", "blocked"}}

\* The bookkeeping behind a wake-up is exact: what is queued will be seen, no
\* thread is queued twice or locked out of the queue, and no listener outlives
\* its wait (wait.rs; manager.rs, file_wait_enqueued and file_wait_queue).
WaitQueuesExact == TypeOK /\ QueueIsSeen /\ EnqueuedExact /\ RegistrationsExact

\* No wake-up is lost on its way through the wait queues (wait.rs, manager.rs).
WakeupsExact == NoLostFileWake /\ WaitQueuesExact

\* A thread blocked on a file that becomes ready goes on.
ReadyWakes == \A t \in Thread : Due(t) ~> pc[t] # "blocked"
=============================================================================
