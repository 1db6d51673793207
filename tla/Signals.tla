------------------------------ MODULE Signals ------------------------------
(***************************************************************************)
(* Signals of one thread group (signal/state.rs, signal/core.rs, the       *)
(* x86_64 signal frame, the rt_sig* handlers, the signal half of           *)
(* process/manager.rs) and the sleeps a signal may end: sigsuspend, the    *)
(* poll family with its temporary mask, nanosleep and futex, file I/O.     *)
(*                                                                         *)
(* A thread of the process table is reached by notify_signal; a thread     *)
(* that runs, or is still on its way to sleep, is not in the table and is  *)
(* reached through the manager's side queue, merged when the thread is     *)
(* taken for dispatch.  Signals keep their Linux numbers, because the      *)
(* lowest number is delivered first.  An Option is a set of at most one    *)
(* element.                                                                *)
(***************************************************************************)
EXTENDS Integers, Sequences, FiniteSets

CONSTANTS
    Sig,          \* the signals that are sent, by number
    SigThread,    \* the threads of the group
    Leader,       \* the thread whose pid is the group's id
    SigActions,   \* the handlers a program installs
    SigMasks,     \* the masks a program asks for
    AltStack,     \* the alternate stacks of the program
    SigBudgets,   \* bounds: how many signals are sent and how many calls are made
    MaxFrames

ASSUME SignalsAssumption ==
    /\ Sig \subseteq Nat /\ Leader \in SigThread
    /\ \A m \in SigMasks : m \subseteq Sig
    /\ \A a \in SigActions : a.mask \subseteq Sig

\* ppoll and poll, pselect6, epoll_pwait
Polls == {"poll", "select", "epoll"}

SIGKILL == 9
SIGCHLD == 17
SIGCONT == 18
SIGSTOP == 19
StopSignals == {19, 20, 21, 22}
IgnoredByDefault == {17, 23, 28}

VARIABLES
    sigs,         \* the signal state of each thread
    sigaction,    \* the actions, shared by the threads of the group
    groupExit,    \* group_exit_status is set
    sigBudget     \* sends and calls left: a bound
sigVars == <<sigs, sigaction, groupExit, sigBudget>>

Off == [stack |-> {}, auto |-> FALSE]
DefaultAction == [handler |-> "dfl", mask |-> {}, onstack |-> FALSE, nodefer |-> FALSE]
Main == "main"

\* place: where the thread is; call: the blocking call it is in;
\* saved: the mask a poll restores; home: what the program set outside any
\* handler, a history the properties compare with; torn: a SIGCHLD frame
\* could not be written.
FreshSignals(mask, alt, place) ==
    [place |-> place, call |-> "none", mask |-> mask, pending |-> {}, queued |-> <<>>,
     suspend |-> {}, saved |-> {}, result |-> "none", alt |-> alt, sp |-> Main,
     frames |-> <<>>, home |-> [mask |-> mask, alt |-> alt], torn |-> FALSE]

SigInit ==
    /\ sigs = [t \in SigThread |->
                  FreshSignals({}, Off, IF t = Leader THEN "table" ELSE "unborn")]
    /\ sigaction = [s \in Sig |-> DefaultAction]
    /\ groupExit = FALSE
    /\ sigBudget \in SigBudgets

Sanitize(mask) == mask \ {SIGKILL, SIGSTOP}
\* Every unblocked pending signal is deliverable, an ignored one too: it ends
\* a sleep although no handler runs.
Deliverable(st) == st.pending \ Sanitize(st.mask)
HasDeliverable(st) == Deliverable(st) # {}

\* SIGCONT discards the stop signals, and they it.
Discards(s, o) == (s = SIGCONT /\ o \in StopSignals) \/ (s \in StopSignals /\ o = SIGCONT)
Enqueued(pending, s) == {s} \cup {o \in pending : ~Discards(s, o)}
\* The queue enqueued in order: what was pending, or queued, and not
\* discarded by a signal queued later.
EnqueuedAll(pending, queue) ==
    {o \in pending \cup {queue[i] : i \in DOMAIN queue} :
        \E i \in 0..Len(queue) :
           /\ IF i = 0 THEN o \in pending ELSE queue[i] = o
           /\ \A j \in (i + 1)..Len(queue) : ~Discards(queue[j], o)}
Drained(st) == [st EXCEPT !.pending = EnqueuedAll(st.pending, st.queued), !.queued = <<>>]

---------------------------------------------------------------------------
(* Sending.                                                                *)

InTable(st) == st.place \in {"table", "woken", "asleep"}
Executing(st) == st.place \in {"running", "blocking"}
Present(st) == InTable(st) \/ Executing(st)

LeftSuspend(st) ==
    [st EXCEPT !.mask = IF st.suspend = {} THEN @ ELSE CHOOSE m \in st.suspend : TRUE,
               !.suspend = {}]
SuspendEnded(st) == [LeftSuspend(st) EXCEPT !.place = "woken", !.result = "signal"]

\* notify_signal: file and child waits are not interrupted.
Notified(st, s) ==
    LET hit == [st EXCEPT !.pending = Enqueued(st.pending, s)] IN
    IF st.place = "asleep" /\ HasDeliverable(hit) /\ st.call \in {"suspend", "nap"} \cup Polls
    THEN IF st.call = "suspend" THEN SuspendEnded(hit)
         ELSE [hit EXCEPT !.place = "woken", !.result = "signal"]
    ELSE hit

\* A thread out of the table: the manager's side queue.
Parked(st, s) == [st EXCEPT !.queued = Append(st.queued, s)]
SendTo(t, s) ==
    /\ Present(sigs[t])
    /\ sigs' = [sigs EXCEPT ![t] = IF InTable(@) THEN Notified(@, s) ELSE Parked(@, s)]
    /\ UNCHANGED <<sigaction, groupExit>>

SpendSend == sigBudget.sends > 0 /\ sigBudget' = [sigBudget EXCEPT !.sends = @ - 1]
SpendCall == sigBudget.calls > 0 /\ sigBudget' = [sigBudget EXCEPT !.calls = @ - 1]

\* tkill and tgkill
TKill(t, s) == SpendSend /\ SendTo(t, s)

Willing(t, s) == Executing(sigs[t]) \/ (InTable(sigs[t]) /\ s \notin Sanitize(sigs[t].mask))
\* pick_thread_group_target: the leader, then any member, that runs or does
\* not block the signal; failing that the leader, or the first member.
GroupTargets(s) ==
    LET members == {t \in SigThread : Present(sigs[t])}
        willing == {t \in members : Willing(t, s)}
        first(set) == IF Leader \in set THEN {Leader} ELSE set
    IN IF willing # {} THEN first(willing) ELSE first(members)

\* kill, and every signal the kernel sends to a thread group.
Kill(s) == SpendSend /\ \E t \in GroupTargets(s) : SendTo(t, s)

---------------------------------------------------------------------------
(* Dispatch: take_next_process_for_pid.                                    *)

Contains(alt, sp) == sp \in alt.stack

UsesAltstack(st, a) == a.onstack /\ st.alt # Off /\ ~Contains(st.alt, st.sp)

DisarmedFor(st, a) == IF UsesAltstack(st, a) /\ st.alt.auto THEN Off ELSE st.alt

Delivered(st, s, a) ==
    LET up == UsesAltstack(st, a) IN
    [st EXCEPT !.pending = @ \ {s},
               !.frames = Append(@, [mask |-> st.mask, alt |-> st.alt, sp |-> st.sp,
                                     fresh |-> IF up THEN st.alt.stack ELSE {}]),
               !.sp = IF up THEN CHOOSE x \in st.alt.stack : TRUE ELSE @,
               !.alt = DisarmedFor(st, a),
               !.mask = Sanitize(@ \cup a.mask \cup IF a.nodefer THEN {} ELSE {s}),
               !.place = "running"]

\* Exit of a thread other than the leader ends the group; the leader's own
\* death by a signal leaves the other threads running.
Wakened(st) ==
    IF st.place = "asleep" THEN [st EXCEPT !.place = "woken", !.result = "signal"] ELSE st
DieBySignal(t) ==
    IF t = Leader
    THEN /\ sigs' = [sigs EXCEPT ![t].place = "gone"]
         /\ UNCHANGED groupExit
    ELSE /\ sigs' = [u \in SigThread |-> IF u = t THEN [sigs[u] EXCEPT !.place = "gone"]
                                         ELSE Wakened(sigs[u])]
         /\ groupExit' = TRUE

Lowest(set) == CHOOSE s \in set : \A o \in set : s <= o
NextSignal(st) == Lowest(Deliverable(st))
DefaultKind(s) ==
    CASE s \in IgnoredByDefault -> "ignore" [] s \in StopSignals -> "stop"
      [] s = SIGCONT -> "continue" [] OTHER -> "terminate"
DeliveryOf(s) ==
    IF sigaction[s].handler = "dfl" THEN DefaultKind(s)
    ELSE IF sigaction[s].handler = "ign" THEN "ignore" ELSE "deliver"

TakeTurn(t) ==
    LET st == Drained(sigs[t])
        s == NextSignal(st)
        taken == [st EXCEPT !.pending = @ \ {s}, !.place = "running"]
    IN
    /\ st.place = "table" /\ ~groupExit
    /\ UNCHANGED <<sigaction, sigBudget>>
    /\ \/ /\ ~HasDeliverable(st)
          /\ sigs' = [sigs EXCEPT ![t] = [st EXCEPT !.place = "running"]]
          /\ UNCHANGED groupExit
       \/ /\ HasDeliverable(st) /\ DeliveryOf(s) \in {"ignore", "continue"}
          /\ sigs' = [sigs EXCEPT ![t] = taken]
          /\ UNCHANGED groupExit
       \/ /\ HasDeliverable(st) /\ DeliveryOf(s) = "deliver" /\ Len(st.frames) < MaxFrames
          /\ sigs' = [sigs EXCEPT ![t] = Delivered(st, s, sigaction[s])]
          /\ UNCHANGED groupExit
       \/ \* the frame cannot be written: only SIGCHLD is survived, the stack
          \* already disarmed
          /\ HasDeliverable(st) /\ DeliveryOf(s) = "deliver" /\ s = SIGCHLD
          /\ sigs' = [sigs EXCEPT ![t] = [taken EXCEPT !.alt = DisarmedFor(st, sigaction[s]),
                                                       !.torn = TRUE]]
          /\ UNCHANGED groupExit
       \/ /\ HasDeliverable(st)
          /\ \/ DeliveryOf(s) = "terminate"
             \/ DeliveryOf(s) = "deliver" /\ s # SIGCHLD
          /\ DieBySignal(t)
       \/ \* stopped: the process is not put back into the table
          /\ HasDeliverable(st) /\ DeliveryOf(s) = "stop"
          /\ sigs' = [sigs EXCEPT ![t].place = "gone"]
          /\ UNCHANGED groupExit

DispatchExiting(t) ==
    /\ groupExit /\ sigs[t].place \in {"table", "woken"}
    /\ sigs' = [sigs EXCEPT ![t].place = "gone"]
    /\ UNCHANGED <<sigaction, groupExit, sigBudget>>

TimeSliceEnds(t) ==
    /\ sigs[t].place = "running"
    /\ sigs' = [sigs EXCEPT ![t].place = "table"]
    /\ UNCHANGED <<sigaction, groupExit, sigBudget>>

---------------------------------------------------------------------------
(* Calls of a running thread.  A finished call goes back to the table.     *)

Calling(t) == sigs[t].place = "running" /\ SpendCall /\ UNCHANGED groupExit
Returned(st) == [st EXCEPT !.place = "table", !.call = "none"]
AtHome(st) == st.frames = <<>>

MaskSet(st, mask) ==
    [st EXCEPT !.mask = mask, !.home.mask = IF AtHome(st) THEN mask ELSE st.home.mask]
SigProcMask(t) ==
    /\ Calling(t)
    /\ \E m \in SigMasks, how \in {"block", "unblock", "set"} :
          LET old == sigs[t].mask
              mask == CASE how = "block" -> old \cup Sanitize(m)
                        [] how = "unblock" -> old \ Sanitize(m)
                        [] OTHER -> Sanitize(m)
          IN sigs' = [sigs EXCEPT ![t] = Returned(MaskSet(@, mask))]
    /\ UNCHANGED sigaction

SigAction(t) ==
    /\ Calling(t)
    /\ \E s \in Sig \ {SIGKILL, SIGSTOP}, a \in SigActions :
          sigaction' = [sigaction EXCEPT ![s] = a]
    /\ sigs' = [sigs EXCEPT ![t] = Returned(@)]

AltSet(st, alt) ==
    [st EXCEPT !.alt = alt, !.home.alt = IF AtHome(st) THEN alt ELSE st.home.alt]
LiveStacks(st) == UNION {st.frames[i].fresh : i \in DOMAIN st.frames}

\* sigaltstack: refused while the thread runs on the current one; a program
\* does not offer a stack whose frames it has still to return from.
SigAltStack(t) ==
    /\ Calling(t)
    /\ \E x \in {{}} \cup {{a} : a \in AltStack}, auto \in BOOLEAN :
          LET st == sigs[t]
              new == IF x = {} THEN Off ELSE [stack |-> x, auto |-> auto]
              refused == Contains(st.alt, st.sp)
          IN /\ refused \/ x \cap LiveStacks(st) = {}
             /\ sigs' = [sigs EXCEPT ![t] = Returned(IF refused THEN st ELSE AltSet(st, new))]
    /\ UNCHANGED sigaction

SigReturned(st, f) ==
    [st EXCEPT !.mask = Sanitize(f.mask), !.sp = f.sp, !.alt = f.alt]
SigReturn(t) ==
    LET st == sigs[t] IN
    /\ st.place = "running" /\ st.frames # <<>>
    /\ LET f == st.frames[Len(st.frames)] IN
       sigs' = [sigs EXCEPT ![t] = Returned(
          [SigReturned(st, f) EXCEPT !.frames = SubSeq(st.frames, 1, Len(st.frames) - 1)])]
    /\ UNCHANGED <<sigaction, groupExit, sigBudget>>

Exec(t) ==
    /\ Calling(t)
    /\ sigs' = [sigs EXCEPT ![t] = [FreshSignals(@.mask, Off, "table") EXCEPT
                    !.pending = sigs[t].pending, !.queued = sigs[t].queued]]
    /\ sigaction' = [s \in Sig |-> IF sigaction[s].handler = "handler"
                                   THEN DefaultAction ELSE sigaction[s]]

CloneThread(t) ==
    /\ Calling(t)
    /\ \E u \in SigThread : sigs[u].place = "unborn" /\
          sigs' = [sigs EXCEPT ![u] = FreshSignals(sigs[t].mask, sigs[t].alt, "table"),
                               ![t] = Returned(@)]
    /\ UNCHANGED sigaction

\* A fault is delivered only to an unblocked handler; anything else kills.
Fault(t) ==
    /\ sigs[t].place = "running"
    /\ SpendSend
    /\ \E s \in Sig \cap {7, 8, 11} :
          IF sigaction[s].handler = "handler" /\ s \notin sigs[t].mask
          THEN /\ sigs' = [sigs EXCEPT ![t].place = "table", ![t].pending = Enqueued(@, s)]
               /\ UNCHANGED groupExit
          ELSE DieBySignal(t)
    /\ UNCHANGED sigaction

---------------------------------------------------------------------------
(* The calls that sleep.                                                   *)

\* The thread leaves for the table: a signal that arrives before Sleep goes
\* to the side queue.
Blocking(st, call) == [st EXCEPT !.place = "blocking", !.call = call, !.result = "none"]

SigSuspend(t) ==
    /\ Calling(t)
    /\ \E m \in {{}} \cup {{x} : x \in SigMasks} :
          LET old == sigs[t]
              st == IF m = {} THEN old
                    ELSE [old EXCEPT !.suspend = {old.mask},
                                     !.mask = Sanitize(CHOOSE x \in m : TRUE)]
          IN sigs' = [sigs EXCEPT ![t] = IF HasDeliverable(st) THEN Returned(LeftSuspend(st))
                                         ELSE Blocking(st, "suspend")]
    /\ UNCHANGED sigaction

\* Mutant of PollRestored: the mask comes back only when descriptors are ready.
PollRestoredOnReady(st) ==
    IF st.result = "signal" THEN Returned([st EXCEPT !.saved = {}])
    ELSE Returned([st EXCEPT !.mask = IF st.saved = {} THEN @ ELSE CHOOSE m \in st.saved : TRUE,
                             !.saved = {}])
PollRestored(st) ==
    Returned([st EXCEPT !.mask = IF st.saved = {} THEN @ ELSE CHOOSE m \in st.saved : TRUE,
                        !.saved = {}])

\* One turn of poll_wait_loop: descriptors that are ready, an error or an
\* expired timeout end the call, then a deliverable signal does; the mask is
\* put back on every one of these ways out.
PollTurn(st) ==
    {PollRestored(st)} \cup IF HasDeliverable(st) THEN {} ELSE {Blocking(st, st.call)}
\* pselect_wait_loop and epoll_wait_loop take the same turns.
SelectTurn(st) == PollTurn(st)
EpollTurn(st) == PollTurn(st)
TurnOf(st) ==
    CASE st.call = "select" -> SelectTurn(st) [] st.call = "epoll" -> EpollTurn(st)
      [] OTHER -> PollTurn(st)

\* The temporary mask, when the caller gave one.
Masked(st, m) == [st EXCEPT !.saved = IF m = {} THEN {} ELSE {st.mask},
                            !.mask = IF m = {} THEN @ ELSE Sanitize(CHOOSE x \in m : TRUE)]
PollCall(t) ==
    /\ Calling(t)
    /\ \E m \in {{}} \cup {{x} : x \in SigMasks}, call \in Polls :
          \E next \in TurnOf([Masked(sigs[t], m) EXCEPT !.call = call]) :
             sigs' = [sigs EXCEPT ![t] = next]
    /\ UNCHANGED sigaction

\* nanosleep and futex wait do not look for signals before they sleep.
NapCall(t) ==
    /\ Calling(t)
    /\ \E call \in {"nap", "io"} : sigs' = [sigs EXCEPT ![t] = Blocking(@, call)]
    /\ UNCHANGED sigaction

\* finish_kernel_block and requeue_process: the side queue is not merged.
Sleep(t) ==
    /\ sigs[t].place = "blocking"
    /\ sigs' = [sigs EXCEPT ![t].place = "asleep"]
    /\ UNCHANGED <<sigaction, groupExit, sigBudget>>

\* An event, a deadline or a wake ends the sleep; only a signal ends sigsuspend.
EventArrives(t) ==
    /\ sigs[t].place = "asleep" /\ sigs[t].call # "suspend"
    /\ \E r \in {"event", "timeout"} :
          sigs' = [sigs EXCEPT ![t] = [@ EXCEPT !.place = "woken", !.result = r]]
    /\ UNCHANGED <<sigaction, groupExit, sigBudget>>

\* The kernel continuation runs; the side queue is merged when it is taken.
Resume(t) ==
    LET st == Drained(sigs[t]) IN
    /\ st.place = "woken" /\ ~groupExit
    /\ \E next \in IF st.call \in Polls /\ st.result = "event" THEN TurnOf(st)
                   ELSE IF st.call \in Polls THEN {PollRestored(st)} ELSE {Returned(st)} :
          sigs' = [sigs EXCEPT ![t] = next]
    /\ UNCHANGED <<sigaction, groupExit, sigBudget>>

SigNext ==
    \/ \E s \in Sig : Kill(s)
    \/ \E t \in SigThread :
          \/ \E s \in Sig : TKill(t, s)
          \/ TakeTurn(t) \/ DispatchExiting(t) \/ TimeSliceEnds(t)
          \/ SigProcMask(t) \/ SigAction(t) \/ SigAltStack(t) \/ SigReturn(t)
          \/ Exec(t) \/ CloneThread(t) \/ Fault(t)
          \/ SigSuspend(t) \/ PollCall(t) \/ NapCall(t) \/ Sleep(t) \/ EventArrives(t) \/ Resume(t)

SigSpec == SigInit /\ [][SigNext]_sigVars

---------------------------------------------------------------------------
(* Properties.                                                             *)

SigTypeOK ==
    /\ sigaction \in [Sig -> SigActions \cup {DefaultAction}]
    /\ groupExit \in BOOLEAN
    /\ \A t \in SigThread : LET st == sigs[t] IN
          /\ st.place \in {"unborn", "table", "woken", "running", "blocking", "asleep", "gone"}
          /\ st.pending \subseteq Sig /\ st.mask \subseteq Sig \ {SIGKILL, SIGSTOP}
          /\ st.queued \in Seq(Sig)
          /\ Cardinality(st.suspend) <= 1 /\ Cardinality(st.saved) <= 1

\* Once the handlers, the sigsuspends and the polls a thread was in are
\* unwound, its mask and its alternate stack are the ones the program set
\* itself: every way out of the wait loops, and every frame, puts back what
\* it took away, whatever arrived meanwhile.  A SIGCHLD frame that could not
\* be written is the one exception, for the stack it had already disarmed.
HomeRestored ==
    \A t \in SigThread : LET st == sigs[t] IN
       st.call = "none" /\ AtHome(st) /\ st.place \in {"table", "running"} =>
          /\ st.mask = st.home.mask /\ st.suspend = {} /\ st.saved = {}
          /\ st.alt = st.home.alt \/ st.torn

\* A handler never starts at the top of an alternate stack that holds the
\* frame of a handler still to return: the nested frame would overwrite it.
AltstackNotReused ==
    \A t \in SigThread : LET fr == sigs[t].frames IN
       \A i, j \in DOMAIN fr : i # j => fr[i].fresh \cap fr[j].fresh = {}

\* A thread asleep in sigsuspend or in a poll has no deliverable signal
\* pending: the check before sleeping and notify_signal leave no gap between
\* them.  (A signal parked in the side queue is not pending yet.)
SuspendersQuiet ==
    \A t \in SigThread : LET st == sigs[t] IN
       st.place \in {"blocking", "asleep"} /\ st.call \in {"suspend"} \cup Polls =>
          ~HasDeliverable(st)

\* Signal handling leaves no trace: masks and stacks come back, no frame is
\* overwritten, and no thread sleeps on a signal it should take (signal/state.rs,
\* manager.rs, context/fd.rs).
SignalsSound == SigTypeOK /\ HomeRestored /\ AltstackNotReused /\ SuspendersQuiet
=============================================================================
