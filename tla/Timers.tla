------------------------------- MODULE Timers -------------------------------
(***************************************************************************)
(* The kernel's interval timers: timerfd descriptors (fs/timerfd.rs) and   *)
(* the real-time itimer of each thread group (process/itimer.rs).  Both    *)
(* keep, beside the timers, an index of deadlines and the earliest         *)
(* deadline of the index in an atomic the timer interrupt reads.           *)
(*                                                                         *)
(* Time is a number of ticks.  A call reads the clock before it takes the  *)
(* registry's lock, so it may work with a time up to MaxLag ticks old.     *)
(***************************************************************************)
EXTENDS Integers, FiniteSets

CONSTANTS
    TimerFd,      \* timerfd files
    TimeReader,   \* threads that read them
    TimeClass,    \* the deadline classes: monotonic, realtime
    TimeCpu,      \* CPUs that run the wake-up pass
    TimerGroup,   \* thread groups with an itimer
    TimerValues, TimerIntervals,
    MaxTime, MaxLag, MaxTimerCalls,
    Never         \* u64::MAX: no deadline

ASSUME TimersAssumption ==
    /\ MaxTime \in Nat /\ MaxLag \in Nat /\ MaxTimerCalls \in Nat
    /\ TimerValues \subseteq Nat /\ TimerIntervals \subseteq Nat
    /\ Never \in Nat /\ \A n \in 0..MaxTime : n < Never

VARIABLES
    now,          \* the clock
    timerfds,     \* the timers that exist: interval, expires, ticks, class
    deadlines,    \* the registry's index: class, deadline, timer
    nextDeadline, \* NEXT_MONOTONIC_DEADLINE_NS, NEXT_REALTIME_DEADLINE_NS
    pass,         \* wake_expired_class on each CPU: class, time, timers in hand
    readers,      \* the timer each thread sleeps on, none when it is awake
    itimers,      \* deadline and interval of each group; deadline 0 is none
    itDeadlines, itNext,
    timerCalls,   \* calls left: a bound
    told          \* history: what was set and what was read, per timer
timerVars == <<now, timerfds, deadlines, nextDeadline, pass, readers,
               itimers, itDeadlines, itNext, timerCalls, told>>

NoTimer == [class |-> Never, interval |-> 0, expires |-> 0, ticks |-> 0]
Live(f) == timerfds[f] # NoTimer
IdlePass == [class |-> Never, at |-> 0, ids |-> {}]

TimersInit ==
    /\ now = 1
    /\ timerfds = [f \in TimerFd |-> NoTimer]
    /\ deadlines = {} /\ nextDeadline = [c \in TimeClass |-> Never]
    /\ pass = [p \in TimeCpu |-> IdlePass]
    /\ readers = [r \in TimeReader |-> {}]
    /\ itimers = [g \in TimerGroup |-> [deadline |-> 0, interval |-> 0]]
    /\ itDeadlines = {} /\ itNext = Never
    /\ timerCalls = MaxTimerCalls
    /\ told = [f \in TimerFd |-> [first |-> 0, read |-> 0, peeked |-> FALSE]]

SpendTime == timerCalls > 0 /\ timerCalls' = timerCalls - 1
Stamps == {at \in 0..now : at + MaxLag >= now /\ at > 0}
itVars == <<itimers, itDeadlines, itNext>>

Earliest(set) == IF set = {} THEN Never ELSE CHOOSE d \in set : \A e \in set : d <= e
NextOf(index, c) == Earliest({e.at : e \in {x \in index : x.class = c}})
Publish(index) == nextDeadline' = [c \in TimeClass |-> NextOf(index, c)]
Entry(f, tm) == [class |-> tm.class, at |-> tm.expires, id |-> f]

---------------------------------------------------------------------------
(* timerfd                                                                 *)

Periods(tm, at) == ((at - tm.expires) \div tm.interval) + 1

Due(tm, at) == tm.expires # 0 /\ at >= tm.expires
\* refresh_due_locked
Refreshed(tm, at) ==
    IF ~Due(tm, at) THEN tm
    ELSE IF tm.interval = 0 THEN [tm EXCEPT !.ticks = @ + 1, !.expires = 0]
    ELSE [tm EXCEPT !.ticks = @ + Periods(tm, at),
                    !.expires = @ + Periods(tm, at) * tm.interval]
\* The index after a timer went from one state to another.
\* Mutant of Reindexed: the periodic timer is not put back.
ReindexedOut(index, f, old, new) == index \ {Entry(f, old)}
Reindexed(index, f, old, new) ==
    IF old.expires = new.expires THEN index
    ELSE (index \ {Entry(f, old)}) \cup IF new.expires = 0 THEN {} ELSE {Entry(f, new)}

Notify(f) == readers' = [r \in TimeReader |-> readers[r] \ {f}]
\* The readers of a timer that became readable are notified.
Announce(f, was, tm) ==
    IF was = 0 /\ tm.ticks # 0 THEN Notify(f) ELSE UNCHANGED readers
Refresh(f, tm) ==
    /\ timerfds' = [timerfds EXCEPT ![f] = tm]
    /\ deadlines' = Reindexed(deadlines, f, timerfds[f], tm)
    /\ Publish(deadlines')

TimerfdCreate(f, c) ==
    /\ ~Live(f) /\ SpendTime
    /\ timerfds' = [timerfds EXCEPT ![f] = [NoTimer EXCEPT !.class = c]]
    /\ told' = [told EXCEPT ![f] = [first |-> 0, read |-> 0, peeked |-> FALSE]]
    /\ UNCHANGED <<now, deadlines, nextDeadline, pass, readers, itVars>>

\* set_time: what was due is counted, then the count is reset; a deadline
\* already past expires at once.
TimerfdSettime(f) ==
    /\ Live(f) /\ SpendTime
    /\ \E at \in Stamps, value \in TimerValues, interval \in TimerIntervals, abs \in BOOLEAN :
          LET expires == IF value = 0 THEN 0 ELSE IF abs THEN value ELSE at + value
              old == Refreshed(timerfds[f], at)
              set == [old EXCEPT !.interval = interval, !.ticks = 0, !.expires = expires]
              new == Refreshed(set, at)
              cleared == Reindexed(deadlines, f, timerfds[f], old) \ {Entry(f, old)}
          IN /\ timerfds' = [timerfds EXCEPT ![f] = new]
             /\ deadlines' = cleared \cup IF new.expires = 0 THEN {} ELSE {Entry(f, new)}
             /\ Publish(deadlines')
             /\ Announce(f, 0, new)
             /\ told' = [told EXCEPT ![f] = [first |-> expires, read |-> 0, peeked |-> FALSE]]
    /\ UNCHANGED <<now, pass, itVars>>

\* timerfd_gettime, or a poll by another thread: expirations are counted and
\* the deadline taken out of the index, but nobody is notified.
TimerfdPeek(f) ==
    /\ Live(f) /\ SpendTime
    /\ \E at \in Stamps :
          /\ Due(timerfds[f], at)
          /\ Refresh(f, Refreshed(timerfds[f], at))
    /\ told' = [told EXCEPT ![f].peeked = TRUE]
    /\ UNCHANGED <<now, pass, readers, itVars>>

\* read, and the sleep of a read that found no expiration.
TimerfdRead(r, f) ==
    /\ Live(f) /\ readers[r] = {} /\ SpendTime
    /\ \E at \in Stamps :
          LET tm == Refreshed(timerfds[f], at) IN
          /\ Refresh(f, [tm EXCEPT !.ticks = 0])
          /\ told' = [told EXCEPT ![f].read = @ + tm.ticks]
          /\ readers' = [readers EXCEPT ![r] = IF tm.ticks = 0 THEN {f} ELSE {}]
    /\ UNCHANGED <<now, pass, itVars>>

TimerfdDrop(f) ==
    /\ Live(f) /\ SpendTime /\ \A r \in TimeReader : f \notin readers[r]
    /\ timerfds' = [timerfds EXCEPT ![f] = NoTimer]
    /\ deadlines' = deadlines \ {Entry(f, timerfds[f])}
    /\ Publish(deadlines')
    /\ UNCHANGED <<now, pass, readers, itVars, told>>

\* wake_expired_class takes the timers of the earliest deadline out of the
\* index and releases the lock.
WakePass(p, c) ==
    /\ pass[p].ids = {} /\ pass[p].class \in {c, Never}
    /\ LET at == NextOf(deadlines, c)
           hit == {e \in deadlines : e.class = c /\ e.at = at}
           time == IF pass[p] = IdlePass THEN now ELSE pass[p].at
       IN /\ at <= time
          /\ pass' = [pass EXCEPT ![p] = [class |-> c, at |-> time, ids |-> {e.id : e \in hit}]]
          /\ deadlines' = deadlines \ hit
    /\ Publish(deadlines')
    /\ UNCHANGED <<now, timerfds, readers, itVars, timerCalls, told>>

\* Each of them is refreshed with the time of the pass; one that was closed,
\* set or read meanwhile is not due any more.
WakeOne(p, f) ==
    /\ f \in pass[p].ids
    /\ pass' = [pass EXCEPT ![p].ids = @ \ {f}]
    /\ LET tm == Refreshed(timerfds[f], pass[p].at) IN
       /\ Refresh(f, tm)
       /\ Announce(f, timerfds[f].ticks, tm)
    /\ UNCHANGED <<now, itVars, timerCalls, told>>

WakeEnd(p) ==
    /\ pass[p] # IdlePass /\ pass[p].ids = {}
    /\ NextOf(deadlines, pass[p].class) > pass[p].at
    /\ pass' = [pass EXCEPT ![p] = IdlePass]
    /\ UNCHANGED <<now, timerfds, deadlines, nextDeadline, readers, itVars, timerCalls, told>>

---------------------------------------------------------------------------
(* itimers: every operation runs under the registry's lock                 *)

tfVars == <<now, timerfds, deadlines, nextDeadline, pass, readers, told>>
PublishIt == itNext' = Earliest({e.at : e \in itDeadlines'})

Setitimer(g) ==
    /\ SpendTime
    /\ \E at \in Stamps, value \in TimerValues, interval \in TimerIntervals :
          LET d == IF value = 0 THEN 0 ELSE at + value IN
          /\ itimers' = [itimers EXCEPT ![g] = [deadline |-> d, interval |-> interval]]
          /\ itDeadlines' = (itDeadlines \ {[at |-> itimers[g].deadline, id |-> g]})
                            \cup IF d = 0 THEN {} ELSE {[at |-> d, id |-> g]}
    /\ PublishIt /\ UNCHANGED tfVars

Unindexed(g) == itDeadlines \ {[at |-> itimers[g].deadline, id |-> g]}
GroupReaped(g) ==
    /\ SpendTime
    /\ itimers' = [itimers EXCEPT ![g] = [deadline |-> 0, interval |-> 0]]
    /\ itDeadlines' = Unindexed(g)
    /\ PublishIt /\ UNCHANGED tfVars

NextAlarm(tm, at) ==
    IF tm.interval = 0 THEN 0
    ELSE tm.deadline + (((at - tm.deadline) \div tm.interval) + 1) * tm.interval
TakeExpired ==
    LET hit == {g \in TimerGroup : \E e \in itDeadlines :
                   e.id = g /\ e.at <= now /\ e.at = itimers[g].deadline}
        new == [g \in TimerGroup |->
                   IF g \notin hit THEN itimers[g]
                   ELSE IF itimers[g].interval = 0 THEN [deadline |-> 0, interval |-> 0]
                   ELSE [itimers[g] EXCEPT !.deadline = NextAlarm(itimers[g], now)]]
    IN
    /\ itNext <= now
    /\ itimers' = new
    /\ itDeadlines' = {e \in itDeadlines : e.at > now}
                      \cup {[at |-> new[g].deadline, id |-> g] :
                               g \in {h \in hit : new[h].deadline # 0}}
    /\ PublishIt /\ UNCHANGED <<tfVars, timerCalls>>

ClockTick ==
    /\ now < MaxTime
    /\ now' = now + 1
    /\ UNCHANGED <<timerfds, deadlines, nextDeadline, pass, readers, itVars, timerCalls, told>>

TimersNext ==
    \/ \E f \in TimerFd :
          \/ \E c \in TimeClass : TimerfdCreate(f, c)
          \/ TimerfdSettime(f) \/ TimerfdPeek(f) \/ TimerfdDrop(f)
          \/ \E p \in TimeCpu : WakeOne(p, f)
          \/ \E r \in TimeReader : TimerfdRead(r, f)
    \/ \E p \in TimeCpu : WakeEnd(p) \/ \E c \in TimeClass : WakePass(p, c)
    \/ \E g \in TimerGroup : Setitimer(g) \/ GroupReaped(g)
    \/ TakeExpired \/ ClockTick

TimersSpec == TimersInit /\ [][TimersNext]_timerVars

---------------------------------------------------------------------------
(* Properties.                                                             *)

TimersTypeOK ==
    /\ \A f \in TimerFd : timerfds[f].ticks \in Nat /\ timerfds[f].expires \in Nat
    /\ \A r \in TimeReader : readers[r] \subseteq TimerFd /\ Cardinality(readers[r]) <= 1

\* The registries agree with the timers whatever the wake-up pass, which
\* works outside the lock, is interleaved with: an armed timer has exactly
\* one deadline in the index, in its class, unless the pass has it in hand
\* and will refresh it; no other deadline is there; and the published next
\* deadline, all the timer interrupt looks at, is the earliest one.
DeadlinesExact ==
    /\ \A f \in TimerFd :
          LET mine == {e \in deadlines : e.id = f} IN
          /\ mine \subseteq {Entry(f, timerfds[f])}
          /\ timerfds[f].expires = 0 => mine = {}
          /\ timerfds[f].expires # 0 /\ mine = {} =>
                \E p \in TimeCpu : f \in pass[p].ids /\ timerfds[f].expires <= pass[p].at
    /\ \A c \in TimeClass : nextDeadline[c] = NextOf(deadlines, c)
    /\ itDeadlines = {[at |-> itimers[g].deadline, id |-> g] :
                         g \in {h \in TimerGroup : itimers[h].deadline # 0}}
    /\ itNext = Earliest({e.at : e \in itDeadlines})

\* No expiration is counted twice and none is missed, although reads, polls,
\* settings and the wake-up pass each advance the timer with their own,
\* possibly outdated, idea of the time: a periodic timer's next expiration is
\* the first one plus one interval for every tick read or still to be read;
\* a one-shot timer ticks once.
TicksExact ==
    \A f \in TimerFd : Live(f) /\ told[f].first # 0 =>
       LET tm == timerfds[f]
           count == told[f].read + tm.ticks
       IN IF tm.interval # 0 THEN tm.expires = told[f].first + count * tm.interval
          ELSE (count = 0 /\ tm.expires = told[f].first) \/ (count = 1 /\ tm.expires = 0)

\* A thread asleep in a read of a timer that has ticked is about to be woken,
\* except when a gettime or a poll of another thread counted the expiration:
\* it notifies nobody, and the pass finds the timer already readable.
ReadersWoken ==
    \A r \in TimeReader, f \in TimerFd :
       f \in readers[r] /\ timerfds[f].ticks # 0 => told[f].peeked

\* Timers are exact: the index and the published deadline match the timers,
\* every expiration is counted once, and its reader is woken (fs/timerfd.rs,
\* process/itimer).
TimersExact == TimersTypeOK /\ DeadlinesExact /\ TicksExact /\ ReadersWoken
=============================================================================
