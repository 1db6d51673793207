----------------------------- MODULE JobControl -----------------------------
(***************************************************************************)
(* Sessions, process groups and the controlling terminal (setpgid and the  *)
(* group look-ups of process/manager.rs, setsid.rs, kill.rs, tty_ioctl of  *)
(* handlers/fd/ioctl.rs, the group-signal queue of runtime.rs).  A group   *)
(* and a session are recorded in every thread; the manager sees only the   *)
(* threads that are in its table, not the ones that run.                   *)
(***************************************************************************)
EXTENDS Integers, FiniteSets, Sequences

CONSTANTS
    MaxPid, JcCpus,
    JcBudgets     \* bounds: how many calls are made, how many group signals may be queued

ASSUME JobControlAssumption == MaxPid \in Nat \ {0} /\ JcCpus \in Nat \ {0}

VARIABLES
    task,         \* per live thread: thread group, parent, process group, session,
                  \* and whether the terminal controls it
    lastPid,
    onCpu,        \* the threads that run: outside the table
    tty,          \* the terminal's session and foreground group, 0 for none
    groupSignals, \* PENDING_PROCESS_GROUP_SIGNALS
    signalPending,\* PROCESS_GROUP_SIGNAL_PENDING
    interrupt,    \* the terminal's input handler on its way to the queue
    drain,        \* per CPU: where drain_pending_process_group_signals is
    signalled,    \* thread groups with the signal pending
    jcCall,       \* per thread: the group TIOCSPGRP has checked, 0 for none
    jcBudget,     \* what is left of the bounds
    torn          \* history: groups that setsid took over while in use, or
                  \* 0 once the threads of one process are in two sessions
jcVars == <<task, lastPid, onCpu, tty, groupSignals, signalPending, interrupt, drain,
            signalled, jcCall, jcBudget, torn>>
signalVars == <<groupSignals, signalPending, interrupt, drain, signalled>>

LiveTasks == DOMAIN task
Tasks(tgid) == {x \in LiveTasks : task[x].tgid = tgid}
Leaders == {task[x].tgid : x \in LiveTasks}
Tabled == LiveTasks \ onCpu
FirstOf(S) == CHOOSE x \in S : \A y \in S : x <= y

JcInit ==
    /\ task = [x \in {1} |-> [tgid |-> 1, parent |-> 0, group |-> 1, session |-> 1, tty |-> FALSE]]
    /\ lastPid = 1 /\ onCpu = {1}
    /\ tty = [session |-> 0, group |-> 0]
    /\ groupSignals = <<>> /\ signalPending = FALSE /\ interrupt = 0
    /\ drain = [c \in 1..JcCpus |-> [at |-> "idle", todo |-> <<>>]]
    /\ signalled = {} /\ jcCall = [x \in 1..MaxPid |-> 0] /\ jcBudget \in JcBudgets /\ torn = {}

---------------------------------------------------------------------------
(* The manager's view                                                      *)

\* thread_group_process_group: the group of the first thread
GroupOf(tgid) == task[FirstOf(Tasks(tgid))].group
\* thread_group_session: the session of the first thread in the table
SessionsOf(tgid) ==
    LET here == Tasks(tgid) \cap Tabled
    IN  IF here = {} THEN {} ELSE {task[FirstOf(here)].session}
\* process_group_session: that of the first process of the group that has one
GroupSessions(group) ==
    LET known == {g \in Leaders : GroupOf(g) = group /\ SessionsOf(g) # {}}
    IN  IF known = {} THEN {} ELSE SessionsOf(FirstOf(known))
\* has_process_group
HasGroup(group) == \E g \in Leaders : GroupOf(g) = group

Calls(x) ==
    /\ x \in onCpu /\ jcCall[x] = 0
    /\ jcBudget.calls > 0 /\ jcBudget' = [jcBudget EXCEPT !.calls = @ - 1]
\* The threads of one process are in two sessions
Divided(ts) == \E x, y \in DOMAIN ts : ts[x].tgid = ts[y].tgid /\ ts[x].session # ts[y].session
Becomes(ts) ==
    /\ task' = ts
    /\ torn' = IF Divided(ts) THEN torn \cup {0} ELSE torn

---------------------------------------------------------------------------
(* Processes                                                               *)

Dispatched(x) ==
    /\ x \in Tabled /\ Cardinality(onCpu) < JcCpus
    /\ onCpu' = onCpu \cup {x}
    /\ UNCHANGED <<task, lastPid, tty, signalVars, jcCall, jcBudget, torn>>
Requeued(x) ==
    /\ x \in onCpu
    /\ onCpu' = onCpu \ {x}
    /\ UNCHANGED <<task, lastPid, tty, signalVars, jcCall, jcBudget, torn>>

\* clone: group, session and controlling terminal are the caller's
Cloned(x, thread) ==
    /\ Calls(x) /\ lastPid < MaxPid
    /\ lastPid' = lastPid + 1
    /\ Becomes([y \in LiveTasks \cup {lastPid + 1} |->
                  IF y \in LiveTasks THEN task[y]
                  ELSE [task[x] EXCEPT !.tgid = IF thread THEN @ ELSE lastPid + 1,
                                       !.parent = IF thread THEN @ ELSE x]])
    /\ UNCHANGED <<onCpu, tty, signalVars, jcCall>>
Exits(x) ==
    /\ Calls(x) /\ x # 1
    /\ Becomes([y \in LiveTasks \ {x} |-> task[y]])
    /\ onCpu' = onCpu \ {x}
    /\ signalled' = signalled \cap {task[y].tgid : y \in LiveTasks \ {x}}
    /\ UNCHANGED <<lastPid, tty, groupSignals, signalPending, interrupt, drain, jcCall>>

---------------------------------------------------------------------------
(* Groups and sessions                                                     *)

\* setsid changes the calling thread only
Setsid(x) ==
    /\ Calls(x) /\ task[x].group # x
    /\ LET ts == [task EXCEPT ![x].group = x, ![x].session = x, ![x].tty = FALSE]
       IN  /\ task' = ts
           /\ torn' = torn \cup (IF \E y \in LiveTasks : task[y].group = x THEN {x} ELSE {})
                           \cup (IF Divided(ts) THEN {0} ELSE {})
    /\ UNCHANGED <<lastPid, onCpu, tty, signalVars, jcCall>>

MayMoveUnchecked(x, group, leader) == TRUE
\* A group of one's own, the caller's, or one of the caller's session
MayMove(x, group, leader) ==
    \/ group = leader \/ group = task[x].group
    \/ task[x].session \in GroupSessions(group)
Regrouped(xs, group) == [y \in LiveTasks |-> IF y \in xs THEN [task[y] EXCEPT !.group = group] ELSE task[y]]
\* setpgid on oneself: the caller, and the other threads that do not run
SetpgidSelf(x, group) ==
    /\ Calls(x) /\ task[x].session # x
    /\ MayMove(x, group, x)
    /\ Becomes(Regrouped({x} \cup (Tasks(task[x].tgid) \cap Tabled), group))
    /\ UNCHANGED <<lastPid, onCpu, tty, signalVars, jcCall>>
\* setpgid on a child: thread by thread, up to one that runs
SetpgidChild(x, c, group) ==
    /\ Calls(x) /\ c \in LiveTasks /\ c # x
    /\ LET leader == task[c].tgid
           members == Tasks(leader)
           first == FirstOf(members \cap Tabled)
       IN  /\ \E y \in {leader, c} \cap LiveTasks : task[y].parent = x
           /\ members \cap Tabled # {}
           /\ task[first].session = task[x].session /\ task[first].session # leader
           /\ MayMove(x, group, leader)
           /\ Becomes(Regrouped({y \in members : \A z \in members : z <= y => z \in Tabled}, group))
    /\ UNCHANGED <<lastPid, onCpu, tty, signalVars, jcCall>>

---------------------------------------------------------------------------
(* The controlling terminal                                                *)

\* TIOCSCTTY: a session leader without another terminal takes a free one
Tiocsctty(x) ==
    /\ Calls(x) /\ task[x].session = x
    /\ tty.session \in {0, x}
    /\ task' = [task EXCEPT ![x].tty = TRUE]
    /\ tty' = [session |-> x, group |-> task[x].group]
    /\ UNCHANGED <<lastPid, onCpu, signalVars, jcCall, torn>>
Controls(x) == task[x].tty /\ tty.session = task[x].session
\* TIOCSPGRP: the group is looked up, and then made the foreground group
TiocspgrpCheck(x, group) ==
    /\ Calls(x) /\ Controls(x)
    /\ HasGroup(group) /\ task[x].session \in GroupSessions(group)
    /\ jcCall' = [jcCall EXCEPT ![x] = group]
    /\ UNCHANGED <<task, lastPid, onCpu, tty, signalVars, torn>>
Tiocspgrp(x) ==
    /\ x \in onCpu /\ jcCall[x] # 0
    /\ tty' = [tty EXCEPT !.group = jcCall[x]]
    /\ jcCall' = [jcCall EXCEPT ![x] = 0]
    /\ UNCHANGED <<task, lastPid, onCpu, signalVars, jcBudget, torn>>
\* TIOCNOTTY
Tiocnotty(x) ==
    /\ Calls(x) /\ task[x].tty
    /\ task' = [task EXCEPT ![x].tty = FALSE]
    /\ tty' = IF tty.session = task[x].session THEN [session |-> 0, group |-> 0] ELSE tty
    /\ UNCHANGED <<lastPid, onCpu, signalVars, jcCall, torn>>

---------------------------------------------------------------------------
(* Signals to a group                                                      *)

\* Ctrl-C at the terminal: runtime_send_process_group_signal queues, and
\* then raises the flag
InterruptQueued ==
    /\ interrupt = 0 /\ tty.group # 0 /\ Len(groupSignals) < jcBudget.signals
    /\ groupSignals' = Append(groupSignals, tty.group)
    /\ interrupt' = 1
    /\ UNCHANGED <<task, lastPid, onCpu, tty, signalPending, drain, signalled, jcCall, jcBudget, torn>>
InterruptRaised ==
    /\ interrupt = 1
    /\ signalPending' = TRUE /\ interrupt' = 0
    /\ UNCHANGED <<task, lastPid, onCpu, tty, groupSignals, drain, signalled, jcCall, jcBudget, torn>>

\* drain_pending_process_group_signals: the flag down, the whole queue
\* taken, and then sent under the manager's lock
DrainSwap(c) ==
    /\ drain[c].at = "idle" /\ signalPending
    /\ signalPending' = FALSE
    /\ drain' = [drain EXCEPT ![c].at = "take"]
    /\ UNCHANGED <<task, lastPid, onCpu, tty, groupSignals, interrupt, signalled, jcCall, jcBudget, torn>>
FirstTaken(queue) == IF queue = <<>> THEN <<>> ELSE <<Head(queue)>>
AllTaken(queue) == queue
DrainTake(c) ==
    /\ drain[c].at = "take"
    /\ LET taken == AllTaken(groupSignals)
       IN  /\ groupSignals' = SubSeq(groupSignals, Len(taken) + 1, Len(groupSignals))
           /\ drain' = [drain EXCEPT ![c] = [at |-> IF taken = <<>> THEN "idle" ELSE "send", todo |-> taken]]
    /\ UNCHANGED <<task, lastPid, onCpu, tty, signalPending, interrupt, signalled, jcCall, jcBudget, torn>>
\* send_signal_process_group
SentToGroup(group) == {g \in Leaders : GroupOf(g) = group}
DrainSend(c) ==
    /\ drain[c].at = "send"
    /\ signalled' = signalled \cup UNION {SentToGroup(drain[c].todo[i]) : i \in DOMAIN drain[c].todo}
    /\ drain' = [drain EXCEPT ![c] = [at |-> "idle", todo |-> <<>>]]
    /\ UNCHANGED <<task, lastPid, onCpu, tty, groupSignals, signalPending, interrupt, jcCall, jcBudget, torn>>
\* kill(-group): send_signal_process_group at once; kill(-1): everyone but 1
KillGroup(x, group) ==
    /\ Calls(x) /\ HasGroup(group)
    /\ signalled' = signalled \cup SentToGroup(group)
    /\ UNCHANGED <<task, lastPid, onCpu, tty, groupSignals, signalPending, interrupt, drain, jcCall, torn>>
KillAll(x) ==
    /\ Calls(x) /\ Leaders \ {1} # {}
    /\ signalled' = signalled \cup (Leaders \ {1})
    /\ UNCHANGED <<task, lastPid, onCpu, tty, groupSignals, signalPending, interrupt, drain, jcCall, torn>>
\* The signal is taken by the program
SignalTaken(g) ==
    /\ g \in signalled /\ Tasks(g) \cap onCpu # {}
    /\ signalled' = signalled \ {g}
    /\ UNCHANGED <<task, lastPid, onCpu, tty, groupSignals, signalPending, interrupt, drain, jcCall, jcBudget, torn>>

JcNext ==
    \/ InterruptQueued \/ InterruptRaised
    \/ \E c \in 1..JcCpus : DrainSwap(c) \/ DrainTake(c) \/ DrainSend(c)
    \/ \E x \in LiveTasks :
         \/ Dispatched(x) \/ Requeued(x) \/ Exits(x) \/ Setsid(x)
         \/ \E thread \in BOOLEAN : Cloned(x, thread)
         \/ Tiocsctty(x) \/ Tiocspgrp(x) \/ Tiocnotty(x) \/ KillAll(x) \/ SignalTaken(x)
         \/ \E group \in 1..MaxPid :
              \/ SetpgidSelf(x, group) \/ TiocspgrpCheck(x, group) \/ KillGroup(x, group)
              \/ \E c \in LiveTasks : SetpgidChild(x, c, group)

JcSpec == JcInit /\ [][JcNext]_jcVars

---------------------------------------------------------------------------
(* Properties                                                              *)

\* The threads of a process group are in one session, so that a job never
\* spans two terminals, except where setsid took over the number of a group
\* still in use (setsid.rs looks only at the caller's own group) or gave one
\* thread of a process a session of its own (setpgid, setsid).
GroupsInSession ==
    0 \notin torn =>
      \A x, y \in LiveTasks : task[x].group = task[y].group /\ task[x].group \notin torn
                            => task[x].session = task[y].session

\* A group signal that was queued is never left behind: the flag is up, or a
\* CPU that took the flag down has yet to empty the queue, or the handler
\* has yet to raise it (runtime_send_process_group_signal,
\* drain_pending_process_group_signals).
GroupSignalsSeen ==
    groupSignals # <<>> => signalPending \/ interrupt = 1 \/ \E c \in 1..JcCpus : drain[c].at = "take"

\* Jobs stay whole: a group is of one session, and a signal to it is not left
\* in the queue (manager.rs, setpgid; runtime.rs).
JobsSound == GroupsInSession /\ GroupSignalsSeen
=============================================================================
