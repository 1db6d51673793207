--------------------------- MODULE ProcessManager ---------------------------
(***************************************************************************)
(* The process table, the per-CPU run queues and the run loop              *)
(* (src/aether-kernel/src/process/manager.rs, processor.rs, runtime.rs).   *)
(*                                                                         *)
(* Every method of ProcessManager runs under one spin lock, so each is one *)
(* action.  Between those actions a CPU holds the process it took out of   *)
(* the table: first "taken" (the lock is released, current_pid not yet     *)
(* set), then in "user" or "kernel" mode, then "reset" (the process was    *)
(* given back, current_pid not yet cleared).  The actions of two CPUs, of  *)
(* the clock and of the wakers interleave in every order.                  *)
(*                                                                         *)
(* What decides that a wait is over lives elsewhere (futex words, files,   *)
(* parent links, signal masks).  Here a waker wakes any set of the         *)
(* processes its code could wake, and a pending signal may have any of the *)
(* outcomes SignalDelivery has: a superset of the program's behaviours.    *)
(***************************************************************************)
EXTENDS Integers, Sequences, FiniteSets

CONSTANTS
    Pid,      \* process identifiers; next_pid never hands one out twice
    NoPid,
    InitPid,  \* the process spawn_task creates at boot
    Cpu,      \* initialised processors
    Kind,     \* the kinds of ProcessBlock the system calls wait with
    MaxTime   \* bound on the monotonic clock and on deadlines

KindsOfBlock == {"File", "Poll", "Timer", "Futex", "SignalSuspend", "Vfork", "WaitChild"}

ASSUME PidAssumption == IsFiniteSet(Pid) /\ NoPid \notin Pid /\ InitPid \in Pid
ASSUME CpuAssumption == Cpu # {}
ASSUME KindAssumption == Kind \subseteq KindsOfBlock
ASSUME TimeAssumption == MaxTime \in Nat

\* publish_next_timer_deadline stores u64::MAX for "no deadline": later than all.
NoDeadline == MaxTime + 1
Deadline == 1..MaxTime

\* A ProcessBlock: Timer always has a deadline, Poll and Futex may have one.
NoBlock == [kind |-> "None", deadline |-> NoDeadline]
MayBlockUntil(k) ==
    CASE k = "Timer" -> Deadline
      [] k \in {"Poll", "Futex"} -> Deadline \cup {NoDeadline}
      [] OTHER -> {NoDeadline}
Block == {b \in [kind : Kind, deadline : Deadline \cup {NoDeadline}] :
             b.deadline \in MayBlockUntil(b.kind)}

\* BlockResult, with the payloads that no wait distinguishes left out.
Result == {"FileReady", "PollReady", "FutexWoken", "CompletedValue", "TimerCompleted",
           "TimerInterrupted", "PollTimedOut", "FutexTimedOut", "SignalInterrupted"}

VARIABLES
    processes,            \* ProcessManager.processes: the pids in the table
    state,                \* KernelProcess.state; "Unborn" before it is created
    block,                \* the ProcessBlock of a Blocked process
    wake_result,          \* KernelProcess.wake_result
    pending_syscall,      \* KernelProcess.pending_syscall is Some
    kernel_context,       \* "None", "Active", or the kind it is suspended in
    assigned_cpu,
    thread_group,         \* identity.thread_group
    thread_groups,        \* ProcessManager.thread_groups
    group_exit_status,    \* the groups with an entry in group_exit_status
    signals,              \* some signal is pending in KernelProcess.signals
    queued_signals,       \* pids with an entry in ProcessManager.queued_signals
    runnable, queued,     \* LocalRunQueue of each CPU
    current, phase,       \* what each CPU's run loop holds, and how far it is
    blocked_files, blocked_timers, next_timer_deadline,
    now

procVars  == <<processes, state, block, wake_result, pending_syscall, kernel_context,
               assigned_cpu, thread_group>>
groupVars == <<thread_groups, group_exit_status>>
sigVars   == <<signals, queued_signals>>
queueVars == <<runnable, queued>>
cpuVars   == <<current, phase>>
waitVars  == <<blocked_files, blocked_timers, next_timer_deadline>>
vars == <<processes, state, block, wake_result, pending_syscall, kernel_context,
          assigned_cpu, thread_group, thread_groups, group_exit_status, signals,
          queued_signals, runnable, queued, current, phase, blocked_files,
          blocked_timers, next_timer_deadline, now>>

State == {"Unborn", "Runnable", "Running", "Blocked", "Stopped", "Exited", "Faulted"}
Phase == {"loop", "taken", "user", "kernel", "reset"}

Holds(c, p) == current[c] = p /\ phase[c] \in {"taken", "user", "kernel"}
RunningCpuOf(p) == {c \in Cpu : current[c] = p /\ phase[c] \in {"user", "kernel", "reset"}}
BlockedOn(K) == {p \in processes : state[p] = "Blocked" /\ block[p].kind \in K}

-----------------------------------------------------------------------------
(* The run queues *)

\* Every order in which the processes of S can be enqueued.
Orders(S) == {s \in [1..Cardinality(S) -> S] :
                 /\ \A i, j \in 1..Cardinality(S) : s[i] = s[j] => i = j
                 /\ \A p \in S : \E i \in 1..Cardinality(S) : s[i] = p}

\* Mutants of EnqueueAll: a pid may be queued twice; a LIFO queue.
EnqueueTwice(E, on, rn, qd) ==
    LET new == [c \in Cpu |-> {p \in E : on[p] = c}]
    IN  /\ \E o \in [Cpu -> UNION {Orders(new[c]) : c \in Cpu}] :
              /\ \A c \in Cpu : o[c] \in Orders(new[c])
              /\ runnable' = [c \in Cpu |-> rn[c] \o o[c]]
        /\ queued' = [c \in Cpu |-> qd[c] \cup new[c]]
EnqueueFront(E, on, rn, qd) ==
    LET new == [c \in Cpu |-> {p \in E : on[p] = c /\ p \notin qd[c]}]
    IN  /\ \E o \in [Cpu -> UNION {Orders(new[c]) : c \in Cpu}] :
              /\ \A c \in Cpu : o[c] \in Orders(new[c])
              /\ runnable' = [c \in Cpu |-> o[c] \o rn[c]]
        /\ queued' = [c \in Cpu |-> qd[c] \cup new[c]]

\* LocalRunQueue::enqueue of each process p of E on the CPU on[p], starting from
\* the queues rn and qd: a pid that is queued already is not queued twice.
EnqueueAll(E, on, rn, qd) ==
    LET new == [c \in Cpu |-> {p \in E : on[p] = c /\ p \notin qd[c]}]
    IN  /\ \E o \in [Cpu -> UNION {Orders(new[c]) : c \in Cpu}] :
              /\ \A c \in Cpu : o[c] \in Orders(new[c])
              /\ runnable' = [c \in Cpu |-> rn[c] \o o[c]]
        /\ queued' = [c \in Cpu |-> qd[c] \cup new[c]]

\* LocalRunQueue::dequeue
NextPid(c) == Head(runnable[c])
DequeuedRunnable(c) == [runnable EXCEPT ![c] = Tail(@)]
DequeuedQueued(c) == [queued EXCEPT ![c] = @ \ {NextPid(c)}]

-----------------------------------------------------------------------------
(* Blocked processes and the timer index *)


\* First key of a timer index, NoDeadline when it is empty.
FirstDeadline(t) ==
    IF \A d \in Deadline : t[d] = {} THEN NoDeadline
    ELSE CHOOSE d \in Deadline : t[d] # {} /\ \A e \in Deadline : t[e] # {} => d <= e

\* Mutant of Untrack: the published deadline is left alone.
UntrackKeepingDeadline(W) ==
    /\ blocked_files' = blocked_files \ {p \in W : block[p].kind \in {"File", "Poll"}}
    /\ blocked_timers' = [d \in Deadline |-> blocked_timers[d] \ {p \in W : block[p].deadline = d}]
    /\ UNCHANGED next_timer_deadline

\* untrack_blocked_process of each process of W: next_timer_deadline is only
\* recomputed when the entry it names has become empty.
Untrack(W) ==
    /\ blocked_files' = blocked_files \ {p \in W : block[p].kind \in {"File", "Poll"}}
    /\ blocked_timers' = [d \in Deadline |-> blocked_timers[d] \ {p \in W : block[p].deadline = d}]
    /\ next_timer_deadline' =
          IF /\ next_timer_deadline \in Deadline
             /\ blocked_timers[next_timer_deadline] # {}
             /\ blocked_timers'[next_timer_deadline] = {}
          THEN FirstDeadline(blocked_timers')
          ELSE next_timer_deadline

\* track_blocked_process
Track(p, b) ==
    /\ blocked_files' = IF b.kind \in {"File", "Poll"} THEN blocked_files \cup {p}
                        ELSE blocked_files
    /\ blocked_timers' = [d \in Deadline |-> IF b.deadline = d THEN blocked_timers[d] \cup {p}
                                             ELSE blocked_timers[d]]
    /\ next_timer_deadline' = IF b.deadline < next_timer_deadline THEN b.deadline
                              ELSE next_timer_deadline

\* What the event a process waits for, its deadline, or a signal makes of it.
EventResult(p) ==
    CASE block[p].kind = "File" -> "FileReady"
      [] block[p].kind = "Poll" -> "PollReady"
      [] block[p].kind = "Futex" -> "FutexWoken"
      [] OTHER -> "CompletedValue"
TimeoutResult(p) ==
    CASE block[p].kind = "Timer" -> "TimerCompleted"
      [] block[p].kind = "Poll" -> "PollTimedOut"
      [] OTHER -> "FutexTimedOut"
SignalResult(p) ==
    CASE block[p].kind = "Timer" ->
            IF now < block[p].deadline THEN "TimerInterrupted" ELSE "TimerCompleted"
      [] OTHER -> "SignalInterrupted"

\* The processes of W leave Blocked with the results r; they and the processes
\* of E become Runnable and are enqueued on the queues rn, qd.  st gives the
\* other processes' states.
WakeAll(W, r, E, st, rn, qd) ==
    /\ state' = [p \in Pid |-> IF p \in W \cup E THEN "Runnable" ELSE st[p]]
    /\ block' = [p \in Pid |-> IF p \in W THEN NoBlock ELSE block[p]]
    /\ wake_result' = [p \in Pid |-> IF p \in W THEN r[p] ELSE wake_result[p]]
    /\ Untrack(W)
    /\ EnqueueAll(W \cup E, assigned_cpu, rn, qd)

-----------------------------------------------------------------------------
(* Leaving: reap_exited_process, begin_thread_group_exit *)

\* What a reaped child can do to one other blocked process: wake it from a
\* futex (clear_child_tid, the robust list), from vfork or from wait4/waitid,
\* or interrupt it with SIGCHLD.
ReapResults(p) ==
    CASE block[p].kind \in {"Vfork", "WaitChild"} -> {"CompletedValue"}
      [] block[p].kind = "Futex" -> {"FutexWoken", "SignalInterrupted"}
      [] OTHER -> {SignalResult(p)}

\* p, no longer in the table, is reaped; when begin, its thread group is told
\* to exit first: blocked members are interrupted, all members made Runnable.
Exit(p, begin, rn, qd) ==
    LET g       == thread_group[p]
        members == IF begin THEN (thread_groups[g] \ {p}) \cap processes ELSE {}
        evicted == {q \in members : state[q] = "Blocked"}
        others  == BlockedOn(KindsOfBlock \ {"File"}) \ (members \cup {p})
    IN  \E woken \in SUBSET others :
        \E r \in [evicted \cup woken -> Result] :
        \E parent \in (processes \ {p}) \cup {NoPid} :
           /\ \A q \in evicted : r[q] = "SignalInterrupted"
           /\ \A q \in woken : r[q] \in ReapResults(q)
           /\ processes' = processes \ {p}
           /\ WakeAll(evicted \cup woken, r, members, [state EXCEPT ![p] = "Exited"], rn, qd)
           /\ thread_groups' = [thread_groups EXCEPT ![g] = @ \ {p}]
           /\ group_exit_status' =
                 IF thread_groups[g] \ {p} = {} THEN group_exit_status \ {g}
                 ELSE IF begin THEN group_exit_status \cup {g} ELSE group_exit_status
           /\ queued_signals' = queued_signals \ {p}
           /\ signals' = (signals \cup ({parent} \ {NoPid})) \ {p}
           /\ pending_syscall' = pending_syscall \ {p}
           /\ kernel_context' = [kernel_context EXCEPT ![p] = "None"]
           /\ UNCHANGED <<assigned_cpu, thread_group, now>>

IsThread(p) == thread_group[p] # p

-----------------------------------------------------------------------------
(* take_next_process_for_pid: the head of the CPU's run queue *)

Taking(c) == phase[c] = "loop" /\ runnable[c] # <<>>
InPlace(c) == NextPid(c) \in processes /\ assigned_cpu[NextPid(c)] = c

\* drain_queued_signals has merged the queued signals into the pending ones;
\* they are looked at only when no system call is suspended.
Signalled(p) == /\ p \in signals \cup queued_signals
                /\ p \notin pending_syscall
                /\ kernel_context[p] = "None"

\* Mutant of GroupExiting: only the leader is reaped.
LeaderExiting(p) == p \in group_exit_status
GroupExiting(p) == thread_group[p] \in group_exit_status

\* drain_queued_signals of a process that has been found in the table
Drained(p) == IF p \in processes THEN queued_signals \ {p} ELSE queued_signals

\* The thread group is exiting: the member is reaped where it stands.
TakeGroupExit(c) ==
    /\ Taking(c) /\ InPlace(c)
    /\ GroupExiting(NextPid(c))
    /\ Exit(NextPid(c), FALSE, DequeuedRunnable(c), DequeuedQueued(c))
    /\ UNCHANGED cpuVars

\* A fatal signal (or a handler frame that cannot be pushed): a thread takes
\* its whole group with it, a group leader only itself.
TakeFatalSignal(c) ==
    /\ Taking(c) /\ InPlace(c)
    /\ ~GroupExiting(NextPid(c))
    /\ Signalled(NextPid(c))
    /\ Exit(NextPid(c), IsThread(NextPid(c)), DequeuedRunnable(c), DequeuedQueued(c))
    /\ UNCHANGED cpuVars

\* A stop signal: the process leaves the table and no CPU keeps it.  The
\* parent gets a child event and SIGCHLD.
TakeStop(c) ==
    LET p == NextPid(c) IN
    /\ Taking(c) /\ InPlace(c)
    /\ ~GroupExiting(p)
    /\ Signalled(p)
    /\ processes' = processes \ {p}
    /\ queued_signals' = queued_signals \ {p}
    /\ \E woken \in SUBSET (BlockedOn(KindsOfBlock \ {"File", "Vfork"}) \ {p}) :
       \E parent \in (processes \ {p}) \cup {NoPid}, left \in BOOLEAN :
       \E r \in [woken -> Result] :
          /\ Cardinality(woken) <= 1
          /\ \A q \in woken : r[q] = IF block[q].kind = "WaitChild" THEN "CompletedValue"
                                     ELSE SignalResult(q)
          /\ signals' = ((signals \cup ({parent} \ {NoPid})) \ {p})
                           \cup (IF left THEN {p} ELSE {})
          /\ WakeAll(woken, r, {}, [state EXCEPT ![p] = "Stopped"],
                     DequeuedRunnable(c), DequeuedQueued(c))
    /\ UNCHANGED <<pending_syscall, kernel_context, assigned_cpu, thread_group,
                   groupVars, cpuVars, now>>

\* No signal, or one that is ignored or delivered to a handler: the process is
\* handed to the run loop.  A queue entry whose process has gone is dropped,
\* one for another CPU is passed on to it.
TakeDispatch(c) ==
    LET p == NextPid(c) IN
    /\ Taking(c)
    /\ InPlace(c) => ~GroupExiting(p)
    /\ IF InPlace(c)
       THEN /\ processes' = processes \ {p}
            /\ state' = [state EXCEPT ![p] = "Running"]
            /\ current' = [current EXCEPT ![c] = p]
            /\ phase' = [phase EXCEPT ![c] = "taken"]
            /\ runnable' = DequeuedRunnable(c) /\ queued' = DequeuedQueued(c)
       ELSE /\ EnqueueAll({p} \cap processes, assigned_cpu, DequeuedRunnable(c), DequeuedQueued(c))
            /\ UNCHANGED <<processes, state, cpuVars>>
    /\ queued_signals' = Drained(p)
    /\ \E left \in BOOLEAN :
          LET merged == IF p \in queued_signals THEN signals \cup {p} ELSE signals
          IN  signals' = IF InPlace(c) /\ Signalled(p) /\ ~left THEN signals \ {p}
                         ELSE IF p \in processes THEN merged ELSE signals
    /\ UNCHANGED <<block, wake_result, pending_syscall, kernel_context, assigned_cpu,
                   thread_group, groupVars, waitVars, now>>

\* with_current_process: the snapshot other CPUs see is set only now.  A
\* suspended system call goes on and takes its wake_result; a process without
\* one enters user mode.
SetCurrent(c) ==
    LET p == current[c] IN
    /\ phase[c] = "taken"
    /\ IF kernel_context[p] # "None" \/ p \in pending_syscall
       THEN /\ phase' = [phase EXCEPT ![c] = "kernel"]
            /\ kernel_context' = [kernel_context EXCEPT ![p] = "Active"]
            /\ wake_result' = [wake_result EXCEPT ![p] = "None"]
       ELSE /\ phase' = [phase EXCEPT ![c] = "user"]
            /\ UNCHANGED <<kernel_context, wake_result>>
    /\ UNCHANGED <<processes, state, block, pending_syscall, assigned_cpu, thread_group,
                   groupVars, sigVars, queueVars, current, waitVars, now>>

-----------------------------------------------------------------------------
(* User mode: finish_process *)

\* Mutant of RequeueRunnable: the state is left at Running.
RequeueRunning(c, p) ==
    /\ processes' = processes \cup {p}
    /\ UNCHANGED state
    /\ EnqueueAll({p}, assigned_cpu, runnable, queued)
    /\ phase' = [phase EXCEPT ![c] = "reset"]
\* requeue_process of a Runnable process.
RequeueRunnable(c, p) ==
    /\ processes' = processes \cup {p}
    /\ state' = [state EXCEPT ![p] = "Runnable"]
    /\ EnqueueAll({p}, assigned_cpu, runnable, queued)
    /\ phase' = [phase EXCEPT ![c] = "reset"]

Merge(p) == /\ signals' = IF p \in queued_signals THEN signals \cup {p} ELSE signals
            /\ queued_signals' = queued_signals \ {p}

\* An interrupt preempts user mode: queued signals are merged.
FinishInterrupt(c) ==
    /\ phase[c] = "user"
    /\ RequeueRunnable(c, current[c])
    /\ Merge(current[c])
    /\ UNCHANGED <<block, wake_result, pending_syscall, kernel_context, assigned_cpu,
                   thread_group, groupVars, current, waitVars, now>>

\* The page-fault fast path does not merge queued signals.
FinishPageFault(c) ==
    /\ phase[c] = "user"
    /\ RequeueRunnable(c, current[c])
    /\ UNCHANGED <<block, wake_result, pending_syscall, kernel_context, assigned_cpu,
                   thread_group, groupVars, sigVars, current, waitVars, now>>

\* queue_synchronous_fault_signal, when the process has a handler for it ...
FinishFaultHandled(c) ==
    LET p == current[c] IN
    /\ phase[c] = "user"
    /\ RequeueRunnable(c, p)
    /\ signals' = signals \cup {p}
    /\ queued_signals' = queued_signals \ {p}
    /\ UNCHANGED <<block, wake_result, pending_syscall, kernel_context, assigned_cpu,
                   thread_group, groupVars, current, waitVars, now>>

\* ... and when it has none.
FinishFaultExit(c) ==
    /\ phase[c] = "user"
    /\ Exit(current[c], IsThread(current[c]), runnable, queued)
    /\ phase' = [phase EXCEPT ![c] = "reset"]
    /\ UNCHANGED current

\* An exception without a signal (exception_signal is None): requeue_process
\* drops a Faulted process without reaping it.
FinishFaulted(c) ==
    LET p == current[c] IN
    /\ phase[c] = "user"
    /\ state' = [state EXCEPT ![p] = "Faulted"]
    /\ Merge(p)
    /\ phase' = [phase EXCEPT ![c] = "reset"]
    /\ UNCHANGED <<processes, block, wake_result, pending_syscall, kernel_context,
                   assigned_cpu, thread_group, groupVars, queueVars, current, waitVars, now>>

\* run_on_cpu, RunReason::Syscall: the handler starts on its own kernel context.
EnterSyscall(c) ==
    LET p == current[c] IN
    /\ phase[c] = "user"
    /\ phase' = [phase EXCEPT ![c] = "kernel"]
    /\ pending_syscall' = pending_syscall \cup {p}
    /\ kernel_context' = [kernel_context EXCEPT ![p] = "Active"]
    /\ UNCHANGED <<processes, state, block, wake_result, assigned_cpu, thread_group,
                   groupVars, sigVars, queueVars, current, waitVars, now>>

-----------------------------------------------------------------------------
(* System calls *)

\* clone_process, insert_cloned_process: a thread shares the address space and
\* so its creator's CPU; another child goes to the CPU select_cpu_for_child
\* picks, or stays when it shares the address space (vfork).
CloneProcess(c, child, thread, cpu) ==
    LET p == current[c]
        g == IF thread THEN thread_group[p] ELSE child
    IN
    /\ phase[c] = "kernel"
    /\ state[child] = "Unborn"
    /\ thread => cpu = assigned_cpu[p]
    /\ processes' = processes \cup {child}
    /\ state' = [state EXCEPT ![child] = "Runnable"]
    /\ assigned_cpu' = [assigned_cpu EXCEPT ![child] = cpu]
    /\ thread_group' = [thread_group EXCEPT ![child] = g]
    /\ thread_groups' = [thread_groups EXCEPT ![g] = @ \cup {child}]
    /\ EnqueueAll({child}, [assigned_cpu EXCEPT ![child] = cpu], runnable, queued)
    /\ UNCHANGED <<block, wake_result, pending_syscall, kernel_context, group_exit_status,
                   sigVars, cpuVars, waitVars, now>>

\* send_signal, from a system call or from the run loop (terminal and interval
\* timer signals).  A process in the table gets it at once, one that a CPU has
\* published gets it queued; otherwise the signal finds no target.
SendSignal(c, p) ==
    /\ phase[c] \in {"loop", "kernel"}
    /\ IF p \in processes
       THEN /\ signals' = signals \cup {p}
            /\ \E deliverable \in BOOLEAN :
                  LET W == {q \in {p} : deliverable} \cap
                              BlockedOn({"SignalSuspend", "Timer", "Poll", "Futex"})
                  IN  WakeAll(W, [q \in W |-> SignalResult(q)], {}, state, runnable, queued)
            /\ UNCHANGED queued_signals
       ELSE /\ queued_signals' = IF RunningCpuOf(p) # {} THEN queued_signals \cup {p}
                                 ELSE queued_signals
            /\ UNCHANGED <<signals, state, block, wake_result, queueVars, waitVars>>
    /\ UNCHANGED <<processes, pending_syscall, kernel_context, assigned_cpu, thread_group,
                   groupVars, cpuVars, now>>

\* wake_futex and, from execve, wake_vfork_parent.
WakeBlocked(c) ==
    /\ phase[c] = "kernel"
    /\ \E W \in SUBSET BlockedOn({"Futex", "Vfork"}) :
          /\ W # {}
          /\ WakeAll(W, [q \in W |-> EventResult(q)], {}, state, runnable, queued)
    /\ UNCHANGED <<processes, pending_syscall, kernel_context, assigned_cpu, thread_group,
                   groupVars, sigVars, cpuVars, now>>

\* finish_syscall_dispatch with Return.
FinishReturn(c) ==
    LET p == current[c] IN
    /\ phase[c] = "kernel"
    /\ RequeueRunnable(c, p)
    /\ pending_syscall' = pending_syscall \ {p}
    /\ kernel_context' = [kernel_context EXCEPT ![p] = "None"]
    /\ wake_result' = [wake_result EXCEPT ![p] = "None"]
    /\ UNCHANGED <<block, assigned_cpu, thread_group, groupVars, sigVars, current,
                   waitVars, now>>

\* ... with Exit or ExitGroup.
FinishExit(c, group) ==
    /\ phase[c] = "kernel"
    /\ Exit(current[c], group, runnable, queued)
    /\ phase' = [phase EXCEPT ![c] = "reset"]
    /\ UNCHANGED current

\* finish_kernel_block, block_from_disposition, requeue_process: a file that is
\* ready by now, or a wake that reached the armed futex wait, makes the process
\* Runnable again at once.
FinishKernelBlock(c, b, ready) ==
    LET p == current[c] IN
    /\ phase[c] = "kernel"
    /\ ready => b.kind \in {"File", "Poll", "Futex"}
    /\ processes' = processes \cup {p}
    /\ kernel_context' = [kernel_context EXCEPT ![p] = b.kind]
    /\ IF ready
       THEN /\ state' = [state EXCEPT ![p] = "Runnable"]
            /\ block' = [block EXCEPT ![p] = NoBlock]
            /\ wake_result' = [wake_result EXCEPT ![p] =
                                  CASE b.kind = "File" -> "FileReady"
                                    [] b.kind = "Poll" -> "PollReady"
                                    [] OTHER -> "FutexWoken"]
            /\ EnqueueAll({p}, assigned_cpu, runnable, queued)
            /\ UNCHANGED waitVars
       ELSE /\ state' = [state EXCEPT ![p] = "Blocked"]
            /\ block' = [block EXCEPT ![p] = b]
            /\ wake_result' = [wake_result EXCEPT ![p] = "None"]
            /\ Track(p, b)
            /\ UNCHANGED queueVars
    /\ phase' = [phase EXCEPT ![c] = "reset"]
    /\ UNCHANGED <<pending_syscall, assigned_cpu, thread_group, groupVars, sigVars,
                   current, now>>

\* The drop of with_current_process's guard.
ResetCurrent(c) ==
    /\ phase[c] = "reset"
    /\ phase' = [phase EXCEPT ![c] = "loop"]
    /\ current' = [current EXCEPT ![c] = NoPid]
    /\ UNCHANGED <<procVars, groupVars, sigVars, queueVars, waitVars, now>>

-----------------------------------------------------------------------------
(* drain_pending_runtime_events *)

\* wake_ready_file_blocks, for the pids the file listeners have queued.
WakeReadyFileBlocks(c) ==
    /\ phase[c] = "loop"
    /\ \E W \in SUBSET BlockedOn({"File", "Poll"}) :
          /\ W # {}
          /\ WakeAll(W, [q \in W |-> EventResult(q)], {}, state, runnable, queued)
    /\ UNCHANGED <<processes, pending_syscall, kernel_context, assigned_cpu, thread_group,
                   groupVars, sigVars, cpuVars, now>>

\* wake_expired_timers; the clock was read before the lock was taken, so it
\* may be behind.
WakeExpiredTimers(c, current_nanos) ==
    LET expired == UNION {blocked_timers[d] : d \in {e \in Deadline : e <= current_nanos}}
        W == expired \cap BlockedOn({"Timer", "Futex", "Poll"})
    IN
    /\ phase[c] = "loop"
    /\ current_nanos <= now
    /\ next_timer_deadline <= current_nanos
    /\ state' = [p \in Pid |-> IF p \in W THEN "Runnable" ELSE state[p]]
    /\ block' = [p \in Pid |-> IF p \in W THEN NoBlock ELSE block[p]]
    /\ wake_result' = [p \in Pid |-> IF p \in W THEN TimeoutResult(p) ELSE wake_result[p]]
    /\ blocked_files' = blocked_files \ {p \in W : block[p].kind = "Poll"}
    /\ blocked_timers' = [d \in Deadline |-> IF d <= current_nanos THEN {} ELSE blocked_timers[d]]
    /\ next_timer_deadline' = FirstDeadline(blocked_timers')
    /\ UNCHANGED <<processes, pending_syscall, kernel_context, assigned_cpu, thread_group,
                   groupVars, sigVars, cpuVars, now>>
    /\ EnqueueAll(W, assigned_cpu, runnable, queued)

Tick ==
    /\ now < MaxTime
    /\ now' = now + 1
    /\ UNCHANGED <<procVars, groupVars, sigVars, queueVars, cpuVars, waitVars>>

-----------------------------------------------------------------------------
Init ==
    /\ processes = {InitPid}
    /\ state = [p \in Pid |-> IF p = InitPid THEN "Runnable" ELSE "Unborn"]
    /\ block = [p \in Pid |-> NoBlock]
    /\ wake_result = [p \in Pid |-> "None"]
    /\ pending_syscall = {}
    /\ kernel_context = [p \in Pid |-> "None"]
    /\ thread_group = [p \in Pid |-> p]
    /\ thread_groups = [g \in Pid |-> IF g = InitPid THEN {InitPid} ELSE {}]
    /\ group_exit_status = {}
    /\ signals = {} /\ queued_signals = {}
    /\ \E boot \in Cpu :
          /\ assigned_cpu = [p \in Pid |-> boot]
          /\ runnable = [c \in Cpu |-> IF c = boot THEN <<InitPid>> ELSE <<>>]
          /\ queued = [c \in Cpu |-> IF c = boot THEN {InitPid} ELSE {}]
    /\ current = [c \in Cpu |-> NoPid]
    /\ phase = [c \in Cpu |-> "loop"]
    /\ blocked_files = {}
    /\ blocked_timers = [d \in Deadline |-> {}]
    /\ next_timer_deadline = NoDeadline
    /\ now = 0

Take(c) == TakeGroupExit(c) \/ TakeFatalSignal(c) \/ TakeStop(c) \/ TakeDispatch(c)

LeaveUser(c) == \/ FinishInterrupt(c) \/ FinishPageFault(c) \/ FinishFaultHandled(c)
                \/ FinishFaultExit(c) \/ FinishFaulted(c) \/ EnterSyscall(c)

LeaveKernel(c) == \/ FinishReturn(c)
                  \/ \E group \in BOOLEAN : FinishExit(c, group)
                  \/ \E b \in Block, ready \in BOOLEAN : FinishKernelBlock(c, b, ready)

Next ==
    \/ \E c \in Cpu :
          \/ Take(c) \/ SetCurrent(c) \/ LeaveUser(c) \/ LeaveKernel(c) \/ ResetCurrent(c)
          \/ \E child \in Pid, thread \in BOOLEAN, cpu \in Cpu :
                CloneProcess(c, child, thread, cpu)
          \/ \E p \in Pid : SendSignal(c, p)
          \/ WakeBlocked(c) \/ WakeReadyFileBlocks(c)
          \/ \E current_nanos \in 0..MaxTime : WakeExpiredTimers(c, current_nanos)
    \/ Tick

\* User code is preempted by the periodic tick, handlers run to their end and
\* the run loop of every CPU goes round.
Fairness == \A c \in Cpu : /\ WF_vars(Take(c)) /\ WF_vars(SetCurrent(c))
                           /\ WF_vars(LeaveUser(c)) /\ WF_vars(LeaveKernel(c))
                           /\ WF_vars(ResetCurrent(c))

Spec == Init /\ [][Next]_vars
FairSpec == Spec /\ Fairness

-----------------------------------------------------------------------------
(* Properties *)

\* Typing of the table, the queues and the indexes; the current pid of a CPU and
\* the clock included.
TypeOK ==
    /\ processes \subseteq Pid
    /\ state \in [Pid -> State]
    /\ block \in [Pid -> Block \cup {NoBlock}]
    /\ wake_result \in [Pid -> Result \cup {"None"}]
    /\ pending_syscall \subseteq Pid
    /\ kernel_context \in [Pid -> Kind \cup {"None", "Active"}]
    /\ assigned_cpu \in [Pid -> Cpu]
    /\ thread_group \in [Pid -> Pid]
    /\ thread_groups \in [Pid -> SUBSET Pid]
    /\ group_exit_status \subseteq Pid
    /\ signals \subseteq Pid
    /\ queued_signals \subseteq Pid
    /\ runnable \in [Cpu -> Seq(Pid)]
    /\ queued \in [Cpu -> SUBSET Pid]
    /\ current \in [Cpu -> Pid \cup {NoPid}]
    /\ phase \in [Cpu -> Phase]
    /\ blocked_files \subseteq Pid
    /\ blocked_timers \in [Deadline -> SUBSET Pid]
    /\ next_timer_deadline \in Deadline \cup {NoDeadline}
    /\ now \in 0..MaxTime

\* A process is in the table exactly while it is Runnable or Blocked, and is
\* Running exactly while one CPU, its own, holds it: no process is in two places.
SingleOwner ==
    \A p \in Pid :
       /\ p \in processes <=> state[p] \in {"Runnable", "Blocked"}
       /\ state[p] = "Running" <=> \E c \in Cpu : Holds(c, p)
       /\ \A c \in Cpu : Holds(c, p) => assigned_cpu[p] = c

\* The run queue of a CPU holds the Runnable processes assigned to it, each
\* once: no runnable process is forgotten, no blocked one is scheduled.
RunQueueExact ==
    \A c \in Cpu :
       /\ queued[c] = {p \in processes : state[p] = "Runnable" /\ assigned_cpu[p] = c}
       /\ \A p \in Pid : p \in queued[c] <=> \E i \in 1..Len(runnable[c]) : runnable[c][i] = p
       /\ \A i, j \in 1..Len(runnable[c]) : runnable[c][i] = runnable[c][j] => i = j

\* blocked_files and blocked_timers list exactly the processes that wait so,
\* and the published deadline is the earliest one: no wake-up can miss a waiter.
WaitIndexExact ==
    /\ blocked_files = BlockedOn({"File", "Poll"})
    /\ \A d \in Deadline :
          blocked_timers[d] = {p \in BlockedOn(KindsOfBlock) : block[p].deadline = d}
    /\ next_timer_deadline = FirstDeadline(blocked_timers)

\* The results the code waiting with a kind of block is prepared for.
ResultsOf(k) ==
    CASE k = "File" -> {"FileReady", "SignalInterrupted"}
      [] k = "Poll" -> {"PollReady", "PollTimedOut", "SignalInterrupted"}
      [] k = "Timer" -> {"TimerCompleted", "TimerInterrupted", "SignalInterrupted"}
      [] k = "Futex" -> {"FutexWoken", "FutexTimedOut", "SignalInterrupted"}
      [] k = "SignalSuspend" -> {"SignalInterrupted"}
      [] OTHER -> {"CompletedValue", "SignalInterrupted"}

\* A suspended system call is resumed with a result of the wait it is suspended
\* in, so wait_with_kernel_continuation never falls back to its default; and a
\* handler never starts a wait with the result of an earlier one still there.
ResumeHasResult ==
    \A p \in Pid : state[p] \in {"Runnable", "Running", "Blocked"} =>
       /\ state[p] = "Blocked" => kernel_context[p] = block[p].kind
       /\ IF kernel_context[p] \in KindsOfBlock /\ state[p] # "Blocked"
          THEN wake_result[p] \in ResultsOf(kernel_context[p])
          ELSE wake_result[p] = "None"

\* A process a CPU has taken but not yet published has no queued signal: what
\* was queued while it ran has been merged before it goes back to user mode.
MergedBeforeDispatch ==
    \A c \in Cpu : phase[c] = "taken" => current[c] \notin queued_signals

\* The bookkeeping of waits is exact: a waiter is indexed, resumes with a result
\* of its own wait, and does not go back to user mode with a signal unmerged
\* (manager.rs).
WaitsExact == WaitIndexExact /\ ResumeHasResult /\ MergedBeforeDispatch

\* Every runnable process gets its turn.
RunnableRuns == \A p \in Pid : state[p] = "Runnable" ~> state[p] # "Runnable"

\* A group that has begun to exit goes, except for members that were dropped
\* as Stopped or Faulted before.
GroupExitCompletes ==
    \A g \in Pid : g \in group_exit_status ~>
                       \A p \in thread_groups[g] : state[p] \in {"Stopped", "Faulted"}
=============================================================================
