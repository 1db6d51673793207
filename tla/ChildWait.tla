----------------------------- MODULE ChildWait -----------------------------
(***************************************************************************)
(* Parents and children: clone, execve, exit, wait4, waitid, stop signals, *)
(* zombies, child events and pidfds (manager.rs, runtime.rs, wait4.rs,     *)
(* waitid.rs, pidfd.rs).  Each Pid is a process with one thread.           *)
(*                                                                         *)
(* A CPU runs the kernel part of one process at a time and a process never *)
(* changes its CPU.  A system call that must block looks for an event,     *)
(* gives up the manager's lock, and blocks under it later: processes of    *)
(* other CPUs run in between, those of its own CPU do not.                 *)
(***************************************************************************)
EXTENDS Naturals, Sequences, FiniteSets

CONSTANTS
    Pid,
    Root,       \* the process the kernel spawns
    Cpu,
    MaxEvents,  \* a process is not stopped while its parent has this many events
    None

ASSUME RootAssumption == Root \in Pid
ASSUME CpuAssumption == Cpu # {}
ASSUME MaxEventsAssumption == MaxEvents \in Nat
ASSUME NoneAssumption == None \notin Pid /\ None \notin Cpu

VARIABLES
    state,          \* "unused", "runnable", "running", "blocked", "dropped", "dead"
    cpu,            \* assigned_cpu
    parent,         \* identity.parent
    vfork_parent,
    image,          \* "own", or "shared" with a vfork parent (history)
    pc,             \* where a running process is: "user", "look" or "block"
    call,           \* the wait, or the vfork, it is in; None in user mode
    wake_result,    \* the pid a wake hands to the system call, or None
    sigchld,        \* its action for SIGCHLD
    children,       \* parent_children
    zombies,
    child_events,   \* per parent, a queue of [pid, kind]
    pidfd,          \* PidFdState
    reports         \* how often the exit of a process was reported (history)

vars == <<state, cpu, parent, vfork_parent, image, pc, call, wake_result, sigchld, children,
          zombies, child_events, pidfd, reports>>
treeVars == <<cpu, parent, sigchld>>
reapVars == <<children, zombies, child_events, pidfd, reports>>
vforkVars == <<vfork_parent, image>>

Action == {"default", "autoreap"}   \* autoreap: SIG_IGN or SA_NOCLDWAIT
Selector == {"any"} \cup Pid
Wait == [api : {"wait4", "waitid"}, selector : Selector, nohang : BOOLEAN, untraced : BOOLEAN,
         nowait : BOOLEAN]
Vfork == [api : {"vfork"}, child : Pid]
Event == [pid : Pid, kind : {"Exited", "Stopped"}]
ASSUME CallAssumption == None \notin Wait \cup Vfork
Alive == {"runnable", "running", "blocked"}

Init ==
    /\ state = [p \in Pid |-> IF p = Root THEN "runnable" ELSE "unused"]
    /\ cpu \in [Pid -> Cpu]
    /\ parent = [p \in Pid |-> None]
    /\ vfork_parent = [p \in Pid |-> None]
    /\ image = [p \in Pid |-> "own"]
    /\ pc = [p \in Pid |-> "user"]
    /\ call = [p \in Pid |-> None]
    /\ wake_result = [p \in Pid |-> None]
    /\ sigchld = [p \in Pid |-> "default"]
    /\ children = [p \in Pid |-> {}]
    /\ zombies = {}
    /\ child_events = [p \in Pid |-> <<>>]
    /\ pidfd = [p \in Pid |-> "Alive"]
    /\ reports = [p \in Pid |-> 0]

InUser(p) == state[p] = "running" /\ pc[p] = "user"

-----------------------------------------------------------------------------
(* Scheduling *)

Dispatch(p) ==
    /\ state[p] = "runnable"
    /\ \A q \in Pid : cpu[q] = cpu[p] => state[q] # "running"
    /\ state' = [state EXCEPT ![p] = "running"]
    \* wait4 and vfork return what woke them, waitid looks again
    /\ IF call[p] # None /\ call[p].api # "waitid"
       THEN call' = [call EXCEPT ![p] = None] /\ pc' = [pc EXCEPT ![p] = "user"]
       ELSE /\ pc' = [pc EXCEPT ![p] = IF call[p] = None THEN "user" ELSE "look"]
            /\ UNCHANGED call
    /\ wake_result' = [wake_result EXCEPT ![p] = None]
    /\ UNCHANGED <<treeVars, vforkVars, reapVars>>

Preempt(p) ==
    /\ InUser(p)
    /\ state' = [state EXCEPT ![p] = "runnable"]
    /\ UNCHANGED <<treeVars, vforkVars, pc, call, wake_result, reapVars>>

-----------------------------------------------------------------------------
(* Waking the parent *)

\* wake_vfork_parent finds p blocked on c
VforkWoken(c, p) ==
    p # None /\ state[p] = "blocked" /\ call[p].api = "vfork" /\ call[p].child = c

Matches(w, e) ==
    /\ w.selector \in {"any", e.pid}
    /\ e.kind = "Stopped" => w.untraced

\* notify_child_event finds the parent blocked in a wait for e
WaitWoken(p, e) ==
    /\ p # None /\ state[p] = "blocked"
    /\ call[p].api \in {"wait4", "waitid"}
    /\ Matches(call[p], e)

\* A blocked wait4 takes the event with it, so that nobody finds it again.
Takes(p, e) == WaitWoken(p, e) /\ call[p].api = "wait4"

\* Mutant of EventsAfter: the event is queued although a wait4 took it.
EventsAlways(p, e) ==
    IF p = None THEN child_events ELSE [child_events EXCEPT ![p] = Append(@, e)]
EventsAfter(p, e) ==
    IF p = None \/ Takes(p, e) THEN child_events
    ELSE [child_events EXCEPT ![p] = Append(@, e)]

\* untrack_child_link
Unlinked(p, c) == IF p = None THEN children ELSE [children EXCEPT ![p] = @ \ {c}]

-----------------------------------------------------------------------------
(* clone, vfork, execve, exit, stop *)

\* The cpu of a new process is its parent's when they share memory.
\* Mutant of PlacedWithParent: a vfork child may run on another CPU.
PlacedAnywhere(c, p) == TRUE
PlacedWithParent(c, p) == cpu[c] = cpu[p]

\* The flags that bear on parents and children: CLONE_VM, CLONE_VFORK and
\* CLONE_PARENT
CloneFlags == SUBSET {"VM", "VFORK", "PARENT"}
\* CloneParams::validate: no vfork without the parent's memory.  What else it
\* refuses has no flag here.
Valid(flags) == "VFORK" \in flags => "VM" \in flags

Clone(p, c, flags) ==
    LET newParent == IF "PARENT" \in flags THEN parent[p] ELSE p IN
    /\ InUser(p) /\ state[c] = "unused" /\ Valid(flags)
    /\ "VM" \in flags => PlacedWithParent(c, p)
    /\ parent' = [parent EXCEPT ![c] = newParent]
    /\ children' = IF newParent = None THEN children
                   ELSE [children EXCEPT ![newParent] = @ \cup {c}]
    /\ sigchld' = [sigchld EXCEPT ![c] = sigchld[p]]
    /\ state' = [state EXCEPT ![c] = "runnable"]
    /\ IF "VFORK" \in flags
       THEN /\ vfork_parent' = [vfork_parent EXCEPT ![c] = p]
            /\ image' = [image EXCEPT ![c] = "shared"]
            /\ call' = [call EXCEPT ![p] = [api |-> "vfork", child |-> c]]
            /\ pc' = [pc EXCEPT ![p] = "block"]
       ELSE UNCHANGED <<vforkVars, call, pc>>
    /\ UNCHANGED <<cpu, wake_result, zombies, child_events, pidfd, reports>>

Execve(p) ==
    /\ InUser(p)
    /\ IF VforkWoken(p, vfork_parent[p])
       THEN /\ state' = [state EXCEPT ![vfork_parent[p]] = "runnable"]
            /\ wake_result' = [wake_result EXCEPT ![vfork_parent[p]] = p]
       ELSE UNCHANGED <<state, wake_result>>
    /\ vfork_parent' = [vfork_parent EXCEPT ![p] = None]
    /\ image' = [image EXCEPT ![p] = "own"]
    /\ UNCHANGED <<treeVars, pc, call, reapVars>>

\* rt_sigaction
SetSigchld(p, action) ==
    /\ InUser(p)
    /\ sigchld' = [sigchld EXCEPT ![p] = action]
    /\ UNCHANGED <<state, cpu, parent, vforkVars, pc, call, wake_result, reapVars>>

\* The parent's action for SIGCHLD; none when it is running or gone.
SigchldAction(p) ==
    IF p # None /\ state[p] \in {"runnable", "blocked"} THEN sigchld[p] ELSE "default"
AutoReaped(p) == p = None \/ SigchldAction(p) = "autoreap"

PidfdAtExit(up) == IF AutoReaped(up) THEN "Reaped" ELSE "Exited"

\* reap_exited_process and, unless the child is reaped at once,
\* notify_child_event
Exit(p) ==
    LET up == parent[p]
        event == [pid |-> p, kind |-> "Exited"]
        vforker == vfork_parent[p]
        taken == ~AutoReaped(up) /\ Takes(up, event)
        woken == {q \in {up} : ~AutoReaped(up) /\ WaitWoken(up, event)}
                 \cup {q \in {vforker} : VforkWoken(p, vforker)}
    IN
    /\ InUser(p)
    /\ state' = [q \in Pid |-> IF q = p THEN "dead"
                               ELSE IF q \in woken THEN "runnable" ELSE state[q]]
    /\ wake_result' = [q \in Pid |-> IF q \in woken THEN p ELSE wake_result[q]]
    /\ vfork_parent' = [vfork_parent EXCEPT ![p] = None]
    /\ image' = [image EXCEPT ![p] = "own"]
    /\ pidfd' = [pidfd EXCEPT ![p] = PidfdAtExit(up)]
    /\ IF AutoReaped(up)
       THEN /\ children' = Unlinked(up, p)
            /\ UNCHANGED <<zombies, child_events, reports>>
       ELSE /\ child_events' = EventsAfter(up, event)
            /\ zombies' = IF taken THEN zombies ELSE zombies \cup {p}
            /\ children' = IF taken THEN Unlinked(up, p) ELSE children
            /\ reports' = IF taken THEN [reports EXCEPT ![p] = @ + 1] ELSE reports
    /\ UNCHANGED <<treeVars, pc, call>>

\* take_next_process_for_pid delivers a stop signal: the parent is told and the
\* process is not put back into the table.
Stop(p) ==
    LET up == parent[p]
        event == [pid |-> p, kind |-> "Stopped"]
    IN
    /\ state[p] = "runnable" /\ call[p] = None
    /\ \A q \in Pid : cpu[q] = cpu[p] => state[q] # "running"
    /\ up # None => Len(child_events[up]) < MaxEvents
    /\ state' = [q \in Pid |-> IF q = p THEN "dropped"
                               ELSE IF q = up /\ WaitWoken(up, event) THEN "runnable"
                               ELSE state[q]]
    /\ wake_result' = [q \in Pid |-> IF q = up /\ WaitWoken(up, event) THEN p ELSE wake_result[q]]
    /\ child_events' = EventsAfter(up, event)
    /\ UNCHANGED <<treeVars, vforkVars, pc, call, children, zombies, pidfd, reports>>

-----------------------------------------------------------------------------
(* wait4 and waitid *)

\* wait_child_event: the first event that matches
Found(p, w) == {i \in 1..Len(child_events[p]) : Matches(w, child_events[p][i])}
First(p, w) == CHOOSE i \in Found(p, w) : \A j \in Found(p, w) : i <= j
WithoutNth(s, i) == SubSeq(s, 1, i - 1) \o SubSeq(s, i + 1, Len(s))

\* The event goes, and with an exit the zombie.
Consumes(p, i) ==
    LET c == child_events[p][i].pid
        exited == child_events[p][i].kind = "Exited"
    IN
    /\ child_events' = [child_events EXCEPT ![p] = WithoutNth(@, i)]
    /\ zombies' = IF exited THEN zombies \ {c} ELSE zombies
    /\ children' = IF exited /\ c \in zombies THEN Unlinked(p, c) ELSE children
    /\ pidfd' = IF exited /\ c \in zombies THEN [pidfd EXCEPT ![c] = "Reaped"] ELSE pidfd
    /\ reports' = IF exited THEN [reports EXCEPT ![c] = @ + 1] ELSE reports

HasWaitableChild(p, w) == \E c \in children[p] : w.selector \in {"any", c}

\* wait4, waitid: an event is returned and, unless WNOWAIT, consumed; WNOHANG
\* and ECHILD return; anything else will block.
Look(p, w) ==
    /\ IF Found(p, w) # {}
       THEN IF w.nowait THEN UNCHANGED reapVars ELSE Consumes(p, First(p, w))
       ELSE UNCHANGED reapVars
    /\ IF Found(p, w) # {} \/ w.nohang \/ ~HasWaitableChild(p, w)
       THEN pc' = [pc EXCEPT ![p] = "user"] /\ call' = [call EXCEPT ![p] = None]
       ELSE pc' = [pc EXCEPT ![p] = "block"] /\ call' = [call EXCEPT ![p] = w]
    /\ UNCHANGED <<state, treeVars, vforkVars, wake_result>>

WaitCall(p, w) ==
    /\ InUser(p)
    /\ w.api = "wait4" => ~w.nowait
    /\ Look(p, w)

\* A waitid that was woken looks again.
LookAgain(p) == state[p] = "running" /\ pc[p] = "look" /\ Look(p, call[p])

\* finish_kernel_block: nothing is looked at again
Block(p) ==
    /\ state[p] = "running" /\ pc[p] = "block"
    /\ state' = [state EXCEPT ![p] = "blocked"]
    /\ wake_result' = [wake_result EXCEPT ![p] = None]
    /\ UNCHANGED <<treeVars, vforkVars, pc, call, reapVars>>

-----------------------------------------------------------------------------
Step(p) == Dispatch(p) \/ LookAgain(p) \/ Block(p)

Next ==
    \E p \in Pid :
       \/ Step(p) \/ Preempt(p) \/ Execve(p) \/ Exit(p) \/ Stop(p)
       \/ InUser(p) /\ \E c \in Pid, flags \in CloneFlags : Clone(p, c, flags)
       \/ \E action \in Action : SetSigchld(p, action)
       \/ InUser(p) /\ \E w \in Wait : WaitCall(p, w)

Spec == Init /\ [][Next]_vars

-----------------------------------------------------------------------------
(* Properties *)

\* Typing of the process table, its links and events.
TypeOK ==
    /\ state \in [Pid -> Alive \cup {"unused", "dropped", "dead"}]
    /\ cpu \in [Pid -> Cpu]
    /\ parent \in [Pid -> Pid \cup {None}]
    /\ vfork_parent \in [Pid -> Pid \cup {None}]
    /\ image \in [Pid -> {"own", "shared"}]
    /\ pc \in [Pid -> {"user", "look", "block"}]
    /\ call \in [Pid -> Wait \cup Vfork \cup {None}]
    /\ wake_result \in [Pid -> Pid \cup {None}]
    /\ sigchld \in [Pid -> Action]
    /\ children \in [Pid -> SUBSET Pid]
    /\ zombies \subseteq Pid
    /\ child_events \in [Pid -> Seq(Event)]
    /\ pidfd \in [Pid -> {"Alive", "Exited", "Reaped"}]
    /\ reports \in [Pid -> Nat]

ExitEvents(c) ==
    {x \in UNION {{p} \X (1..Len(child_events[p])) : p \in Pid} :
        child_events[x[1]][x[2]] = [pid |-> c, kind |-> "Exited"]}

\* A zombie is exactly a process with an exit event, a single one, in the queue
\* of its parent: a wait that finds the event finds the zombie and the reverse.
\* No exit is reported twice, and after its report no zombie is left.
ZombieHasEvent ==
    \A c \in Pid : /\ c \in zombies <=> ExitEvents(c) # {}
                   /\ Cardinality(ExitEvents(c)) <= 1
                   /\ \A x \in ExitEvents(c) : x[1] = parent[c]
                   /\ reports[c] <= 1
                   /\ reports[c] = 1 => c \notin zombies

\* parent_children holds the living and the unreaped, and nobody else; every
\* table is well typed.
ChildrenExact ==
    TypeOK /\ \A p \in Pid : children[p] =
       {c \in Pid : parent[c] = p /\ (state[c] \in Alive \cup {"dropped"} \/ c \in zombies)}

\* A pidfd is Alive exactly while its process is, and never Reaped while the
\* process can still be waited for.
PidfdTruthful ==
    \A c \in Pid : /\ pidfd[c] = "Alive" <=> state[c] # "dead"
                   /\ pidfd[c] = "Reaped" => c \notin zombies

\* No wait sleeps through an event of a process of its own CPU.
NoMissedLocalEvent ==
    \A p \in Pid : state[p] = "blocked" /\ call[p].api # "vfork" =>
       \A i \in Found(p, call[p]) : cpu[child_events[p][i].pid] # cpu[p]

\* Vfork: the parent stays blocked while the child uses its memory, and is not
\* left blocked when the child has its own, or is gone.
VforkSuspends ==
    /\ \A c \in Pid : image[c] = "shared" /\ state[c] = "running" =>
          vfork_parent[c] # None /\ state[vfork_parent[c]] = "blocked"
             /\ call[vfork_parent[c]] = [api |-> "vfork", child |-> c]
    /\ \A p \in Pid : state[p] = "blocked" /\ call[p].api = "vfork" =>
          image[call[p].child] = "shared" /\ state[call[p].child] # "dead"

\* What a parent can wait for is exact: zombies, events, links and pidfds agree,
\* and no wait sleeps through an event of its own CPU (manager.rs).
ChildEventsExact == ZombieHasEvent /\ ChildrenExact /\ PidfdTruthful /\ NoMissedLocalEvent
=============================================================================
