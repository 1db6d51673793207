------------------------ MODULE ProcessManagerProofs ------------------------
EXTENDS ProcessManager, FiniteSetTheorems, WellFoundedInduction, TLAPS

\* A run queue and its duplicate filter agree: the queue lists the filter's
\* pids, each once.
Agree(q, s) == /\ \A p \in Pid : p \in s <=> \E i \in 1..Len(q) : q[i] = p
               /\ \A i, j \in 1..Len(q) : q[i] = q[j] => i = j

\* An order of a finite set lists it without repetition.
LEMMA OrdersFact ==
    ASSUME NEW S, IsFiniteSet(S), S \subseteq Pid, NEW s \in Orders(S)
    PROVE  /\ s \in Seq(Pid)
           /\ \A p \in Pid : p \in S <=> \E i \in 1..Len(s) : s[i] = p
           /\ \A i, j \in 1..Len(s) : s[i] = s[j] => i = j
  BY FS_CardinalityType DEF Orders

\* Appending a list of new pids to a run queue keeps it and the filter in step.
LEMMA AppendAgrees ==
    ASSUME NEW q \in Seq(Pid), NEW s \in SUBSET Pid, Agree(q, s),
           NEW N \in SUBSET Pid, N \cap s = {}, NEW o \in Orders(N)
    PROVE  q \o o \in Seq(Pid) /\ Agree(q \o o, s \cup N)
<1>0. IsFiniteSet(N) BY PidAssumption, FS_Subset
<1>1. /\ o \in Seq(Pid)
      /\ \A p \in Pid : p \in N <=> \E i \in 1..Len(o) : o[i] = p
      /\ \A i, j \in 1..Len(o) : o[i] = o[j] => i = j
   BY <1>0, OrdersFact
<1>2. /\ q \o o \in Seq(Pid)
      /\ Len(q \o o) = Len(q) + Len(o)
      /\ Len(q) \in Nat /\ Len(o) \in Nat
      /\ \A i \in 1..Len(q) : (q \o o)[i] = q[i]
      /\ \A i \in 1..Len(o) : (q \o o)[Len(q) + i] = o[i]
   BY <1>1
<1>2a. \A i \in 1..Len(q) : q[i] \in s
   BY DEF Agree
<1>2b. \A i \in 1..Len(o) : o[i] \in N
   BY <1>1
<1>3. ASSUME NEW p \in Pid
      PROVE  p \in s \cup N <=> \E i \in 1..Len(q \o o) : (q \o o)[i] = p
  <2>1. CASE p \in s
    BY <2>1, <1>2 DEF Agree
  <2>2. CASE p \in N
    <3>1. PICK i \in 1..Len(o) : o[i] = p BY <2>2, <1>1
    <3>2. Len(q) + i \in 1..Len(q \o o) /\ (q \o o)[Len(q) + i] = p BY <3>1, <1>2
    <3> QED BY <3>2, <2>2
  <2>3. CASE p \notin s \cup N
    <3>1. ASSUME NEW i \in 1..Len(q \o o) PROVE (q \o o)[i] # p
      BY <1>2, <1>2a, <2>3, <1>2b
    <3> QED BY <3>1, <2>3
  <2> QED BY <2>1, <2>2, <2>3
<1>4. ASSUME NEW i \in 1..Len(q \o o), NEW j \in 1..Len(q \o o), (q \o o)[i] = (q \o o)[j]
      PROVE  i = j
  <2> DEFINE In(k) == k \in 1..Len(q)
  <2>0. ASSUME NEW k \in 1..Len(q \o o), ~In(k)
        PROVE  k - Len(q) \in 1..Len(o) /\ (q \o o)[k] = o[k - Len(q)]
    BY <2>0, <1>2
  <2>1. CASE In(i) /\ In(j) BY <2>1, <1>2, <1>4 DEF Agree
  <2>2. CASE In(i) /\ ~In(j) BY <2>2, <2>0, <1>2, <1>2a, <1>2b, <1>4
  <2>3. CASE ~In(i) /\ In(j) BY <2>3, <2>0, <1>2, <1>2a, <1>2b, <1>4
  <2>4. CASE ~In(i) /\ ~In(j)
    BY <2>4, <2>0, <1>1, <1>4, <1>2
  <2> QED BY <2>1, <2>2, <2>3, <2>4
<1> QED BY <1>2, <1>3, <1>4 DEF Agree

\* EnqueueAll queues each process of E on its CPU and keeps queue and filter
\* in step.
LEMMA EnqueueFact ==
    ASSUME NEW E \in SUBSET Pid, NEW on \in [Pid -> Cpu],
           NEW rn \in [Cpu -> Seq(Pid)], NEW qd \in [Cpu -> SUBSET Pid],
           \A c \in Cpu : Agree(rn[c], qd[c]),
           EnqueueAll(E, on, rn, qd)
    PROVE  /\ runnable' \in [Cpu -> Seq(Pid)]
           /\ queued' = [c \in Cpu |-> qd[c] \cup {p \in E : on[p] = c}]
           /\ \A c \in Cpu : Agree(runnable'[c], queued'[c])
<1> DEFINE new == [c \in Cpu |-> {p \in E : on[p] = c /\ p \notin qd[c]}]
<1>1. PICK o \in [Cpu -> UNION {Orders(new[c]) : c \in Cpu}] :
         /\ \A c \in Cpu : o[c] \in Orders(new[c])
         /\ runnable' = [c \in Cpu |-> rn[c] \o o[c]]
   BY DEF EnqueueAll
<1>2. queued' = [c \in Cpu |-> qd[c] \cup new[c]]
   BY DEF EnqueueAll
<1>3. ASSUME NEW c \in Cpu
      PROVE  /\ rn[c] \o o[c] \in Seq(Pid)
             /\ Agree(rn[c] \o o[c], qd[c] \cup new[c])
  <2>1. new[c] \in SUBSET Pid /\ new[c] \cap qd[c] = {}
     OBVIOUS
  <2>2. /\ rn[c] \in Seq(Pid) /\ qd[c] \in SUBSET Pid /\ Agree(rn[c], qd[c])
        /\ o[c] \in Orders(new[c])
     BY <1>1
  <2> HIDE DEF new
  <2> QED BY <2>1, <2>2, AppendAgrees
<1>4. queued' = [c \in Cpu |-> qd[c] \cup {p \in E : on[p] = c}]
   BY <1>2
<1> HIDE DEF new
<1> QED BY <1>1, <1>2, <1>3, <1>4

\* Taking the head off a run queue and out of the filter keeps them in step.
LEMMA DequeueFact ==
    ASSUME TypeOK, \A d \in Cpu : Agree(runnable[d], queued[d]),
           NEW c \in Cpu, runnable[c] # <<>>
    PROVE  /\ NextPid(c) \in Pid /\ NextPid(c) \in queued[c]
           /\ DequeuedRunnable(c) \in [Cpu -> Seq(Pid)]
           /\ DequeuedQueued(c) \in [Cpu -> SUBSET Pid]
           /\ \A d \in Cpu : Agree(DequeuedRunnable(c)[d], DequeuedQueued(c)[d])
           /\ \A d \in Cpu : DequeuedQueued(c)[d] = IF d = c THEN queued[c] \ {NextPid(c)}
                                                     ELSE queued[d]
<1> DEFINE q == runnable[c]
<1>1. q \in Seq(Pid) /\ q # <<>> /\ queued[c] \in SUBSET Pid /\ Agree(q, queued[c])
   BY DEF TypeOK
<1>2. /\ Len(q) \in Nat /\ 1 \in 1..Len(q) /\ Head(q) = q[1] /\ Head(q) \in Pid
      /\ Tail(q) \in Seq(Pid) /\ Len(Tail(q)) = Len(q) - 1
      /\ \A i \in 1..Len(Tail(q)) : Tail(q)[i] = q[i + 1] /\ i + 1 \in 1..Len(q)
   BY <1>1
<1>3. Head(q) \in queued[c] BY <1>1, <1>2 DEF Agree
<1>4. Agree(Tail(q), queued[c] \ {Head(q)})
  <2>1. ASSUME NEW p \in Pid
        PROVE  p \in queued[c] \ {Head(q)} <=> \E i \in 1..Len(Tail(q)) : Tail(q)[i] = p
    <3>1. CASE p \in queued[c] \ {Head(q)}
      BY <1>1, <3>1, <1>2 DEF Agree
    <3>2. ASSUME NEW i \in 1..Len(Tail(q)), Tail(q)[i] = p
          PROVE  p \in queued[c] \ {Head(q)}
      BY <3>2, <1>2, <1>1 DEF Agree
    <3> QED BY <3>1, <3>2
  <2>2. ASSUME NEW i \in 1..Len(Tail(q)), NEW j \in 1..Len(Tail(q)), Tail(q)[i] = Tail(q)[j]
        PROVE  i = j
    BY <2>2, <1>1, <1>2 DEF Agree
  <2> QED BY <2>1, <2>2 DEF Agree
<1>5. /\ DequeuedRunnable(c) = [d \in Cpu |-> IF d = c THEN Tail(q) ELSE runnable[d]]
      /\ DequeuedQueued(c) = [d \in Cpu |-> IF d = c THEN queued[c] \ {Head(q)} ELSE queued[d]]
   BY DEF DequeuedRunnable, DequeuedQueued, TypeOK, NextPid
<1>6. \A d \in Cpu : runnable[d] \in Seq(Pid) /\ queued[d] \in SUBSET Pid
   BY DEF TypeOK
<1>7. NextPid(c) = Head(q) BY DEF NextPid
<1> HIDE DEF q
<1> QED BY <1>1, <1>2, <1>3, <1>4, <1>5, <1>6, <1>7

\* A nonempty set of natural numbers has a least element.
LEMMA LeastNat ==
    ASSUME NEW T \in SUBSET Nat, T # {}
    PROVE  \E x \in T : \A y \in T : x <= y
<1>1. IsWellFoundedOn(OpToRel(<, Nat), Nat) BY NatLessThanWellFounded, Zenon
<1>2. PICK x \in T : \A y \in T : ~ (<<y, x>> \in OpToRel(<, Nat)) BY <1>1, WFMin, Zenon
<1>3. \A y \in T : ~(y < x) BY <1>2 DEF OpToRel
<1> QED BY <1>3

\* FirstDeadline is the least deadline with a waiter, if there is one.
LEMMA FirstDeadlineFact ==
    ASSUME NEW t \in [Deadline -> SUBSET Pid]
    PROVE  /\ FirstDeadline(t) \in Deadline \cup {NoDeadline}
           /\ \A e \in Deadline : t[e] # {} => FirstDeadline(t) <= e
           /\ FirstDeadline(t) # NoDeadline => t[FirstDeadline(t)] # {}
<1> DEFINE T == {d \in Deadline : t[d] # {}}
<1>1. CASE T = {}
  BY <1>1 DEF FirstDeadline
<1>2. CASE T # {}
  <2>1. T \in SUBSET Nat BY TimeAssumption DEF Deadline
  <2>2. \E x \in T : \A y \in T : x <= y BY <2>1, <1>2, LeastNat
  <2>3. /\ FirstDeadline(t) \in Deadline /\ t[FirstDeadline(t)] # {}
        /\ \A e \in Deadline : t[e] # {} => FirstDeadline(t) <= e
     BY <2>2, <1>2 DEF FirstDeadline
  <2> QED BY <2>3
<1> QED BY <1>1, <1>2

-----------------------------------------------------------------------------
(* Who has a process, and what the run queues hold *)

HeldIsPid == \A c \in Cpu : phase[c] \in {"taken", "user", "kernel"} => current[c] \in Pid

OwnerInv == TypeOK /\ SingleOwner /\ RunQueueExact /\ HeldIsPid

\* What RunQueueExact says, in terms of Agree.
LEMMA RunQueueAgree ==
    RunQueueExact <=>
      \A c \in Cpu : /\ queued[c] = {p \in processes : state[p] = "Runnable" /\ assigned_cpu[p] = c}
                     /\ Agree(runnable[c], queued[c])
BY DEF RunQueueExact, Agree

\* Untrack keeps the types of the indexes.
LEMMA UntrackType ==
    ASSUME TypeOK, NEW W \in SUBSET Pid, Untrack(W)
    PROVE  /\ blocked_files' \subseteq Pid
           /\ blocked_timers' \in [Deadline -> SUBSET Pid]
           /\ next_timer_deadline' \in Deadline \cup {NoDeadline}
  BY FirstDeadlineFact DEF Untrack, TypeOK

\* WakeAll makes W and E runnable and queues them; the rest is as given.
LEMMA WakeAllFact ==
    ASSUME TypeOK, NEW W \in SUBSET Pid, NEW E \in SUBSET Pid, NEW r, \A p \in W : r[p] \in Result,
           NEW st \in [Pid -> State],
           NEW rn \in [Cpu -> Seq(Pid)], NEW qd \in [Cpu -> SUBSET Pid],
           \A c \in Cpu : Agree(rn[c], qd[c]),
           WakeAll(W, r, E, st, rn, qd)
    PROVE  /\ state' = [p \in Pid |-> IF p \in W \cup E THEN "Runnable" ELSE st[p]]
           /\ state' \in [Pid -> State]
           /\ block' \in [Pid -> Block \cup {NoBlock}]
           /\ wake_result' \in [Pid -> Result \cup {"None"}]
           /\ blocked_files' \subseteq Pid
           /\ blocked_timers' \in [Deadline -> SUBSET Pid]
           /\ next_timer_deadline' \in Deadline \cup {NoDeadline}
           /\ runnable' \in [Cpu -> Seq(Pid)]
           /\ queued' = [c \in Cpu |-> qd[c] \cup {p \in W \cup E : assigned_cpu[p] = c}]
           /\ queued' \in [Cpu -> SUBSET Pid]
           /\ \A c \in Cpu : Agree(runnable'[c], queued'[c])
<1>1. state' = [p \in Pid |-> IF p \in W \cup E THEN "Runnable" ELSE st[p]]
   BY DEF WakeAll
<1>2. state' \in [Pid -> State] BY <1>1 DEF State
<1>3. block' \in [Pid -> Block \cup {NoBlock}] BY DEF WakeAll, TypeOK
<1>4. wake_result' \in [Pid -> Result \cup {"None"}] BY DEF WakeAll, TypeOK
<1>5. /\ blocked_files' \subseteq Pid
      /\ blocked_timers' \in [Deadline -> SUBSET Pid]
      /\ next_timer_deadline' \in Deadline \cup {NoDeadline}
   BY UntrackType DEF WakeAll
<1>6. EnqueueAll(W \cup E, assigned_cpu, rn, qd) BY DEF WakeAll
<1>7. W \cup E \in SUBSET Pid /\ assigned_cpu \in [Pid -> Cpu] BY DEF TypeOK
<1>8. /\ runnable' \in [Cpu -> Seq(Pid)]
      /\ queued' = [c \in Cpu |-> qd[c] \cup {p \in W \cup E : assigned_cpu[p] = c}]
      /\ \A c \in Cpu : Agree(runnable'[c], queued'[c])
   BY <1>6, <1>7, EnqueueFact
<1>9. queued' \in [Cpu -> SUBSET Pid] BY <1>8
<1> QED BY <1>1, <1>2, <1>3, <1>4, <1>5, <1>8, <1>9

\* Only the acting CPU's phase matters to the types of the other variables.
CpuTyped == current \in [Cpu -> Pid \cup {NoPid}] /\ phase \in [Cpu -> Phase]

\* A step makes a blocked process of the table runnable.
Woken(q) == q \in processes /\ state[q] = "Blocked" /\ state'[q] = "Runnable"

\* The queue filters qd hold the runnable processes of the table other than p.
HoldsOthers(qd, p) ==
    \A c \in Cpu, q \in Pid : q \in qd[c] <=> /\ q \in processes \ {p}
                                            /\ state[q] = "Runnable"
                                            /\ assigned_cpu[q] = c

\* Exit takes p out of the table for good, wakes blocked processes only, and
\* leaves the run queues exact, provided the queues it starts from hold the
\* runnable processes of the table other than p.
LEMMA ExitFact ==
    ASSUME TypeOK, SingleOwner,
           NEW p \in Pid, NEW begin \in BOOLEAN,
           NEW rn \in [Cpu -> Seq(Pid)], NEW qd \in [Cpu -> SUBSET Pid],
           \A c \in Cpu : Agree(rn[c], qd[c]),
           HoldsOthers(qd, p),
           Exit(p, begin, rn, qd)
    PROVE  /\ CpuTyped' => TypeOK'
           /\ RunQueueExact'
           /\ processes' = processes \ {p}
           /\ assigned_cpu' = assigned_cpu
           /\ state'[p] = "Exited"
           /\ \A q \in Pid \ {p} : state'[q] = state[q] \/ Woken(q)
<1> DEFINE g == thread_group[p]
           members == IF begin THEN (thread_groups[g] \ {p}) \cap processes ELSE {}
           evicted == {q \in members : state[q] = "Blocked"}
           others  == BlockedOn(KindsOfBlock \ {"File"}) \ (members \cup {p})
           st == [state EXCEPT ![p] = "Exited"]
<1>1. PICK woken \in SUBSET others : \E r \in [evicted \cup woken -> Result] :
      \E parent \in (processes \ {p}) \cup {NoPid} :
           /\ processes' = processes \ {p}
           /\ WakeAll(evicted \cup woken, r, members, [state EXCEPT ![p] = "Exited"], rn, qd)
           /\ thread_groups' = [thread_groups EXCEPT ![g] = @ \ {p}]
           /\ group_exit_status' =
                 IF thread_groups[g] \ {p} = {} THEN group_exit_status \ {g}
                 ELSE IF begin THEN group_exit_status \cup {g} ELSE group_exit_status
           /\ queued_signals' = queued_signals \ {p}
           /\ signals' = (signals \cup ({parent} \ {NoPid})) \ {p}
           /\ pending_syscall' = pending_syscall \ {p}
           /\ kernel_context' = [kernel_context EXCEPT ![p] = "None"]
           /\ UNCHANGED <<assigned_cpu, thread_group, now>>
   BY DEF Exit
<1>2. PICK r \in [evicted \cup woken -> Result], parent \in (processes \ {p}) \cup {NoPid} :
           /\ processes' = processes \ {p}
           /\ WakeAll(evicted \cup woken, r, members, [state EXCEPT ![p] = "Exited"], rn, qd)
           /\ thread_groups' = [thread_groups EXCEPT ![g] = @ \ {p}]
           /\ group_exit_status' =
                 IF thread_groups[g] \ {p} = {} THEN group_exit_status \ {g}
                 ELSE IF begin THEN group_exit_status \cup {g} ELSE group_exit_status
           /\ queued_signals' = queued_signals \ {p}
           /\ signals' = (signals \cup ({parent} \ {NoPid})) \ {p}
           /\ pending_syscall' = pending_syscall \ {p}
           /\ kernel_context' = [kernel_context EXCEPT ![p] = "None"]
           /\ UNCHANGED <<assigned_cpu, thread_group, now>>
   BY <1>1
<1>3. /\ members \subseteq processes \ {p} /\ members \subseteq Pid
      /\ evicted \cup woken \subseteq processes \ {p} /\ evicted \cup woken \subseteq Pid
      /\ \A q \in evicted \cup woken : state[q] = "Blocked"
      /\ \A q \in members : q \in evicted \/ state[q] = "Runnable"
      /\ st \in [Pid -> State]
   BY DEF TypeOK, SingleOwner, BlockedOn, State
<1>4. \A q \in evicted \cup woken : r[q] \in Result BY <1>2
<1> DEFINE W == evicted \cup woken
<1>5. /\ state' = [q \in Pid |-> IF q \in W \cup members THEN "Runnable" ELSE st[q]]
      /\ state' \in [Pid -> State]
      /\ block' \in [Pid -> Block \cup {NoBlock}]
      /\ wake_result' \in [Pid -> Result \cup {"None"}]
      /\ blocked_files' \subseteq Pid
      /\ blocked_timers' \in [Deadline -> SUBSET Pid]
      /\ next_timer_deadline' \in Deadline \cup {NoDeadline}
      /\ runnable' \in [Cpu -> Seq(Pid)]
      /\ queued' = [c \in Cpu |-> qd[c] \cup {q \in W \cup members : assigned_cpu[q] = c}]
      /\ queued' \in [Cpu -> SUBSET Pid]
      /\ \A c \in Cpu : Agree(runnable'[c], queued'[c])
  <2> HIDE DEF members, evicted, W
  <2>1. W \in SUBSET Pid /\ members \in SUBSET Pid /\ (\A q \in W : r[q] \in Result)
     BY <1>3, <1>4 DEF W
  <2>2. WakeAll(W, r, members, st, rn, qd) BY <1>2 DEF W
  <2> HIDE DEF st
  <2>3. st \in [Pid -> State] BY <1>3
  <2> QED BY <2>1, <2>2, <2>3, WakeAllFact
<1>6. assigned_cpu' = assigned_cpu /\ processes' = processes \ {p} BY <1>2
<1> DEFINE M == W \cup members
<1>7. /\ M \subseteq processes \ {p} /\ M \subseteq Pid
      /\ \A q \in M : state[q] \in {"Blocked", "Runnable"}
   BY <1>3
<1>8. state'[p] = "Exited" /\ \A q \in Pid \ {p} : state'[q] = IF q \in M THEN "Runnable" ELSE state[q]
  <2> HIDE DEF W, members, M
  <2>1. st[p] = "Exited" /\ \A q \in Pid \ {p} : st[q] = state[q] BY DEF TypeOK
  <2> HIDE DEF st
  <2>2. p \notin M BY <1>7
  <2>3. state' = [q \in Pid |-> IF q \in M THEN "Runnable" ELSE st[q]] BY <1>5 DEF M
  <2> QED BY <2>1, <2>2, <2>3
<1>9. \A q \in Pid \ {p} : state'[q] = state[q] \/ Woken(q)
  <2> HIDE DEF M
  <2> QED BY <1>7, <1>8 DEF Woken
<1>10. RunQueueExact'
  <2> HIDE DEF W, members, M, st
  <2>1. queued' = [c \in Cpu |-> qd[c] \cup {q \in M : assigned_cpu[q] = c}] BY <1>5 DEF M
  <2>2. ASSUME NEW c \in Cpu
        PROVE  queued'[c] = {q \in processes' : state'[q] = "Runnable" /\ assigned_cpu'[q] = c}
    BY <2>1, <1>6, <1>7, <1>8 DEF HoldsOthers, TypeOK
  <2> QED BY <2>2, <1>5 DEF RunQueueExact, Agree
<1>11. CpuTyped' => TypeOK'
  <2> HIDE DEF W, members, M, st
  <2>1. /\ processes' \subseteq Pid /\ thread_groups' \in [Pid -> SUBSET Pid]
        /\ group_exit_status' \subseteq Pid /\ queued_signals' \subseteq Pid
        /\ pending_syscall' \subseteq Pid
        /\ kernel_context' \in [Pid -> Kind \cup {"None", "Active"}]
        /\ assigned_cpu' \in [Pid -> Cpu] /\ thread_group' \in [Pid -> Pid]
        /\ now' \in 0..MaxTime
     BY <1>2 DEF TypeOK
  <2>2. signals' \subseteq Pid BY <1>2 DEF TypeOK
  <2> QED BY <2>1, <2>2, <1>5 DEF TypeOK, CpuTyped
<1> QED BY <1>6, <1>8, <1>9, <1>10, <1>11

\* A process a CPU holds is running, on that CPU, and not in the table.
LEMMA HeldFact ==
    ASSUME OwnerInv, NEW c \in Cpu, phase[c] \in {"taken", "user", "kernel"}
    PROVE  /\ current[c] \in Pid /\ state[current[c]] = "Running"
           /\ current[c] \notin processes /\ assigned_cpu[current[c]] = c
           /\ \A d \in Cpu : current[c] \notin queued[d]
           /\ \A d \in Cpu : Holds(d, current[c]) => d = c
BY DEF OwnerInv, TypeOK, SingleOwner, RunQueueExact, HeldIsPid, Holds

\* The queues without their head hold the other runnable processes.
LEMMA TakenFact ==
    ASSUME OwnerInv, NEW c \in Cpu, Taking(c)
    PROVE  /\ NextPid(c) \in Pid /\ NextPid(c) \in processes
           /\ state[NextPid(c)] = "Runnable" /\ InPlace(c)
           /\ DequeuedRunnable(c) \in [Cpu -> Seq(Pid)]
           /\ DequeuedQueued(c) \in [Cpu -> SUBSET Pid]
           /\ \A d \in Cpu : Agree(DequeuedRunnable(c)[d], DequeuedQueued(c)[d])
           /\ \A d \in Cpu : DequeuedQueued(c)[d] =
                 {q \in processes \ {NextPid(c)} : state[q] = "Runnable" /\ assigned_cpu[q] = d}
<1>1. TypeOK /\ RunQueueExact BY DEF OwnerInv
<1>2. runnable[c] # <<>> BY DEF Taking
<1>3. \A d \in Cpu : /\ queued[d] = {p \in processes : state[p] = "Runnable" /\ assigned_cpu[p] = d}
                     /\ Agree(runnable[d], queued[d])
   BY <1>1, RunQueueAgree
<1>4. /\ NextPid(c) \in Pid /\ NextPid(c) \in queued[c]
      /\ DequeuedRunnable(c) \in [Cpu -> Seq(Pid)]
      /\ DequeuedQueued(c) \in [Cpu -> SUBSET Pid]
      /\ \A d \in Cpu : Agree(DequeuedRunnable(c)[d], DequeuedQueued(c)[d])
      /\ \A d \in Cpu : DequeuedQueued(c)[d] = IF d = c THEN queued[c] \ {NextPid(c)}
                                                ELSE queued[d]
   BY <1>1, <1>2, <1>3, DequeueFact
<1>5. /\ NextPid(c) \in processes /\ state[NextPid(c)] = "Runnable"
      /\ assigned_cpu[NextPid(c)] = c
   BY <1>3, <1>4
<1> QED BY <1>3, <1>4, <1>5 DEF InPlace

\* Reaping the head of the queue.
LEMMA TakeExitOwner ==
    ASSUME OwnerInv, NEW c \in Cpu, Taking(c), NEW begin \in BOOLEAN,
           Exit(NextPid(c), begin, DequeuedRunnable(c), DequeuedQueued(c)), UNCHANGED cpuVars
    PROVE  OwnerInv'
<1> DEFINE p == NextPid(c)
<1>1. /\ p \in Pid /\ p \in processes /\ state[p] = "Runnable"
      /\ DequeuedRunnable(c) \in [Cpu -> Seq(Pid)] /\ DequeuedQueued(c) \in [Cpu -> SUBSET Pid]
      /\ \A d \in Cpu : Agree(DequeuedRunnable(c)[d], DequeuedQueued(c)[d])
      /\ \A d \in Cpu : DequeuedQueued(c)[d] =
            {q \in processes \ {p} : state[q] = "Runnable" /\ assigned_cpu[q] = d}
   BY TakenFact
<1>2. TypeOK /\ SingleOwner BY DEF OwnerInv
<1> HIDE DEF p
<1>2a. Exit(p, begin, DequeuedRunnable(c), DequeuedQueued(c)) BY DEF p
<1>2b. HoldsOthers(DequeuedQueued(c), p) BY <1>1 DEF HoldsOthers
<1>3. /\ CpuTyped' => TypeOK'
      /\ RunQueueExact'
      /\ processes' = processes \ {p}
      /\ assigned_cpu' = assigned_cpu
      /\ state'[p] = "Exited"
      /\ \A q \in Pid \ {p} : state'[q] = state[q] \/ Woken(q)
   BY <1>1, <1>2, <1>2a, <1>2b, ExitFact
<1>4. CpuTyped' BY <1>2 DEF CpuTyped, TypeOK, cpuVars
<1>5. HeldIsPid' BY DEF OwnerInv, HeldIsPid, cpuVars
<1>6. SingleOwner' BY <1>1, <1>2, <1>3 DEF SingleOwner, Holds, Woken, cpuVars
<1> QED BY <1>3, <1>4, <1>5, <1>6 DEF OwnerInv

\* Reaping the process a CPU holds.
LEMMA FinishExitOwner ==
    ASSUME OwnerInv, NEW c \in Cpu, phase[c] \in {"user", "kernel"}, NEW begin \in BOOLEAN,
           Exit(current[c], begin, runnable, queued),
           phase' = [phase EXCEPT ![c] = "reset"], current' = current
    PROVE  OwnerInv'
<1> DEFINE p == current[c]
<1>1. /\ p \in Pid /\ state[p] = "Running" /\ p \notin processes /\ assigned_cpu[p] = c
      /\ \A d \in Cpu : Holds(d, p) => d = c
   BY HeldFact
<1>2. TypeOK /\ SingleOwner /\ RunQueueExact BY DEF OwnerInv
<1>3. /\ runnable \in [Cpu -> Seq(Pid)] /\ queued \in [Cpu -> SUBSET Pid] BY <1>2 DEF TypeOK
<1>4. \A d \in Cpu : /\ queued[d] = {q \in processes \ {p} : state[q] = "Runnable" /\ assigned_cpu[q] = d}
                     /\ Agree(runnable[d], queued[d])
   BY <1>1, <1>2, RunQueueAgree
<1> HIDE DEF p
<1>4a. Exit(p, begin, runnable, queued) BY DEF p
<1>4b. HoldsOthers(queued, p) BY <1>4 DEF HoldsOthers
<1>5. /\ CpuTyped' => TypeOK'
      /\ RunQueueExact'
      /\ processes' = processes \ {p}
      /\ assigned_cpu' = assigned_cpu
      /\ state'[p] = "Exited"
      /\ \A q \in Pid \ {p} : state'[q] = state[q] \/ Woken(q)
   BY <1>1, <1>2, <1>3, <1>4, <1>4a, <1>4b, ExitFact
<1>6. CpuTyped' BY <1>2 DEF CpuTyped, TypeOK, Phase
<1>7. \A d \in Cpu : phase'[d] = IF d = c THEN "reset" ELSE phase[d] BY <1>2 DEF TypeOK
<1>8. HeldIsPid' BY <1>7 DEF OwnerInv, HeldIsPid
<1>9. SingleOwner' BY <1>1, <1>2, <1>5, <1>7 DEF SingleOwner, Holds, Woken, p
<1> QED BY <1>5, <1>6, <1>8, <1>9 DEF OwnerInv

\* Waking blocked processes, nothing else changing.
LEMMA WakeOwner ==
    ASSUME OwnerInv, NEW W \in SUBSET BlockedOn(KindsOfBlock), NEW r,
           \A p \in W : r[p] \in Result,
           WakeAll(W, r, {}, state, runnable, queued),
           UNCHANGED <<processes, assigned_cpu, thread_group, groupVars, cpuVars, now,
                       pending_syscall, kernel_context>>,
           signals' \subseteq Pid, queued_signals' \subseteq Pid
    PROVE  OwnerInv'
<1>1. TypeOK /\ SingleOwner /\ RunQueueExact /\ HeldIsPid BY DEF OwnerInv
<1>2. /\ W \in SUBSET Pid /\ \A p \in W : p \in processes /\ state[p] = "Blocked"
   BY <1>1 DEF BlockedOn, TypeOK
<1>3. /\ runnable \in [Cpu -> Seq(Pid)] /\ queued \in [Cpu -> SUBSET Pid]
      /\ state \in [Pid -> State] /\ {} \in SUBSET Pid
   BY <1>1 DEF TypeOK
<1>4. \A d \in Cpu : /\ queued[d] = {q \in processes : state[q] = "Runnable" /\ assigned_cpu[q] = d}
                     /\ Agree(runnable[d], queued[d])
   BY <1>1, RunQueueAgree
<1>5. /\ state' = [p \in Pid |-> IF p \in W \cup {} THEN "Runnable" ELSE state[p]]
      /\ state' \in [Pid -> State]
      /\ block' \in [Pid -> Block \cup {NoBlock}]
      /\ wake_result' \in [Pid -> Result \cup {"None"}]
      /\ blocked_files' \subseteq Pid
      /\ blocked_timers' \in [Deadline -> SUBSET Pid]
      /\ next_timer_deadline' \in Deadline \cup {NoDeadline}
      /\ runnable' \in [Cpu -> Seq(Pid)]
      /\ queued' = [c \in Cpu |-> queued[c] \cup {p \in W \cup {} : assigned_cpu[p] = c}]
      /\ queued' \in [Cpu -> SUBSET Pid]
      /\ \A c \in Cpu : Agree(runnable'[c], queued'[c])
   BY <1>1, <1>2, <1>3, <1>4, WakeAllFact
<1>6. TypeOK' BY <1>1, <1>5 DEF TypeOK, groupVars, cpuVars
<1>7. HeldIsPid' BY <1>1 DEF HeldIsPid, cpuVars
<1>8. SingleOwner' BY <1>1, <1>2, <1>5 DEF SingleOwner, Holds, cpuVars, TypeOK
<1>9. ASSUME NEW d \in Cpu
      PROVE  queued'[d] = {q \in processes' : state'[q] = "Runnable" /\ assigned_cpu'[q] = d}
  BY <1>5, <1>1, <1>2, <1>4 DEF TypeOK
<1>10. RunQueueExact' BY <1>5, <1>9 DEF RunQueueExact, Agree
<1> QED BY <1>6, <1>7, <1>8, <1>10 DEF OwnerInv

\* Giving the held process back as Runnable.
LEMMA RequeueOwner ==
    ASSUME OwnerInv, NEW c \in Cpu, phase[c] \in {"user", "kernel"},
           RequeueRunnable(c, current[c]), UNCHANGED <<assigned_cpu, current>>
    PROVE  /\ SingleOwner' /\ RunQueueExact' /\ HeldIsPid'
           /\ processes' \subseteq Pid /\ state' \in [Pid -> State]
           /\ runnable' \in [Cpu -> Seq(Pid)] /\ queued' \in [Cpu -> SUBSET Pid]
           /\ phase' \in [Cpu -> Phase]
<1> DEFINE p == current[c]
<1>1. /\ p \in Pid /\ state[p] = "Running" /\ p \notin processes /\ assigned_cpu[p] = c
      /\ \A d \in Cpu : Holds(d, p) => d = c
   BY HeldFact
<1>2. TypeOK /\ SingleOwner /\ RunQueueExact /\ HeldIsPid BY DEF OwnerInv
<1> HIDE DEF p
<1>3. /\ processes' = processes \cup {p}
      /\ \A q \in Pid : state'[q] = IF q = p THEN "Runnable" ELSE state[q]
      /\ \A d \in Cpu : phase'[d] = IF d = c THEN "reset" ELSE phase[d]
      /\ state' \in [Pid -> State] /\ phase' \in [Cpu -> Phase]
      /\ EnqueueAll({p}, assigned_cpu, runnable, queued)
   BY <1>2 DEF RequeueRunnable, TypeOK, State, Phase, p
<1>4. \A d \in Cpu : /\ queued[d] = {q \in processes : state[q] = "Runnable" /\ assigned_cpu[q] = d}
                     /\ Agree(runnable[d], queued[d])
   BY <1>2, RunQueueAgree
<1>5. /\ runnable \in [Cpu -> Seq(Pid)] /\ queued \in [Cpu -> SUBSET Pid]
      /\ assigned_cpu \in [Pid -> Cpu] /\ {p} \in SUBSET Pid /\ processes \subseteq Pid
   BY <1>1, <1>2 DEF TypeOK
<1>6. /\ runnable' \in [Cpu -> Seq(Pid)]
      /\ queued' = [d \in Cpu |-> queued[d] \cup {q \in {p} : assigned_cpu[q] = d}]
      /\ \A d \in Cpu : Agree(runnable'[d], queued'[d])
   BY <1>3, <1>4, <1>5, EnqueueFact
<1>7. ASSUME NEW d \in Cpu
      PROVE  queued'[d] = {q \in processes' : state'[q] = "Runnable" /\ assigned_cpu'[q] = d}
  <2>1. queued'[d] = IF d = c THEN queued[d] \cup {p} ELSE queued[d] BY <1>6, <1>1
  <2>2. assigned_cpu' = assigned_cpu OBVIOUS
  <2>3. ASSUME NEW q \in Pid
        PROVE  q \in queued'[d] <=>
                  q \in processes' /\ state'[q] = "Runnable" /\ assigned_cpu'[q] = d
    BY <2>1, <2>2, <1>1, <1>3, <1>4
  <2>4. queued'[d] \subseteq Pid /\ processes' \subseteq Pid BY <2>1, <1>1, <1>3, <1>5
  <2> QED BY <2>3, <2>4
<1>8. RunQueueExact' BY <1>6, <1>7 DEF RunQueueExact, Agree
<1>9. SingleOwner' BY <1>1, <1>2, <1>3 DEF SingleOwner, Holds, p
<1>10. HeldIsPid' BY <1>2, <1>3 DEF HeldIsPid
<1> QED BY <1>3, <1>5, <1>6, <1>1, <1>8, <1>9, <1>10

\* Every process has one place at first.
LEMMA OwnerInit == Init => OwnerInv
<1> SUFFICES ASSUME Init PROVE OwnerInv OBVIOUS
<1>0. PICK boot \in Cpu :
          /\ assigned_cpu = [p \in Pid |-> boot]
          /\ runnable = [c \in Cpu |-> IF c = boot THEN <<InitPid>> ELSE <<>>]
          /\ queued = [c \in Cpu |-> IF c = boot THEN {InitPid} ELSE {}]
   BY DEF Init
<1>1. InitPid \in Pid BY PidAssumption
<1>2. TypeOK
  BY <1>0, <1>1, TimeAssumption DEF Init, State, Phase, TypeOK
<1>3. SingleOwner BY <1>1 DEF Init, SingleOwner, Holds
<1>4. HeldIsPid BY DEF Init, HeldIsPid
<1>5. RunQueueExact
  BY <1>0, <1>1 DEF Init, Agree, RunQueueExact
<1> QED BY <1>2, <1>3, <1>4, <1>5 DEF OwnerInv

\* The steps of take_next_process_for_pid.
LEMMA TakeOwner == ASSUME OwnerInv, NEW c \in Cpu, Take(c) PROVE OwnerInv'
<1>0. Taking(c) BY DEF Take, TakeGroupExit, TakeFatalSignal, TakeStop, TakeDispatch
<1>1. /\ NextPid(c) \in Pid /\ NextPid(c) \in processes
      /\ state[NextPid(c)] = "Runnable" /\ InPlace(c)
      /\ DequeuedRunnable(c) \in [Cpu -> Seq(Pid)]
      /\ DequeuedQueued(c) \in [Cpu -> SUBSET Pid]
      /\ \A d \in Cpu : Agree(DequeuedRunnable(c)[d], DequeuedQueued(c)[d])
      /\ \A d \in Cpu : DequeuedQueued(c)[d] =
            {q \in processes \ {NextPid(c)} : state[q] = "Runnable" /\ assigned_cpu[q] = d}
   BY <1>0, TakenFact
<1>2. TypeOK /\ SingleOwner /\ RunQueueExact /\ HeldIsPid BY DEF OwnerInv
<1>3. CASE TakeGroupExit(c)
   BY <1>3, <1>0, TakeExitOwner DEF TakeGroupExit
<1>4. CASE TakeFatalSignal(c)
  BY <1>4, <1>0, TakeExitOwner DEF IsThread, TakeFatalSignal
<1>5. CASE TakeStop(c)
  <2> DEFINE p == NextPid(c)
             st == [state EXCEPT ![p] = "Stopped"]
  <2>0. PICK W \in SUBSET (BlockedOn(KindsOfBlock \ {"File", "Vfork"}) \ {p}),
             parent \in (processes \ {p}) \cup {NoPid}, left \in BOOLEAN :
        \E r \in [W -> Result] :
           /\ signals' = ((signals \cup ({parent} \ {NoPid})) \ {p})
                            \cup (IF left THEN {p} ELSE {})
           /\ WakeAll(W, r, {}, [state EXCEPT ![p] = "Stopped"],
                      DequeuedRunnable(c), DequeuedQueued(c))
     BY <1>5 DEF TakeStop
  <2>1. PICK r \in [W -> Result] :
           /\ signals' = ((signals \cup ({parent} \ {NoPid})) \ {p})
                            \cup (IF left THEN {p} ELSE {})
           /\ WakeAll(W, r, {}, [state EXCEPT ![p] = "Stopped"],
                      DequeuedRunnable(c), DequeuedQueued(c))
     BY <2>0
  <2>2. /\ processes' = processes \ {p} /\ queued_signals' = queued_signals \ {p}
        /\ UNCHANGED <<pending_syscall, kernel_context, assigned_cpu, thread_group,
                       groupVars, cpuVars, now>>
     BY <1>5 DEF TakeStop
  <2>3. /\ p \in Pid /\ p \in processes /\ state[p] = "Runnable"
     BY <1>1
  <2>4. /\ W \in SUBSET Pid /\ {} \in SUBSET Pid /\ st \in [Pid -> State]
        /\ \A q \in W : r[q] \in Result
        /\ \A q \in W : q \in processes /\ state[q] = "Blocked" /\ q # p
     BY <1>2 DEF BlockedOn, TypeOK, State
  <2>5. WakeAll(W, r, {}, st, DequeuedRunnable(c), DequeuedQueued(c)) BY <2>1
  <2> HIDE DEF p, st
  <2>6. /\ state' = [q \in Pid |-> IF q \in W \cup {} THEN "Runnable" ELSE st[q]]
        /\ state' \in [Pid -> State]
        /\ block' \in [Pid -> Block \cup {NoBlock}]
        /\ wake_result' \in [Pid -> Result \cup {"None"}]
        /\ blocked_files' \subseteq Pid
        /\ blocked_timers' \in [Deadline -> SUBSET Pid]
        /\ next_timer_deadline' \in Deadline \cup {NoDeadline}
        /\ runnable' \in [Cpu -> Seq(Pid)]
        /\ queued' = [d \in Cpu |-> DequeuedQueued(c)[d] \cup {q \in W \cup {} : assigned_cpu[q] = d}]
        /\ queued' \in [Cpu -> SUBSET Pid]
        /\ \A d \in Cpu : Agree(runnable'[d], queued'[d])
     BY <1>1, <1>2, <2>4, <2>5, WakeAllFact
  <2>7. \A q \in Pid : state'[q] = IF q \in W THEN "Runnable"
                                  ELSE IF q = p THEN "Stopped" ELSE state[q]
     BY <2>6, <1>2 DEF st, TypeOK
  <2>8. TypeOK'
    BY <2>1, <2>3, <1>2, <2>2, <2>6 DEF TypeOK, groupVars, cpuVars
  <2>9. HeldIsPid' BY <2>2, <1>2 DEF HeldIsPid, cpuVars
  <2>10. SingleOwner' BY <2>2, <2>3, <2>4, <2>7, <1>2 DEF SingleOwner, Holds, cpuVars
  <2>11. ASSUME NEW d \in Cpu
         PROVE  queued'[d] = {q \in processes' : state'[q] = "Runnable" /\ assigned_cpu'[q] = d}
    BY <2>6, <1>1, <1>2, <2>2, <2>4, <2>7 DEF p, TypeOK
  <2> QED BY <2>6, <2>8, <2>9, <2>10, <2>11 DEF OwnerInv, RunQueueExact, Agree
<1>6. CASE TakeDispatch(c)
  <2> DEFINE p == NextPid(c)
  <2>1. /\ p \in Pid /\ p \in processes /\ state[p] = "Runnable" /\ InPlace(c)
        /\ assigned_cpu[p] = c
     BY <1>1 DEF InPlace
  <2>2. /\ processes' = processes \ {p}
        /\ state' = [state EXCEPT ![p] = "Running"]
        /\ current' = [current EXCEPT ![c] = p]
        /\ phase' = [phase EXCEPT ![c] = "taken"]
        /\ runnable' = DequeuedRunnable(c) /\ queued' = DequeuedQueued(c)
        /\ queued_signals' = queued_signals \ {p}
        /\ UNCHANGED <<block, wake_result, pending_syscall, kernel_context, assigned_cpu,
                   thread_group, groupVars, waitVars, now>>
     BY <1>6, <1>1 DEF TakeDispatch, Drained
  <2>3. signals' \subseteq Pid BY <1>6, <1>1, <1>2 DEF TakeDispatch, TypeOK
  <2>4. phase[c] = "loop" BY <1>0 DEF Taking
  <2> HIDE DEF p
  <2>5. TypeOK' BY <1>1, <1>2, <2>1, <2>2, <2>3 DEF TypeOK, State, Phase, groupVars, waitVars
  <2>6. HeldIsPid' BY <1>2, <2>1, <2>2 DEF HeldIsPid, TypeOK
  <2>7. SingleOwner'
    <3>1. /\ \A q \in Pid : state'[q] = IF q = p THEN "Running" ELSE state[q]
          /\ \A d \in Cpu : current'[d] = IF d = c THEN p ELSE current[d]
          /\ \A d \in Cpu : phase'[d] = IF d = c THEN "taken" ELSE phase[d]
       BY <1>2, <2>2 DEF TypeOK
    <3> QED BY <3>1, <1>2, <2>1, <2>2, <2>4 DEF SingleOwner, Holds
  <2>8. ASSUME NEW d \in Cpu
        PROVE  queued'[d] = {q \in processes' : state'[q] = "Runnable" /\ assigned_cpu'[q] = d}
    BY <2>2, <1>1, <1>2 DEF p, TypeOK
  <2>9. \A d \in Cpu : Agree(runnable'[d], queued'[d]) BY <2>2, <1>1
  <2> QED BY <2>5, <2>6, <2>7, <2>8, <2>9 DEF OwnerInv, RunQueueExact, Agree
<1> QED BY <1>3, <1>4, <1>5, <1>6 DEF Take

\* The results of a wake-up are results.
LEMMA ResultFact ==
    ASSUME NEW p
    PROVE  /\ EventResult(p) \in Result /\ TimeoutResult(p) \in Result
           /\ SignalResult(p) \in Result
BY DEF EventResult, TimeoutResult, SignalResult, Result

\* The steps of finish_process.
LEMMA LeaveUserOwner == ASSUME OwnerInv, NEW c \in Cpu, LeaveUser(c) PROVE OwnerInv'
<1>0. phase[c] = "user"
   BY DEF LeaveUser, FinishInterrupt, FinishPageFault, FinishFaultHandled, FinishFaultExit,
          FinishFaulted, EnterSyscall
<1>1. TypeOK /\ SingleOwner /\ RunQueueExact /\ HeldIsPid BY DEF OwnerInv
<1>2. /\ current[c] \in Pid /\ state[current[c]] = "Running"
      /\ current[c] \notin processes /\ assigned_cpu[current[c]] = c
      /\ \A d \in Cpu : Holds(d, current[c]) => d = c
   BY <1>0, HeldFact
<1>3. ASSUME RequeueRunnable(c, current[c]), signals' \subseteq Pid, queued_signals' \subseteq Pid,
             UNCHANGED <<block, wake_result, pending_syscall, kernel_context, assigned_cpu,
                         thread_group, groupVars, current, waitVars, now>>
      PROVE  OwnerInv'
  BY <1>0, <1>3, RequeueOwner, <1>1 DEF TypeOK, groupVars, waitVars, OwnerInv
<1>4. CASE FinishInterrupt(c) BY <1>1, <1>2, <1>3, <1>4 DEF FinishInterrupt, Merge, TypeOK
<1>5. CASE FinishPageFault(c) BY <1>1, <1>3, <1>5 DEF FinishPageFault, sigVars, TypeOK
<1>6. CASE FinishFaultHandled(c) BY <1>1, <1>2, <1>3, <1>6 DEF FinishFaultHandled, TypeOK
<1>7. CASE FinishFaultExit(c)
  BY <1>0, <1>7, FinishExitOwner DEF IsThread, FinishFaultExit
<1>8. CASE FinishFaulted(c)
  <2> DEFINE p == current[c]
  <2>1. /\ \A q \in Pid : state'[q] = IF q = p THEN "Faulted" ELSE state[q]
        /\ \A d \in Cpu : phase'[d] = IF d = c THEN "reset" ELSE phase[d]
        /\ UNCHANGED <<processes, assigned_cpu, current>>
     BY <1>1, <1>8 DEF FinishFaulted, TypeOK
  <2>2. /\ state' \in [Pid -> State] /\ phase' \in [Cpu -> Phase]
        /\ signals' \subseteq Pid /\ queued_signals' \subseteq Pid
     BY <1>1, <1>2, <1>8 DEF FinishFaulted, TypeOK, State, Phase, Merge
  <2>3. TypeOK' BY <2>2, <1>1, <1>8 DEF FinishFaulted, TypeOK, groupVars, queueVars, waitVars
  <2>4. HeldIsPid' BY <2>1, <1>1 DEF HeldIsPid
  <2>5. SingleOwner' BY <2>1, <1>1, <1>2 DEF SingleOwner, Holds
  <2>6. UNCHANGED queueVars BY <1>8 DEF FinishFaulted
  <2>7. ASSUME NEW d \in Cpu
        PROVE  queued'[d] = {q \in processes' : state'[q] = "Runnable" /\ assigned_cpu'[q] = d}
    BY <1>1, <2>1, <1>2, <2>6 DEF RunQueueExact, TypeOK, queueVars
  <2>8. RunQueueExact' BY <2>6, <2>7, <1>1 DEF RunQueueExact, queueVars
  <2> QED BY <2>3, <2>4, <2>5, <2>8 DEF OwnerInv
<1>9. CASE EnterSyscall(c)
  <2>1. \A d \in Cpu : phase'[d] = IF d = c THEN "kernel" ELSE phase[d]
     BY <1>1, <1>9 DEF EnterSyscall, TypeOK
  <2>2. UNCHANGED <<processes, state, assigned_cpu, current, queueVars>>
     BY <1>9 DEF EnterSyscall
  <2>3. TypeOK' BY <1>1, <1>2, <1>9
                DEF EnterSyscall, TypeOK, Phase, groupVars, sigVars, queueVars, waitVars
  <2>4. HeldIsPid' BY <2>1, <2>2, <1>0, <1>1 DEF HeldIsPid
  <2>5. \A d \in Cpu, q \in Pid : Holds(d, q)' <=> Holds(d, q)
     BY <2>1, <2>2, <1>0 DEF Holds
  <2>6. SingleOwner' BY <2>2, <2>5, <1>1 DEF SingleOwner
  <2>7. RunQueueExact' BY <2>2, <1>1 DEF RunQueueExact, queueVars
  <2> QED BY <2>3, <2>4, <2>6, <2>7 DEF OwnerInv
<1> QED BY <1>4, <1>5, <1>6, <1>7, <1>8, <1>9 DEF LeaveUser

\* The steps that end a system call's stretch of kernel mode.
LEMMA LeaveKernelOwner == ASSUME OwnerInv, NEW c \in Cpu, LeaveKernel(c) PROVE OwnerInv'
<1>0. phase[c] = "kernel"
   BY DEF LeaveKernel, FinishReturn, FinishExit, FinishKernelBlock
<1>1. TypeOK /\ SingleOwner /\ RunQueueExact /\ HeldIsPid BY DEF OwnerInv
<1>2. /\ current[c] \in Pid /\ state[current[c]] = "Running"
      /\ current[c] \notin processes /\ assigned_cpu[current[c]] = c
      /\ \A d \in Cpu : Holds(d, current[c]) => d = c
   BY <1>0, HeldFact
<1>3. CASE FinishReturn(c)
  <2>1. /\ SingleOwner' /\ RunQueueExact' /\ HeldIsPid'
        /\ processes' \subseteq Pid /\ state' \in [Pid -> State]
        /\ runnable' \in [Cpu -> Seq(Pid)] /\ queued' \in [Cpu -> SUBSET Pid]
        /\ phase' \in [Cpu -> Phase]
     BY <1>0, <1>3, RequeueOwner DEF FinishReturn
  <2>2. TypeOK' BY <2>1, <1>1, <1>3 DEF FinishReturn, TypeOK, groupVars, sigVars, waitVars
  <2> QED BY <2>1, <2>2 DEF OwnerInv
<1>4. ASSUME NEW group \in BOOLEAN, FinishExit(c, group) PROVE OwnerInv'
   BY <1>0, <1>4, FinishExitOwner DEF FinishExit
<1>5. ASSUME NEW b \in Block, NEW ready \in BOOLEAN, FinishKernelBlock(c, b, ready)
      PROVE  OwnerInv'
  <2>0. /\ processes' = processes \cup {current[c]}
        /\ kernel_context' \in [Pid -> Kind \cup {"None", "Active"}]
        /\ phase' = [phase EXCEPT ![c] = "reset"] /\ phase' \in [Cpu -> Phase]
        /\ UNCHANGED <<pending_syscall, assigned_cpu, thread_group, groupVars, sigVars,
                       current, now>>
     BY <1>1, <1>5 DEF FinishKernelBlock, Block, TypeOK, Phase
  <2>1. CASE ready
    <3>1. RequeueRunnable(c, current[c]) BY <2>0, <2>1, <1>5 DEF FinishKernelBlock, RequeueRunnable
    <3>2. /\ SingleOwner' /\ RunQueueExact' /\ HeldIsPid'
          /\ processes' \subseteq Pid /\ state' \in [Pid -> State]
          /\ runnable' \in [Cpu -> Seq(Pid)] /\ queued' \in [Cpu -> SUBSET Pid]
       BY <1>0, <2>0, <3>1, RequeueOwner
    <3>3. /\ block' \in [Pid -> Block \cup {NoBlock}]
          /\ wake_result' \in [Pid -> Result \cup {"None"}]
          /\ UNCHANGED waitVars
       BY <1>1, <1>5, <2>1 DEF FinishKernelBlock, TypeOK, Result
    <3>4. TypeOK' BY <3>2, <3>3, <2>0, <1>1 DEF TypeOK, groupVars, sigVars, waitVars
    <3> QED BY <3>2, <3>4 DEF OwnerInv
  <2>2. CASE ~ready
    <3>1. /\ state' = [state EXCEPT ![current[c]] = "Blocked"]
          /\ block' = [block EXCEPT ![current[c]] = b]
          /\ wake_result' = [wake_result EXCEPT ![current[c]] = "None"]
          /\ Track(current[c], b) /\ UNCHANGED queueVars
       BY <1>5, <2>2 DEF FinishKernelBlock
    <3>2. b.deadline \in Deadline \cup {NoDeadline} BY DEF Block
    <3>3. /\ blocked_files' \subseteq Pid /\ blocked_timers' \in [Deadline -> SUBSET Pid]
          /\ next_timer_deadline' \in Deadline \cup {NoDeadline}
       BY <3>1, <3>2, <1>1, <1>2 DEF Track, TypeOK
    <3>4. /\ state' \in [Pid -> State] /\ block' \in [Pid -> Block \cup {NoBlock}]
          /\ wake_result' \in [Pid -> Result \cup {"None"}] /\ processes' \subseteq Pid
       BY <3>1, <2>0, <1>1, <1>2 DEF TypeOK, State
    <3>5. TypeOK' BY <3>1, <3>3, <3>4, <2>0, <1>1 DEF TypeOK, groupVars, sigVars, queueVars
    <3>6. /\ \A q \in Pid : state'[q] = IF q = current[c] THEN "Blocked" ELSE state[q]
          /\ \A d \in Cpu : phase'[d] = IF d = c THEN "reset" ELSE phase[d]
       BY <3>1, <2>0, <1>1 DEF TypeOK
    <3>7. HeldIsPid' BY <3>6, <2>0, <1>1 DEF HeldIsPid
    <3>8. SingleOwner' BY <3>6, <2>0, <1>1, <1>2 DEF SingleOwner, Holds
    <3>9. ASSUME NEW d \in Cpu
          PROVE  queued'[d] = {q \in processes' : state'[q] = "Runnable" /\ assigned_cpu'[q] = d}
      BY <1>1, <3>1, <3>6, <2>0, <1>2 DEF RunQueueExact, TypeOK, queueVars
    <3>10. RunQueueExact' BY <3>1, <3>9, <1>1 DEF RunQueueExact, queueVars
    <3> QED BY <3>5, <3>7, <3>8, <3>10 DEF OwnerInv
  <2> QED BY <2>1, <2>2
<1> QED BY <1>3, <1>4, <1>5 DEF LeaveKernel

\* The steps that publish and withdraw what a CPU runs.
LEMMA CurrentOwner ==
    ASSUME OwnerInv, NEW c \in Cpu, SetCurrent(c) \/ ResetCurrent(c)
    PROVE  OwnerInv'
<1>1. TypeOK /\ SingleOwner /\ RunQueueExact /\ HeldIsPid BY DEF OwnerInv
<1>2. UNCHANGED <<processes, state, assigned_cpu, queueVars>>
   BY DEF SetCurrent, ResetCurrent, procVars
<1>3. RunQueueExact' BY <1>1, <1>2 DEF RunQueueExact, queueVars
<1>4. CASE SetCurrent(c)
  <2>1. current' = current /\ phase[c] = "taken" BY <1>4 DEF SetCurrent
  <2>2. \A d \in Cpu : d # c => phase'[d] = phase[d] BY <1>1, <1>4 DEF SetCurrent, TypeOK
  <2>3. phase'[c] \in {"user", "kernel"} /\ phase' \in [Cpu -> Phase]
     BY <1>1, <1>4 DEF SetCurrent, TypeOK, Phase
  <2>4. TypeOK'
    <3>1. /\ kernel_context' \in [Pid -> Kind \cup {"None", "Active"}]
          /\ wake_result' \in [Pid -> Result \cup {"None"}]
       BY <1>1, <1>4 DEF SetCurrent, TypeOK
    <3> QED BY <3>1, <2>1, <2>3, <1>1, <1>4
            DEF SetCurrent, TypeOK, groupVars, sigVars, queueVars, waitVars
  <2>5. HeldIsPid' BY <2>1, <2>2, <2>3, <1>1 DEF HeldIsPid
  <2>6. \A d \in Cpu, q \in Pid : Holds(d, q)' <=> Holds(d, q)
     BY <2>1, <2>2, <2>3 DEF Holds
  <2>7. SingleOwner' BY <2>6, <1>1, <1>2 DEF SingleOwner
  <2> QED BY <2>4, <2>5, <2>7, <1>3 DEF OwnerInv
<1>5. CASE ResetCurrent(c)
  <2>1. /\ phase[c] = "reset"
        /\ \A d \in Cpu : phase'[d] = IF d = c THEN "loop" ELSE phase[d]
        /\ \A d \in Cpu : d # c => current'[d] = current[d]
     BY <1>1, <1>5 DEF ResetCurrent, TypeOK
  <2>2. TypeOK'
     BY <1>1, <1>5 DEF ResetCurrent, TypeOK, Phase, procVars, groupVars, sigVars, queueVars, waitVars
  <2>3. HeldIsPid' BY <2>1, <1>1 DEF HeldIsPid
  <2>4. \A d \in Cpu, q \in Pid : Holds(d, q)' <=> Holds(d, q) BY <2>1 DEF Holds
  <2>5. SingleOwner' BY <2>4, <1>1, <1>2 DEF SingleOwner
  <2> QED BY <2>2, <2>3, <2>5, <1>3 DEF OwnerInv
<1> QED BY <1>4, <1>5

\* insert_cloned_process adds a process no one has seen.
LEMMA CloneOwner ==
    ASSUME OwnerInv, NEW c \in Cpu, NEW child \in Pid, NEW thread \in BOOLEAN, NEW cpu \in Cpu,
           CloneProcess(c, child, thread, cpu)
    PROVE  OwnerInv'
<1> DEFINE on == [assigned_cpu EXCEPT ![child] = cpu]
<1>1. TypeOK /\ SingleOwner /\ RunQueueExact /\ HeldIsPid BY DEF OwnerInv
<1>2. /\ state[child] = "Unborn" /\ processes' = processes \cup {child}
      /\ \A q \in Pid : state'[q] = IF q = child THEN "Runnable" ELSE state[q]
      /\ \A q \in Pid : assigned_cpu'[q] = IF q = child THEN cpu ELSE assigned_cpu[q]
      /\ assigned_cpu' = on /\ on \in [Pid -> Cpu]
      /\ EnqueueAll({child}, on, runnable, queued)
      /\ UNCHANGED cpuVars /\ phase[c] = "kernel"
   BY <1>1 DEF CloneProcess, TypeOK
<1>3. \A d \in Cpu : ~Holds(d, child) BY <1>1, <1>2 DEF SingleOwner
<1>4. /\ current[c] \in Pid BY <1>2, HeldFact
<1>5. child \notin processes BY <1>1, <1>2 DEF SingleOwner
<1>6. \A d \in Cpu : /\ queued[d] = {q \in processes : state[q] = "Runnable" /\ assigned_cpu[q] = d}
                     /\ Agree(runnable[d], queued[d])
   BY <1>1, RunQueueAgree
<1>7. /\ runnable \in [Cpu -> Seq(Pid)] /\ queued \in [Cpu -> SUBSET Pid]
      /\ {child} \in SUBSET Pid /\ processes \subseteq Pid
   BY <1>1 DEF TypeOK
<1> HIDE DEF on
<1>8. /\ runnable' \in [Cpu -> Seq(Pid)]
      /\ queued' = [d \in Cpu |-> queued[d] \cup {q \in {child} : on[q] = d}]
      /\ \A d \in Cpu : Agree(runnable'[d], queued'[d])
   BY <1>2, <1>6, <1>7, EnqueueFact
<1>9. TypeOK'
  <2>1. /\ state' \in [Pid -> State] /\ thread_group' \in [Pid -> Pid]
        /\ thread_groups' \in [Pid -> SUBSET Pid]
     BY <1>1, <1>4 DEF CloneProcess, TypeOK, State
  <2>2. queued' \in [Cpu -> SUBSET Pid] BY <1>7, <1>8
  <2>3. assigned_cpu' \in [Pid -> Cpu] /\ processes' \subseteq Pid BY <1>2, <1>7
  <2> QED BY <2>1, <2>2, <2>3, <1>1, <1>8 DEF CloneProcess, TypeOK, sigVars, cpuVars, waitVars
<1>10. HeldIsPid' BY <1>1, <1>2 DEF HeldIsPid, cpuVars
<1>11. SingleOwner'
  BY <1>2, <1>1, <1>3 DEF Holds, cpuVars, SingleOwner
<1>12. ASSUME NEW d \in Cpu
       PROVE  queued'[d] = {q \in processes' : state'[q] = "Runnable" /\ assigned_cpu'[q] = d}
  <2>1. queued'[d] = IF d = cpu THEN queued[d] \cup {child} ELSE queued[d] BY <1>2, <1>8
  <2>2. ASSUME NEW q \in Pid
        PROVE  q \in queued'[d] <=>
                  q \in processes' /\ state'[q] = "Runnable" /\ assigned_cpu'[q] = d
    BY <2>1, <1>2, <1>5, <1>6
  <2>3. queued'[d] \subseteq Pid /\ processes' \subseteq Pid BY <2>1, <1>2, <1>7
  <2> QED BY <2>2, <2>3
<1> QED BY <1>8, <1>9, <1>10, <1>11, <1>12 DEF OwnerInv, RunQueueExact, Agree

\* The steps that wake processes.
LEMMA WakersOwner ==
    ASSUME OwnerInv, NEW c \in Cpu,
           \/ \E p \in Pid : SendSignal(c, p)
           \/ WakeBlocked(c) \/ WakeReadyFileBlocks(c)
           \/ \E current_nanos \in 0..MaxTime : WakeExpiredTimers(c, current_nanos)
    PROVE  OwnerInv'
<1>1. TypeOK /\ SingleOwner /\ RunQueueExact /\ HeldIsPid BY DEF OwnerInv
<1>2. ASSUME NEW p \in Pid, SendSignal(c, p) PROVE OwnerInv'
  <2>1. CASE p \in processes
    <3>1. PICK deliverable \in BOOLEAN :
             LET W == {q \in {p} : deliverable} \cap
                         BlockedOn({"SignalSuspend", "Timer", "Poll", "Futex"})
             IN  WakeAll(W, [q \in W |-> SignalResult(q)], {}, state, runnable, queued)
       BY <1>2, <2>1 DEF SendSignal
    <3> DEFINE W == {q \in {p} : deliverable} \cap
                       BlockedOn({"SignalSuspend", "Timer", "Poll", "Futex"})
               r == [q \in W |-> SignalResult(q)]
    <3>2. WakeAll(W, r, {}, state, runnable, queued) BY <3>1
    <3>3. W \in SUBSET BlockedOn(KindsOfBlock) BY DEF BlockedOn, KindsOfBlock
    <3>4. \A q \in W : r[q] \in Result BY ResultFact
    <3> HIDE DEF W, r
    <3>5. /\ UNCHANGED <<processes, assigned_cpu, thread_group, groupVars, cpuVars, now,
                         pending_syscall, kernel_context>>
          /\ signals' \subseteq Pid /\ queued_signals' \subseteq Pid
       BY <1>1, <1>2, <2>1 DEF SendSignal, TypeOK
    <3> QED BY <3>2, <3>3, <3>4, <3>5, WakeOwner
  <2>2. CASE p \notin processes
    <3>1. /\ UNCHANGED <<processes, state, block, wake_result, pending_syscall, kernel_context,
                         assigned_cpu, thread_group, groupVars, signals, queueVars, cpuVars,
                         waitVars, now>>
          /\ queued_signals' \subseteq Pid
       BY <1>1, <1>2, <2>2 DEF SendSignal, TypeOK
    <3>2. TypeOK' BY <3>1, <1>1 DEF TypeOK, groupVars, queueVars, cpuVars, waitVars
    <3>3. SingleOwner' /\ RunQueueExact' /\ HeldIsPid'
       BY <3>1, <1>1 DEF SingleOwner, RunQueueExact, HeldIsPid, Holds, queueVars, cpuVars
    <3> QED BY <3>2, <3>3 DEF OwnerInv
  <2> QED BY <2>1, <2>2
<1>3. ASSUME NEW K \in SUBSET KindsOfBlock, NEW W \in SUBSET BlockedOn(K),
             WakeAll(W, [q \in W |-> EventResult(q)], {}, state, runnable, queued),
             UNCHANGED <<processes, pending_syscall, kernel_context, assigned_cpu, thread_group,
                         groupVars, sigVars, cpuVars, now>>
      PROVE  OwnerInv'
  <2> DEFINE r == [q \in W |-> EventResult(q)]
  <2>1. \A q \in W : r[q] \in Result BY ResultFact
  <2>2. W \in SUBSET BlockedOn(KindsOfBlock) BY DEF BlockedOn
  <2>3. WakeAll(W, r, {}, state, runnable, queued) BY <1>3
  <2>4. signals' \subseteq Pid /\ queued_signals' \subseteq Pid BY <1>1, <1>3 DEF TypeOK, sigVars
  <2> HIDE DEF r
  <2> QED BY <2>1, <2>2, <2>3, <2>4, <1>3, WakeOwner
<1>4. CASE WakeBlocked(c)
  BY <1>4, <1>3 DEF WakeBlocked, KindsOfBlock
<1>5. CASE WakeReadyFileBlocks(c)
  BY <1>5, <1>3 DEF WakeReadyFileBlocks, KindsOfBlock
<1>6. ASSUME NEW n \in 0..MaxTime, WakeExpiredTimers(c, n) PROVE OwnerInv'
  <2> DEFINE expired == UNION {blocked_timers[d] : d \in {e \in Deadline : e <= n}}
             W == expired \cap BlockedOn({"Timer", "Futex", "Poll"})
  <2>1. /\ state' = [p \in Pid |-> IF p \in W THEN "Runnable" ELSE state[p]]
        /\ block' = [p \in Pid |-> IF p \in W THEN NoBlock ELSE block[p]]
        /\ wake_result' = [p \in Pid |-> IF p \in W THEN TimeoutResult(p) ELSE wake_result[p]]
        /\ EnqueueAll(W, assigned_cpu, runnable, queued)
        /\ blocked_files' \subseteq blocked_files
        /\ blocked_timers' = [d \in Deadline |-> IF d <= n THEN {} ELSE blocked_timers[d]]
        /\ next_timer_deadline' = FirstDeadline(blocked_timers')
        /\ UNCHANGED <<processes, pending_syscall, kernel_context, assigned_cpu, thread_group,
                       groupVars, sigVars, cpuVars, now>>
     BY <1>6 DEF WakeExpiredTimers
  <2>2. /\ W \in SUBSET Pid /\ \A q \in W : q \in processes /\ state[q] = "Blocked"
     BY <1>1 DEF BlockedOn, TypeOK
  <2> HIDE DEF W
  <2>3. /\ runnable \in [Cpu -> Seq(Pid)] /\ queued \in [Cpu -> SUBSET Pid]
        /\ assigned_cpu \in [Pid -> Cpu] /\ processes \subseteq Pid
     BY <1>1 DEF TypeOK
  <2>4. \A d \in Cpu : /\ queued[d] = {q \in processes : state[q] = "Runnable" /\ assigned_cpu[q] = d}
                       /\ Agree(runnable[d], queued[d])
     BY <1>1, RunQueueAgree
  <2>5. /\ runnable' \in [Cpu -> Seq(Pid)]
        /\ queued' = [d \in Cpu |-> queued[d] \cup {q \in W : assigned_cpu[q] = d}]
        /\ \A d \in Cpu : Agree(runnable'[d], queued'[d])
     BY <2>1, <2>2, <2>3, <2>4, EnqueueFact
  <2>6. \A q \in Pid : state'[q] = IF q \in W THEN "Runnable" ELSE state[q] BY <2>1
  <2>7. TypeOK'
    <3>1. /\ state' \in [Pid -> State] /\ block' \in [Pid -> Block \cup {NoBlock}]
       BY <2>1, <1>1 DEF TypeOK, State
    <3>2. wake_result' \in [Pid -> Result \cup {"None"}] BY <2>1, <1>1, ResultFact DEF TypeOK
    <3>3. /\ blocked_timers' \in [Deadline -> SUBSET Pid] /\ blocked_files' \subseteq Pid
       BY <2>1, <1>1 DEF TypeOK
    <3>4. next_timer_deadline' \in Deadline \cup {NoDeadline} BY <2>1, <3>3, FirstDeadlineFact
    <3>5. queued' \in [Cpu -> SUBSET Pid] BY <2>2, <2>3, <2>5
    <3> QED BY <3>1, <3>2, <3>3, <3>4, <3>5, <2>1, <2>5, <1>1
            DEF TypeOK, groupVars, sigVars, cpuVars
  <2>8. HeldIsPid' BY <2>1, <1>1 DEF HeldIsPid, cpuVars
  <2>9. SingleOwner' BY <2>1, <2>2, <2>6, <1>1 DEF SingleOwner, Holds, cpuVars
  <2>10. ASSUME NEW d \in Cpu
         PROVE  queued'[d] = {q \in processes' : state'[q] = "Runnable" /\ assigned_cpu'[q] = d}
    BY <2>5, <2>1, <2>2, <2>3, <2>4, <2>6
  <2> QED BY <2>5, <2>7, <2>8, <2>9, <2>10 DEF OwnerInv, RunQueueExact, Agree
<1> QED BY <1>2, <1>4, <1>5, <1>6

\* Every step keeps one place for every process.
LEMMA OwnerStep == OwnerInv /\ [Next]_vars => OwnerInv'
<1> SUFFICES ASSUME OwnerInv, [Next]_vars PROVE OwnerInv' OBVIOUS
<1>1. CASE UNCHANGED vars
  BY <1>1 DEF OwnerInv, TypeOK, vars, SingleOwner, RunQueueExact, HeldIsPid, Holds
<1>2. CASE Tick
  <2>1. TypeOK'
     BY <1>2, TimeAssumption
     DEF OwnerInv, TypeOK, Tick, procVars, groupVars, sigVars, queueVars, cpuVars, waitVars
  <2> QED BY <2>1, <1>2
          DEF OwnerInv, SingleOwner, RunQueueExact, HeldIsPid, Holds, Tick, procVars, queueVars,
              cpuVars
<1>3. ASSUME NEW c \in Cpu,
             \/ Take(c) \/ SetCurrent(c) \/ LeaveUser(c) \/ LeaveKernel(c) \/ ResetCurrent(c)
             \/ \E child \in Pid, thread \in BOOLEAN, cpu \in Cpu :
                   CloneProcess(c, child, thread, cpu)
             \/ \E p \in Pid : SendSignal(c, p)
             \/ WakeBlocked(c) \/ WakeReadyFileBlocks(c)
             \/ \E current_nanos \in 0..MaxTime : WakeExpiredTimers(c, current_nanos)
      PROVE  OwnerInv'
   BY <1>3, TakeOwner, CurrentOwner, LeaveUserOwner, LeaveKernelOwner, CloneOwner, WakersOwner
<1> QED BY <1>1, <1>2, <1>3 DEF Next

\* The types, as the Rust declarations have them.
THEOREM Typing == Spec => []TypeOK
<1>1. OwnerInv => TypeOK BY DEF OwnerInv
<1> QED BY OwnerInit, OwnerStep, <1>1, PTL DEF Spec

\* A process is in the table, or held by the one CPU it is assigned to, or gone.
THEOREM Ownership == Spec => []SingleOwner
<1>1. OwnerInv => SingleOwner BY DEF OwnerInv
<1> QED BY OwnerInit, OwnerStep, <1>1, PTL DEF Spec

\* The run queues hold exactly the runnable processes, each once, on its CPU.
THEOREM QueuesExact == Spec => []RunQueueExact
<1>1. OwnerInv => RunQueueExact BY DEF OwnerInv
<1> QED BY OwnerInit, OwnerStep, <1>1, PTL DEF Spec

-----------------------------------------------------------------------------
(* What a waiting process waits for, and what it resumes with *)

Waiting(p) == p \in processes /\ state[p] = "Blocked"

\* The body of ResumeHasResult for one process; a blocked one has a block.
Resumes(p) ==
    /\ state[p] = "Blocked" => kernel_context[p] = block[p].kind /\ block[p].kind \in KindsOfBlock
    /\ IF kernel_context[p] \in KindsOfBlock /\ state[p] # "Blocked"
       THEN wake_result[p] \in ResultsOf(kernel_context[p])
       ELSE wake_result[p] = "None"
AliveResumes == \A p \in Pid : state[p] \in {"Runnable", "Running", "Blocked"} => Resumes(p)
UnbornClean == \A p \in Pid : state[p] = "Unborn" => /\ kernel_context[p] = "None"
                                                     /\ wake_result[p] = "None"

\* A CPU that is not in the loop is bound to a process of its own; the process
\* has no suspended system call in user mode and an active one in kernel mode.
CpuBound ==
    \A c \in Cpu : phase[c] # "loop" =>
       /\ current[c] \in Pid /\ state[current[c]] # "Unborn" /\ assigned_cpu[current[c]] = c
       /\ phase[c] = "user" => kernel_context[current[c]] = "None"
       /\ phase[c] = "kernel" => kernel_context[current[c]] = "Active"

WaitInv == /\ OwnerInv /\ WaitIndexExact /\ AliveResumes /\ MergedBeforeDispatch
           /\ UnbornClean /\ CpuBound

\* The deadline FirstDeadline describes is the only one of its kind.
LEMMA FirstDeadlineIs ==
    ASSUME NEW t \in [Deadline -> SUBSET Pid], NEW d \in Deadline \cup {NoDeadline},
           \A e \in Deadline : t[e] # {} => d <= e,
           d # NoDeadline => t[d] # {}
    PROVE  FirstDeadline(t) = d
  BY FirstDeadlineFact, TimeAssumption DEF Deadline, NoDeadline

\* A process that waits with a deadline waits with a timer, a poll or a futex.
LEMMA DeadlineKind ==
    ASSUME TypeOK, NEW p \in Pid, block[p].deadline \in Deadline
    PROVE  block[p].kind \in {"Timer", "Poll", "Futex"}
<1>1. NoDeadline \notin Deadline BY TimeAssumption DEF NoDeadline, Deadline
<1>2. block[p] \in Block BY <1>1 DEF TypeOK, NoBlock
<1> QED BY <1>1, <1>2 DEF Block, MayBlockUntil

\* A blocked process has a block.
LEMMA BlockedKind ==
    ASSUME WaitInv, NEW q \in Pid, state[q] = "Blocked" PROVE block[q].kind \in KindsOfBlock
BY DEF WaitInv, AliveResumes, Resumes

\* The indexes, member by member.
MembersExact ==
    /\ \A p \in Pid : p \in blocked_files <=> Waiting(p) /\ block[p].kind \in {"File", "Poll"}
    /\ \A d \in Deadline, p \in Pid :
          p \in blocked_timers[d] <=> Waiting(p) /\ block[p].deadline = d
    /\ next_timer_deadline = FirstDeadline(blocked_timers)

\* The index invariant says the same as its members.
LEMMA IndexMembers == TypeOK => (WaitIndexExact <=> MembersExact)
<1> SUFFICES ASSUME TypeOK PROVE WaitIndexExact <=> MembersExact OBVIOUS
<1>1. /\ processes \subseteq Pid /\ blocked_files \subseteq Pid
      /\ \A d \in Deadline : blocked_timers[d] \subseteq Pid
   BY DEF TypeOK
<1>2. \A d \in Deadline, p \in Pid :
         p \in {q \in BlockedOn(KindsOfBlock) : block[q].deadline = d}
           <=> Waiting(p) /\ block[p].deadline = d
   BY DeadlineKind DEF BlockedOn, Waiting, KindsOfBlock
<1>3. \A p \in Pid : p \in BlockedOn({"File", "Poll"})
                       <=> Waiting(p) /\ block[p].kind \in {"File", "Poll"}
   BY DEF BlockedOn, Waiting
<1>4. BlockedOn({"File", "Poll"}) \subseteq Pid /\ BlockedOn(KindsOfBlock) \subseteq Pid
   BY <1>1 DEF BlockedOn
<1>5. blocked_files = BlockedOn({"File", "Poll"}) <=>
         \A p \in Pid : p \in blocked_files <=> Waiting(p) /\ block[p].kind \in {"File", "Poll"}
   BY <1>1, <1>3, <1>4
<1>6. ASSUME NEW d \in Deadline
      PROVE  blocked_timers[d] = {p \in BlockedOn(KindsOfBlock) : block[p].deadline = d} <=>
             \A p \in Pid : p \in blocked_timers[d] <=> Waiting(p) /\ block[p].deadline = d
  <2> DEFINE S == {p \in BlockedOn(KindsOfBlock) : block[p].deadline = d}
  <2>1. S \subseteq Pid /\ \A p \in Pid : p \in S <=> Waiting(p) /\ block[p].deadline = d
     BY <1>2, <1>4
  <2> HIDE DEF S
  <2>2. blocked_timers[d] = S <=>
             \A p \in Pid : p \in blocked_timers[d] <=> Waiting(p) /\ block[p].deadline = d
     BY <2>1, <1>1
  <2> QED BY <2>2 DEF S
<1> QED BY <1>5, <1>6 DEF WaitIndexExact, MembersExact

\* Ending the waits of W, and no other, keeps the indexes exact.
LEMMA UntrackIndex ==
    ASSUME TypeOK, TypeOK', WaitIndexExact, NEW W \in SUBSET Pid, Untrack(W),
           \A p \in W : Waiting(p),
           \A p \in Pid : Waiting(p)' <=> Waiting(p) /\ p \notin W,
           \A p \in Pid \ W : Waiting(p) => block'[p] = block[p]
    PROVE  WaitIndexExact'
<1>0. /\ \A p \in Pid : p \in blocked_files <=> Waiting(p) /\ block[p].kind \in {"File", "Poll"}
      /\ \A d \in Deadline, p \in Pid :
            p \in blocked_timers[d] <=> Waiting(p) /\ block[p].deadline = d
      /\ next_timer_deadline = FirstDeadline(blocked_timers)
   BY IndexMembers DEF MembersExact
<1>1. ASSUME NEW p \in Pid
      PROVE  p \in blocked_files' <=> (Waiting(p) /\ block[p].kind \in {"File", "Poll"})'
  BY <1>0 DEF Untrack
<1>2. ASSUME NEW d \in Deadline
      PROVE  blocked_timers'[d] = blocked_timers[d] \ {q \in W : block[q].deadline = d}
   BY DEF Untrack
<1>3. ASSUME NEW d \in Deadline, NEW p \in Pid
      PROVE  p \in blocked_timers'[d] <=> (Waiting(p) /\ block[p].deadline = d)'
   BY <1>0, <1>2
<1>4. next_timer_deadline' = FirstDeadline(blocked_timers')
  <2> DEFINE n == next_timer_deadline
  <2>0. /\ blocked_timers \in [Deadline -> SUBSET Pid] /\ blocked_timers' \in [Deadline -> SUBSET Pid]
        /\ n \in Deadline \cup {NoDeadline}
     BY DEF TypeOK
  <2>1. /\ \A e \in Deadline : blocked_timers[e] # {} => n <= e
        /\ n # NoDeadline => blocked_timers[n] # {}
     BY <1>0, <2>0, FirstDeadlineFact
  <2>2. \A e \in Deadline : blocked_timers'[e] # {} => n <= e BY <1>2, <2>1
  <2>3. CASE n \in Deadline /\ blocked_timers'[n] = {}
     BY <2>3, <2>1, TimeAssumption DEF Untrack, NoDeadline, Deadline
  <2>4. CASE n \in Deadline /\ blocked_timers'[n] # {}
    BY <2>0, <2>2, <2>4, FirstDeadlineIs DEF Untrack
  <2>5. CASE n \notin Deadline
    BY <2>0, <2>2, <2>5, FirstDeadlineIs DEF Untrack
  <2> QED BY <2>3, <2>4, <2>5
<1>5. /\ \A p \in Pid : p \in blocked_files' <=> (Waiting(p) /\ block[p].kind \in {"File", "Poll"})'
      /\ \A d \in Deadline, p \in Pid :
            p \in blocked_timers'[d] <=> (Waiting(p) /\ block[p].deadline = d)'
   BY <1>1, <1>3
<1>6. MembersExact' BY <1>4, <1>5 DEF MembersExact
<1> QED BY <1>6, IndexMembers, PTL

\* A step that changes no wait and no index.
LEMMA SameIndex ==
    ASSUME TypeOK, TypeOK', WaitIndexExact, UNCHANGED waitVars,
           \A p \in Pid : Waiting(p)' <=> Waiting(p),
           \A p \in Pid : Waiting(p) => block'[p] = block[p]
    PROVE  WaitIndexExact'
<1>0. /\ \A p \in Pid : p \in blocked_files <=> Waiting(p) /\ block[p].kind \in {"File", "Poll"}
      /\ \A d \in Deadline, p \in Pid :
            p \in blocked_timers[d] <=> Waiting(p) /\ block[p].deadline = d
      /\ next_timer_deadline = FirstDeadline(blocked_timers)
   BY IndexMembers DEF MembersExact
<1>1. /\ \A p \in Pid : p \in blocked_files' <=> (Waiting(p) /\ block[p].kind \in {"File", "Poll"})'
      /\ \A d \in Deadline, p \in Pid :
            p \in blocked_timers'[d] <=> (Waiting(p) /\ block[p].deadline = d)'
      /\ next_timer_deadline' = FirstDeadline(blocked_timers')
   BY <1>0 DEF waitVars
<1>2. MembersExact' BY <1>1 DEF MembersExact
<1> QED BY <1>2, IndexMembers, PTL

\* A wait can end with a signal, with its event, or with its deadline.
LEMMA WaitResults ==
    ASSUME NEW q, block[q].kind \in KindsOfBlock
    PROVE  /\ "SignalInterrupted" \in ResultsOf(block[q].kind)
           /\ SignalResult(q) \in ResultsOf(block[q].kind)
           /\ block[q].kind \in {"File", "Poll", "Futex", "Vfork", "WaitChild"} =>
                 EventResult(q) \in ResultsOf(block[q].kind)
           /\ block[q].kind \in {"Timer", "Poll", "Futex"} =>
                 TimeoutResult(q) \in ResultsOf(block[q].kind)
           /\ block[q].kind # "File" =>
                 \A x \in ReapResults(q) : x \in ResultsOf(block[q].kind)
           /\ block[q].kind = "WaitChild" => "CompletedValue" \in ResultsOf(block[q].kind)
  BY DEF ResultsOf, SignalResult, EventResult, TimeoutResult, ReapResults, KindsOfBlock

\* The step ends the waits of W with results r of those waits, takes the
\* processes of G out of the system and leaves every other process as it is,
\* or makes it Runnable when it is so already.
Wakes(W, r, G) ==
    /\ \A q \in W : /\ Waiting(q) /\ block[q].kind \in KindsOfBlock
                    /\ state'[q] = "Runnable" /\ wake_result'[q] = r[q]
                    /\ r[q] \in ResultsOf(block[q].kind)
                    /\ kernel_context'[q] = kernel_context[q]
    /\ \A q \in G : ~Waiting(q) /\ state'[q] \in {"Exited", "Stopped"}
    /\ \A q \in Pid \ (W \cup G) : /\ state'[q] = state[q] /\ block'[q] = block[q]
                                  /\ wake_result'[q] = wake_result[q]
                                  /\ kernel_context'[q] = kernel_context[q]
    /\ \A q \in Pid \ G : q \in processes' <=> q \in processes

\* Such a step keeps the indexes exact and every process able to resume.
LEMMA WakesWaits ==
    ASSUME WaitInv, TypeOK', NEW W \in SUBSET Pid, NEW r, NEW G \in SUBSET Pid,
           W \cap G = {}, Wakes(W, r, G), Untrack(W)
    PROVE  WaitIndexExact' /\ AliveResumes' /\ UnbornClean'
<1>0. TypeOK /\ WaitIndexExact /\ AliveResumes /\ UnbornClean BY DEF WaitInv, OwnerInv
<1>1. \A p \in Pid : Waiting(p)' <=> Waiting(p) /\ p \notin W
  BY DEF Wakes, Waiting
<1>2. WaitIndexExact'
  BY <1>0, <1>1, UntrackIndex DEF Wakes
<1>3. ASSUME NEW p \in Pid, state'[p] \in {"Runnable", "Running", "Blocked"} PROVE Resumes(p)'
  BY <1>3, <1>0 DEF Wakes, Waiting, AliveResumes, Resumes
<1>4. UnbornClean'
  BY <1>0 DEF Wakes, UnbornClean
<1> QED BY <1>2, <1>3, <1>4 DEF AliveResumes

\* Exit ends waits with results of those waits and takes p out of the system.
LEMMA ExitWaits ==
    ASSUME WaitInv, TypeOK', NEW p \in Pid, ~Waiting(p), NEW begin \in BOOLEAN, NEW rn, NEW qd,
           Exit(p, begin, rn, qd)
    PROVE  /\ WaitIndexExact' /\ AliveResumes' /\ UnbornClean'
           /\ kernel_context' = [kernel_context EXCEPT ![p] = "None"]
           /\ queued_signals' = queued_signals \ {p}
           /\ assigned_cpu' = assigned_cpu
           /\ \A q \in Pid : state[q] # "Unborn" => state'[q] # "Unborn"
<1> DEFINE g == thread_group[p]
           members == IF begin THEN (thread_groups[g] \ {p}) \cap processes ELSE {}
           evicted == {q \in members : state[q] = "Blocked"}
           others  == BlockedOn(KindsOfBlock \ {"File"}) \ (members \cup {p})
<1>0. TypeOK /\ SingleOwner BY DEF WaitInv, OwnerInv
<1>1a. PICK woken \in SUBSET others : \E r \in [evicted \cup woken -> Result] :
           /\ \A q \in evicted : r[q] = "SignalInterrupted"
           /\ \A q \in woken : r[q] \in ReapResults(q)
           /\ processes' = processes \ {p}
           /\ WakeAll(evicted \cup woken, r, members, [state EXCEPT ![p] = "Exited"], rn, qd)
           /\ queued_signals' = queued_signals \ {p}
           /\ kernel_context' = [kernel_context EXCEPT ![p] = "None"]
           /\ assigned_cpu' = assigned_cpu
   BY DEF Exit
<1>1. PICK r \in [evicted \cup woken -> Result] :
           /\ \A q \in evicted : r[q] = "SignalInterrupted"
           /\ \A q \in woken : r[q] \in ReapResults(q)
           /\ processes' = processes \ {p}
           /\ WakeAll(evicted \cup woken, r, members, [state EXCEPT ![p] = "Exited"], rn, qd)
           /\ queued_signals' = queued_signals \ {p}
           /\ kernel_context' = [kernel_context EXCEPT ![p] = "None"]
           /\ assigned_cpu' = assigned_cpu
   BY <1>1a
<1> DEFINE W == evicted \cup woken
<1>2. /\ W \in SUBSET Pid /\ {p} \in SUBSET Pid /\ W \cap {p} = {}
      /\ members \subseteq processes \ {p}
      /\ \A q \in W : Waiting(q)
      /\ \A q \in members : q \in W \/ state[q] = "Runnable"
   BY <1>0 DEF TypeOK, SingleOwner, BlockedOn, Waiting
<1>3. \A q \in W : block[q].kind \in KindsOfBlock
  BY <1>2, BlockedKind DEF BlockedOn, Waiting
<1>4. \A q \in W : r[q] \in ResultsOf(block[q].kind)
  BY <1>1, WaitResults, <1>3 DEF BlockedOn, KindsOfBlock
<1>5. /\ state' = [q \in Pid |-> IF q \in W \cup members THEN "Runnable"
                                ELSE [state EXCEPT ![p] = "Exited"][q]]
      /\ block' = [q \in Pid |-> IF q \in W THEN NoBlock ELSE block[q]]
      /\ wake_result' = [q \in Pid |-> IF q \in W THEN r[q] ELSE wake_result[q]]
      /\ Untrack(W)
   BY <1>1 DEF WakeAll
<1>6. \A q \in Pid : q \in processes' <=> q \in processes /\ q # p BY <1>1
<1> HIDE DEF members, evicted, W
<1>7. \A q \in Pid : state'[q] = IF q \in W THEN "Runnable" ELSE IF q = p THEN "Exited" ELSE state[q]
  BY <1>0, <1>2, <1>5 DEF TypeOK
<1>8. Wakes(W, r, {p})
  <2>1. \A q \in Pid : kernel_context'[q] = IF q = p THEN "None" ELSE kernel_context[q]
     BY <1>0, <1>1 DEF TypeOK
  <2> QED BY <2>1, <1>2, <1>3, <1>4, <1>5, <1>6, <1>7 DEF Wakes
<1>9. WaitIndexExact' /\ AliveResumes' /\ UnbornClean' BY <1>2, <1>5, <1>8, WakesWaits
<1> QED BY <1>1, <1>7, <1>9

\* What a CPU c does leaves the other CPUs bound to their processes.
LEMMA CpuStep ==
    ASSUME CpuBound, NEW c \in Cpu,
           \A d \in Cpu \ {c} : phase'[d] = phase[d] /\ current'[d] = current[d],
           \A q \in Pid : state[q] # "Unborn" => state'[q] # "Unborn" /\ assigned_cpu'[q] = assigned_cpu[q],
           \A d \in Cpu \ {c} : phase[d] \in {"user", "kernel"} =>
                                   kernel_context'[current[d]] = kernel_context[current[d]],
           phase'[c] # "loop" =>
              /\ current'[c] \in Pid /\ state'[current'[c]] # "Unborn"
              /\ assigned_cpu'[current'[c]] = c
              /\ phase'[c] = "user" => kernel_context'[current'[c]] = "None"
              /\ phase'[c] = "kernel" => kernel_context'[current'[c]] = "Active"
    PROVE  CpuBound'
BY DEF CpuBound

\* What the CPUs hold is out of the table, and each process is held once.
LEMMA HeldOnce ==
    ASSUME WaitInv, NEW c \in Cpu, phase[c] \in {"taken", "user", "kernel"}
    PROVE  /\ current[c] \in Pid /\ state[current[c]] = "Running" /\ ~Waiting(current[c])
           /\ assigned_cpu[current[c]] = c
           /\ \A d \in Cpu \ {c} : phase[d] # "loop" => current[d] # current[c]
BY HeldFact DEF WaitInv, CpuBound, Waiting

\* Reaping the head of a run queue.
LEMMA TakeExitWaits ==
    ASSUME WaitInv, OwnerInv', NEW c \in Cpu, Taking(c), NEW begin \in BOOLEAN,
           Exit(NextPid(c), begin, DequeuedRunnable(c), DequeuedQueued(c)), UNCHANGED cpuVars
    PROVE  WaitInv'
<1> DEFINE p == NextPid(c)
<1>1. p \in Pid /\ p \in processes /\ state[p] = "Runnable" BY TakenFact DEF WaitInv
<1>2. ~Waiting(p) /\ TypeOK' BY <1>1 DEF Waiting, OwnerInv
<1>3. Exit(p, begin, DequeuedRunnable(c), DequeuedQueued(c)) OBVIOUS
<1> HIDE DEF p
<1>4. /\ WaitIndexExact' /\ AliveResumes' /\ UnbornClean'
      /\ kernel_context' = [kernel_context EXCEPT ![p] = "None"]
      /\ queued_signals' = queued_signals \ {p}
      /\ assigned_cpu' = assigned_cpu
      /\ \A q \in Pid : state[q] # "Unborn" => state'[q] # "Unborn"
   BY <1>1, <1>2, <1>3, ExitWaits
<1>5. \A d \in Cpu : phase[d] \in {"user", "kernel"} => current[d] # p BY <1>1, HeldOnce
<1>6. \A q \in Pid : q # p => kernel_context'[q] = kernel_context[q]
   BY <1>4 DEF WaitInv, OwnerInv, TypeOK
<1>7. CpuBound'
  BY <1>4, <1>5, <1>6 DEF cpuVars, WaitInv, CpuBound
<1>8. MergedBeforeDispatch' BY <1>4 DEF WaitInv, MergedBeforeDispatch, cpuVars
<1> QED BY <1>4, <1>7, <1>8 DEF WaitInv

\* Reaping the process a CPU holds.
LEMMA FinishExitWaits ==
    ASSUME WaitInv, OwnerInv', NEW c \in Cpu, phase[c] \in {"user", "kernel"}, NEW begin \in BOOLEAN,
           Exit(current[c], begin, runnable, queued),
           phase' = [phase EXCEPT ![c] = "reset"], current' = current
    PROVE  WaitInv'
<1> DEFINE p == current[c]
<1>1. /\ p \in Pid /\ state[p] = "Running" /\ ~Waiting(p) /\ assigned_cpu[p] = c
      /\ \A d \in Cpu \ {c} : phase[d] # "loop" => current[d] # p
   BY HeldOnce
<1>2. TypeOK' BY DEF OwnerInv
<1>3. Exit(p, begin, runnable, queued) OBVIOUS
<1> HIDE DEF p
<1>4. /\ WaitIndexExact' /\ AliveResumes' /\ UnbornClean'
      /\ kernel_context' = [kernel_context EXCEPT ![p] = "None"]
      /\ queued_signals' = queued_signals \ {p}
      /\ assigned_cpu' = assigned_cpu
      /\ \A q \in Pid : state[q] # "Unborn" => state'[q] # "Unborn"
   BY <1>1, <1>2, <1>3, ExitWaits
<1>5. \A q \in Pid : q # p => kernel_context'[q] = kernel_context[q]
   BY <1>4 DEF WaitInv, OwnerInv, TypeOK
<1>6. \A d \in Cpu : phase'[d] = IF d = c THEN "reset" ELSE phase[d]
   BY DEF WaitInv, OwnerInv, TypeOK
<1>7. CpuBound'
  BY <1>1, <1>5, <1>4, <1>6, CpuStep DEF WaitInv, CpuBound, p
<1>8. MergedBeforeDispatch' BY <1>4, <1>6 DEF WaitInv, MergedBeforeDispatch
<1> QED BY <1>4, <1>7, <1>8 DEF WaitInv

\* The steps of take_next_process_for_pid.
LEMMA TakeWaits == ASSUME WaitInv, OwnerInv', NEW c \in Cpu, Take(c) PROVE WaitInv'
<1>0. Taking(c) BY DEF Take, TakeGroupExit, TakeFatalSignal, TakeStop, TakeDispatch
<1> DEFINE p == NextPid(c)
<1>1. p \in Pid /\ p \in processes /\ state[p] = "Runnable" /\ InPlace(c) /\ assigned_cpu[p] = c
   BY <1>0, TakenFact DEF WaitInv, InPlace
<1>2. /\ TypeOK /\ TypeOK' /\ WaitIndexExact /\ AliveResumes /\ MergedBeforeDispatch
      /\ UnbornClean /\ CpuBound
   BY DEF WaitInv, OwnerInv
<1>3. CASE TakeGroupExit(c)
   BY <1>3, <1>0, TakeExitWaits DEF TakeGroupExit
<1>4. CASE TakeFatalSignal(c)
  BY <1>4, <1>0, TakeExitWaits DEF IsThread, TakeFatalSignal
<1>5. CASE TakeStop(c)
  <2>1. /\ processes' = processes \ {p} /\ queued_signals' = queued_signals \ {p}
        /\ UNCHANGED <<kernel_context, assigned_cpu, cpuVars>>
     BY <1>5 DEF TakeStop
  <2>2. PICK W \in SUBSET (BlockedOn(KindsOfBlock \ {"File", "Vfork"}) \ {p}) : \E r \in [W -> Result] :
           /\ \A q \in W : r[q] = IF block[q].kind = "WaitChild" THEN "CompletedValue"
                                  ELSE SignalResult(q)
           /\ WakeAll(W, r, {}, [state EXCEPT ![p] = "Stopped"],
                      DequeuedRunnable(c), DequeuedQueued(c))
     BY <1>5 DEF TakeStop
  <2>3. PICK r \in [W -> Result] :
           /\ \A q \in W : r[q] = IF block[q].kind = "WaitChild" THEN "CompletedValue"
                                  ELSE SignalResult(q)
           /\ WakeAll(W, r, {}, [state EXCEPT ![p] = "Stopped"],
                      DequeuedRunnable(c), DequeuedQueued(c))
     BY <2>2
  <2> HIDE DEF p
  <2>4. /\ W \in SUBSET Pid /\ {p} \in SUBSET Pid /\ W \cap {p} = {}
        /\ \A q \in W : Waiting(q) /\ block[q].kind \in KindsOfBlock
     BY <1>1, <1>2 DEF BlockedOn, TypeOK, Waiting
  <2>5. \A q \in W : r[q] \in ResultsOf(block[q].kind) BY <2>3, <2>4, WaitResults
  <2>6. /\ \A q \in Pid : state'[q] = IF q \in W THEN "Runnable"
                                     ELSE IF q = p THEN "Stopped" ELSE state[q]
        /\ block' = [q \in Pid |-> IF q \in W THEN NoBlock ELSE block[q]]
        /\ wake_result' = [q \in Pid |-> IF q \in W THEN r[q] ELSE wake_result[q]]
        /\ Untrack(W)
     BY <2>3, <1>2 DEF WakeAll, TypeOK
  <2>7. ~Waiting(p) BY <1>1 DEF Waiting
  <2>8. Wakes(W, r, {p}) BY <2>1, <2>4, <2>5, <2>6, <2>7 DEF Wakes
  <2>9. WaitIndexExact' /\ AliveResumes' /\ UnbornClean' BY <2>4, <2>6, <2>8, <1>2, WakesWaits
  <2>10. CpuBound'
    BY <2>1, <2>6, <1>2 DEF cpuVars, CpuBound
  <2>11. MergedBeforeDispatch' BY <2>1, <1>2 DEF MergedBeforeDispatch, cpuVars
  <2> QED BY <2>9, <2>10, <2>11 DEF WaitInv
<1>6. CASE TakeDispatch(c)
  <2>1. /\ processes' = processes \ {p}
        /\ \A q \in Pid : state'[q] = IF q = p THEN "Running" ELSE state[q]
        /\ \A d \in Cpu : current'[d] = IF d = c THEN p ELSE current[d]
        /\ \A d \in Cpu : phase'[d] = IF d = c THEN "taken" ELSE phase[d]
        /\ queued_signals' = queued_signals \ {p}
        /\ UNCHANGED <<block, wake_result, kernel_context, assigned_cpu, waitVars>>
     BY <1>6, <1>1, <1>2 DEF TakeDispatch, Drained, TypeOK
  <2> HIDE DEF p
  <2>2. \A q \in Pid : Waiting(q)' <=> Waiting(q) BY <2>1, <1>1 DEF Waiting
  <2>3. WaitIndexExact' BY <2>1, <2>2, <1>2, SameIndex
  <2>4. AliveResumes' BY <2>1, <1>1, <1>2 DEF AliveResumes, Resumes
  <2>5. UnbornClean' BY <2>1, <1>2 DEF UnbornClean
  <2>6. CpuBound' BY <2>1, <1>1, <1>2, CpuStep
  <2>7. MergedBeforeDispatch' BY <2>1, <1>2 DEF MergedBeforeDispatch
  <2> QED BY <2>3, <2>4, <2>5, <2>6, <2>7 DEF WaitInv
<1> QED BY <1>3, <1>4, <1>5, <1>6 DEF Take

\* Giving back the process a CPU holds, as Runnable, with its wait over or none.
LEMMA RequeueWaits ==
    ASSUME WaitInv, OwnerInv', NEW c \in Cpu, phase[c] \in {"user", "kernel"},
           RequeueRunnable(c, current[c]),
           \A q \in Pid \ {current[c]} : /\ kernel_context'[q] = kernel_context[q]
                                         /\ wake_result'[q] = wake_result[q]
                                         /\ block'[q] = block[q],
           IF kernel_context'[current[c]] \in KindsOfBlock
           THEN wake_result'[current[c]] \in ResultsOf(kernel_context'[current[c]])
           ELSE wake_result'[current[c]] = "None",
           \A q \in queued_signals' : q \in queued_signals,
           UNCHANGED <<assigned_cpu, current, waitVars>>
    PROVE  WaitInv'
<1> DEFINE p == current[c]
<1>1. /\ p \in Pid /\ state[p] = "Running" /\ ~Waiting(p) /\ assigned_cpu[p] = c
      /\ \A d \in Cpu \ {c} : phase[d] # "loop" => current[d] # p
   BY HeldOnce
<1>2. /\ TypeOK /\ TypeOK' /\ WaitIndexExact /\ AliveResumes /\ MergedBeforeDispatch
      /\ UnbornClean /\ CpuBound
   BY DEF WaitInv, OwnerInv
<1>3. /\ processes' = processes \cup {p}
      /\ \A q \in Pid : state'[q] = IF q = p THEN "Runnable" ELSE state[q]
      /\ \A d \in Cpu : phase'[d] = IF d = c THEN "reset" ELSE phase[d]
   BY <1>2 DEF RequeueRunnable, TypeOK
<1>4. \A q \in Pid : Waiting(q)' <=> Waiting(q) BY <1>1, <1>3 DEF Waiting
<1>5. WaitIndexExact' BY <1>1, <1>2, <1>4, SameIndex
<1>6. AliveResumes' BY <1>1, <1>2, <1>3 DEF AliveResumes, Resumes
<1>7. UnbornClean' BY <1>2, <1>3 DEF UnbornClean
<1>8. CpuBound'
  <2>1. \A d \in Cpu \ {c} : phase[d] \in {"user", "kernel"} =>
                                kernel_context'[current[d]] = kernel_context[current[d]]
     BY <1>1, <1>2 DEF CpuBound
  <2>2. assigned_cpu' = assigned_cpu /\ current' = current OBVIOUS
  <2> HIDE DEF p
  <2>3. current'[c] = p BY DEF p
  <2> QED BY <2>1, <2>2, <2>3, <1>1, <1>2, <1>3, CpuStep
<1>9. MergedBeforeDispatch' BY <1>2, <1>3 DEF MergedBeforeDispatch
<1> QED BY <1>5, <1>6, <1>7, <1>8, <1>9 DEF WaitInv

\* The steps of finish_process.
LEMMA LeaveUserWaits == ASSUME WaitInv, OwnerInv', NEW c \in Cpu, LeaveUser(c) PROVE WaitInv'
<1> DEFINE p == current[c]
<1>0. phase[c] = "user"
   BY DEF LeaveUser, FinishInterrupt, FinishPageFault, FinishFaultHandled, FinishFaultExit,
          FinishFaulted, EnterSyscall
<1>1. /\ p \in Pid /\ state[p] = "Running" /\ ~Waiting(p) /\ assigned_cpu[p] = c
      /\ \A d \in Cpu \ {c} : phase[d] # "loop" => current[d] # p
   BY <1>0, HeldOnce
<1>2. /\ TypeOK /\ TypeOK' /\ WaitIndexExact /\ AliveResumes /\ MergedBeforeDispatch
      /\ UnbornClean /\ CpuBound
   BY DEF WaitInv, OwnerInv
<1>3. kernel_context[p] = "None" /\ wake_result[p] = "None"
   BY <1>0, <1>1, <1>2 DEF CpuBound, AliveResumes, Resumes, KindsOfBlock
<1>4. ASSUME RequeueRunnable(c, current[c]), queued_signals' \subseteq queued_signals,
             UNCHANGED <<block, wake_result, kernel_context, assigned_cpu, current, waitVars>>
      PROVE  WaitInv'
  BY <1>0, <1>3, <1>4, RequeueWaits DEF KindsOfBlock
<1>5. CASE FinishInterrupt(c) BY <1>4, <1>5 DEF FinishInterrupt, Merge
<1>6. CASE FinishPageFault(c) BY <1>4, <1>6 DEF FinishPageFault, sigVars
<1>7. CASE FinishFaultHandled(c) BY <1>4, <1>7 DEF FinishFaultHandled
<1>8. CASE FinishFaultExit(c)
  BY <1>0, <1>8, FinishExitWaits DEF IsThread, FinishFaultExit
<1>9. CASE FinishFaulted(c)
  <2>1. /\ \A q \in Pid : state'[q] = IF q = p THEN "Faulted" ELSE state[q]
        /\ \A d \in Cpu : phase'[d] = IF d = c THEN "reset" ELSE phase[d]
        /\ queued_signals' = queued_signals \ {p}
        /\ UNCHANGED <<processes, block, wake_result, kernel_context, assigned_cpu, current, waitVars>>
     BY <1>2, <1>9 DEF FinishFaulted, TypeOK, Merge
  <2>2. current[c] = p OBVIOUS
  <2> HIDE DEF p
  <2>3. \A q \in Pid : Waiting(q)' <=> Waiting(q) BY <2>1, <1>1 DEF Waiting
  <2>4. WaitIndexExact' BY <2>1, <2>3, <1>2, SameIndex
  <2>5. AliveResumes' BY <2>1, <1>2 DEF AliveResumes, Resumes
  <2>6. UnbornClean' BY <2>1, <1>2 DEF UnbornClean
  <2>7. CpuBound' BY <2>1, <2>2, <1>1, <1>2, CpuStep
  <2>8. MergedBeforeDispatch' BY <2>1, <1>2 DEF MergedBeforeDispatch
  <2> QED BY <2>4, <2>5, <2>6, <2>7, <2>8 DEF WaitInv
<1>10. CASE EnterSyscall(c)
  <2>1. /\ \A d \in Cpu : phase'[d] = IF d = c THEN "kernel" ELSE phase[d]
        /\ \A q \in Pid : kernel_context'[q] = IF q = p THEN "Active" ELSE kernel_context[q]
        /\ UNCHANGED <<processes, state, block, wake_result, assigned_cpu, queued_signals, current, waitVars>>
     BY <1>2, <1>10 DEF EnterSyscall, TypeOK, sigVars
  <2>2. current[c] = p OBVIOUS
  <2> HIDE DEF p
  <2>3. \A q \in Pid : Waiting(q)' <=> Waiting(q) BY <2>1 DEF Waiting
  <2>4. WaitIndexExact' BY <2>1, <2>3, <1>2, SameIndex
  <2>5. AliveResumes' BY <2>1, <1>1, <1>2, <1>3 DEF AliveResumes, Resumes, KindsOfBlock
  <2>6. UnbornClean' BY <2>1, <1>1, <1>2 DEF UnbornClean
  <2>7. CpuBound'
    BY <2>1, <1>1, <1>2, <2>2, CpuStep DEF CpuBound
  <2>8. MergedBeforeDispatch' BY <2>1, <1>2 DEF MergedBeforeDispatch
  <2> QED BY <2>4, <2>5, <2>6, <2>7, <2>8 DEF WaitInv
<1> QED BY <1>5, <1>6, <1>7, <1>8, <1>9, <1>10 DEF LeaveUser

\* The steps that end a system call's stretch of kernel mode.
LEMMA LeaveKernelWaits == ASSUME WaitInv, OwnerInv', NEW c \in Cpu, LeaveKernel(c) PROVE WaitInv'
<1> DEFINE p == current[c]
<1>0. phase[c] = "kernel"
   BY DEF LeaveKernel, FinishReturn, FinishExit, FinishKernelBlock
<1>1. /\ p \in Pid /\ state[p] = "Running" /\ ~Waiting(p) /\ assigned_cpu[p] = c
      /\ \A d \in Cpu \ {c} : phase[d] # "loop" => current[d] # p
   BY <1>0, HeldOnce
<1>2. /\ TypeOK /\ TypeOK' /\ WaitIndexExact /\ AliveResumes /\ MergedBeforeDispatch
      /\ UnbornClean /\ CpuBound
   BY DEF WaitInv, OwnerInv
<1>3. CASE FinishReturn(c)
  BY <1>2, <1>3, <1>0, <1>1, RequeueWaits DEF FinishReturn, TypeOK, sigVars, KindsOfBlock
<1>4. ASSUME NEW group \in BOOLEAN, FinishExit(c, group) PROVE WaitInv'
   BY <1>0, <1>4, FinishExitWaits DEF FinishExit
<1>5. ASSUME NEW b \in Block, NEW ready \in BOOLEAN, FinishKernelBlock(c, b, ready)
      PROVE  WaitInv'
  <2>0. b.kind \in KindsOfBlock /\ b.deadline \in Deadline \cup {NoDeadline}
     BY KindAssumption DEF Block
  <2>1. /\ processes' = processes \cup {p}
        /\ \A q \in Pid : kernel_context'[q] = IF q = p THEN b.kind ELSE kernel_context[q]
        /\ \A d \in Cpu : phase'[d] = IF d = c THEN "reset" ELSE phase[d]
        /\ phase' = [phase EXCEPT ![c] = "reset"]
        /\ UNCHANGED <<assigned_cpu, queued_signals, current>>
     BY <1>2, <1>5 DEF FinishKernelBlock, TypeOK, sigVars
  <2>2. CASE ready
    <3>1. b.kind \in {"File", "Poll", "Futex"} BY <2>2, <1>5 DEF FinishKernelBlock
    <3>2. RequeueRunnable(c, current[c])
       BY <2>1, <2>2, <1>5 DEF FinishKernelBlock, RequeueRunnable
    <3>3. /\ \A q \in Pid : q # p => block'[q] = block[q] /\ wake_result'[q] = wake_result[q]
          /\ UNCHANGED waitVars
       BY <1>2, <1>5, <2>2 DEF FinishKernelBlock, TypeOK
    <3>4. wake_result'[p] = CASE b.kind = "File" -> "FileReady"
                              [] b.kind = "Poll" -> "PollReady"
                              [] OTHER -> "FutexWoken"
       BY <1>1, <1>2, <1>5, <2>2 DEF FinishKernelBlock, TypeOK
    <3>5. wake_result'[p] \in ResultsOf(b.kind) BY <3>1, <3>4 DEF ResultsOf
    <3>6. kernel_context'[p] = b.kind BY <2>1, <1>1
    <3> QED BY <3>2, <3>3, <3>5, <3>6, <2>0, <2>1, <1>0, <1>1, RequeueWaits
  <2>3. CASE ~ready
    <3>1. /\ \A q \in Pid : state'[q] = IF q = p THEN "Blocked" ELSE state[q]
          /\ \A q \in Pid : block'[q] = IF q = p THEN b ELSE block[q]
          /\ \A q \in Pid : wake_result'[q] = IF q = p THEN "None" ELSE wake_result[q]
          /\ Track(p, b)
       BY <1>2, <1>5, <2>3 DEF FinishKernelBlock, TypeOK
    <3>2. current[c] = p OBVIOUS
    <3> HIDE DEF p
    <3>3. \A q \in Pid : Waiting(q)' <=> Waiting(q) \/ q = p BY <3>1, <2>1, <1>1 DEF Waiting
    <3>4. /\ \A q \in Pid : q \in blocked_files <=> Waiting(q) /\ block[q].kind \in {"File", "Poll"}
          /\ \A d \in Deadline, q \in Pid :
                q \in blocked_timers[d] <=> Waiting(q) /\ block[q].deadline = d
          /\ next_timer_deadline = FirstDeadline(blocked_timers)
       BY <1>2, IndexMembers DEF MembersExact
    <3>5. \A q \in Pid : q \in blocked_files' <=> (Waiting(q) /\ block[q].kind \in {"File", "Poll"})'
       BY <3>1, <3>3, <3>4, <1>1 DEF Track
    <3>6. \A d \in Deadline : blocked_timers'[d] = IF b.deadline = d THEN blocked_timers[d] \cup {p}
                                                  ELSE blocked_timers[d]
       BY <3>1 DEF Track
    <3>7. \A d \in Deadline, q \in Pid :
             q \in blocked_timers'[d] <=> (Waiting(q) /\ block[q].deadline = d)'
      <4>1. ASSUME NEW d \in Deadline, NEW q \in Pid
            PROVE  q \in blocked_timers'[d] <=> (Waiting(q) /\ block[q].deadline = d)'
        <5>1. q \in blocked_timers[d] <=> Waiting(q) /\ block[q].deadline = d BY <3>4
        <5>2. block'[q] = IF q = p THEN b ELSE block[q] BY <3>1
        <5>3. Waiting(q)' <=> Waiting(q) \/ q = p BY <3>3
        <5>4. blocked_timers'[d] = IF b.deadline = d THEN blocked_timers[d] \cup {p}
                                   ELSE blocked_timers[d]
           BY <3>6
        <5> QED BY <5>1, <5>2, <5>3, <5>4, <1>1
      <4> QED BY <4>1
    <3>8. next_timer_deadline' = FirstDeadline(blocked_timers')
      <4> DEFINE n == next_timer_deadline
      <4>0. /\ blocked_timers \in [Deadline -> SUBSET Pid] /\ blocked_timers' \in [Deadline -> SUBSET Pid]
            /\ n \in Deadline \cup {NoDeadline} /\ n' \in Deadline \cup {NoDeadline}
         BY <1>2 DEF TypeOK
      <4>1. /\ \A e \in Deadline : blocked_timers[e] # {} => n <= e
            /\ n # NoDeadline => blocked_timers[n] # {}
         BY <3>4, <4>0, FirstDeadlineFact
      <4>2. n' = IF b.deadline < n THEN b.deadline ELSE n BY <3>1 DEF Track
      <4>3. /\ \A e \in Deadline : e \in Nat /\ e < NoDeadline
            /\ NoDeadline \in Nat
         BY TimeAssumption DEF NoDeadline, Deadline
      <4>4. \A e \in Deadline : blocked_timers'[e] # {} => n' <= e
         BY <2>0, <3>6, <4>0, <4>1, <4>2, <4>3
      <4>5. n' # NoDeadline => blocked_timers'[n'] # {}
         BY <2>0, <3>6, <4>0, <4>1, <4>2, <4>3
      <4> QED BY <4>0, <4>4, <4>5, FirstDeadlineIs
    <3>9. MembersExact' BY <3>5, <3>7, <3>8 DEF MembersExact
    <3>10. WaitIndexExact' BY <3>9, <1>2, IndexMembers, PTL
    <3>11. AliveResumes' BY <3>1, <2>0, <2>1, <1>2 DEF AliveResumes, Resumes
    <3>12. UnbornClean' BY <3>1, <2>1, <1>2 DEF UnbornClean
    <3>13. CpuBound'
      BY <2>1, <1>1, <1>2, <3>1, <3>2, CpuStep DEF CpuBound
    <3>14. MergedBeforeDispatch' BY <2>1, <1>2 DEF MergedBeforeDispatch
    <3> QED BY <3>10, <3>11, <3>12, <3>13, <3>14 DEF WaitInv
  <2> QED BY <2>2, <2>3
<1> QED BY <1>3, <1>4, <1>5 DEF LeaveKernel

\* The steps that publish and withdraw what a CPU runs.
LEMMA CurrentWaits ==
    ASSUME WaitInv, OwnerInv', NEW c \in Cpu, SetCurrent(c) \/ ResetCurrent(c)
    PROVE  WaitInv'
<1>1. /\ TypeOK /\ TypeOK' /\ WaitIndexExact /\ AliveResumes /\ MergedBeforeDispatch
      /\ UnbornClean /\ CpuBound
   BY DEF WaitInv, OwnerInv
<1>2. CASE SetCurrent(c)
  <2> DEFINE p == current[c]
             system == kernel_context[p] # "None" \/ p \in pending_syscall
  <2>0. phase[c] = "taken" BY <1>2 DEF SetCurrent
  <2>1. /\ p \in Pid /\ state[p] = "Running" /\ assigned_cpu[p] = c
        /\ \A d \in Cpu \ {c} : phase[d] # "loop" => current[d] # p
     BY <2>0, HeldOnce
  <2>2. /\ \A d \in Cpu : phase'[d] = IF d # c THEN phase[d] ELSE IF system THEN "kernel" ELSE "user"
        /\ \A q \in Pid : kernel_context'[q] = IF q = p /\ system THEN "Active" ELSE kernel_context[q]
        /\ \A q \in Pid : wake_result'[q] = IF q = p /\ system THEN "None" ELSE wake_result[q]
        /\ UNCHANGED <<processes, state, block, assigned_cpu, queued_signals, current, waitVars>>
     BY <1>1, <1>2 DEF SetCurrent, TypeOK, sigVars
  <2>3. current[c] = p /\ (~system => kernel_context[p] = "None") OBVIOUS
  <2> HIDE DEF p, system
  <2>4. \A q \in Pid : Waiting(q)' <=> Waiting(q) BY <2>2 DEF Waiting
  <2>5. WaitIndexExact' BY <2>2, <2>4, <1>1, SameIndex
  <2>6. AliveResumes' BY <2>1, <2>2, <1>1 DEF AliveResumes, Resumes, KindsOfBlock
  <2>7. UnbornClean' BY <2>1, <2>2, <1>1 DEF UnbornClean
  <2>8. CpuBound'
    BY <2>1, <2>2, <1>1, <2>3, CpuStep DEF CpuBound
  <2>9. MergedBeforeDispatch' BY <2>2, <1>1 DEF MergedBeforeDispatch
  <2> QED BY <2>5, <2>6, <2>7, <2>8, <2>9 DEF WaitInv
<1>3. CASE ResetCurrent(c)
  <2>1. /\ \A d \in Cpu : phase'[d] = IF d = c THEN "loop" ELSE phase[d]
        /\ \A d \in Cpu : d # c => current'[d] = current[d]
        /\ UNCHANGED <<processes, state, block, wake_result, kernel_context, assigned_cpu,
                       queued_signals, waitVars>>
     BY <1>1, <1>3 DEF ResetCurrent, TypeOK, procVars, sigVars
  <2>2. \A q \in Pid : Waiting(q)' <=> Waiting(q) BY <2>1 DEF Waiting
  <2>3. WaitIndexExact' BY <2>1, <2>2, <1>1, SameIndex
  <2>4. AliveResumes' BY <2>1, <1>1 DEF AliveResumes, Resumes
  <2>5. UnbornClean' BY <2>1, <1>1 DEF UnbornClean
  <2>6. CpuBound' BY <2>1, <1>1, CpuStep
  <2>7. MergedBeforeDispatch' BY <2>1, <1>1 DEF MergedBeforeDispatch
  <2> QED BY <2>3, <2>4, <2>5, <2>6, <2>7 DEF WaitInv
<1> QED BY <1>2, <1>3

\* insert_cloned_process adds a process without a past.
LEMMA CloneWaits ==
    ASSUME WaitInv, OwnerInv', NEW c \in Cpu, NEW child \in Pid, NEW thread \in BOOLEAN,
           NEW cpu \in Cpu, CloneProcess(c, child, thread, cpu)
    PROVE  WaitInv'
<1>1. /\ TypeOK /\ TypeOK' /\ WaitIndexExact /\ AliveResumes /\ MergedBeforeDispatch
      /\ UnbornClean /\ CpuBound /\ SingleOwner
   BY DEF WaitInv, OwnerInv
<1>2. /\ state[child] = "Unborn" /\ processes' = processes \cup {child}
      /\ \A q \in Pid : state'[q] = IF q = child THEN "Runnable" ELSE state[q]
      /\ \A q \in Pid : assigned_cpu'[q] = IF q = child THEN cpu ELSE assigned_cpu[q]
      /\ UNCHANGED <<block, wake_result, kernel_context, queued_signals, current, phase, waitVars>>
   BY <1>1 DEF CloneProcess, TypeOK, sigVars, cpuVars
<1>3. \A q \in Pid : Waiting(q)' <=> Waiting(q) BY <1>1, <1>2 DEF Waiting, SingleOwner
<1>4. WaitIndexExact' BY <1>1, <1>2, <1>3, SameIndex
<1>5. AliveResumes' BY <1>1, <1>2 DEF AliveResumes, UnbornClean, Resumes, KindsOfBlock
<1>6. UnbornClean' BY <1>1, <1>2 DEF UnbornClean
<1>7. CpuBound' BY <1>1, <1>2 DEF CpuBound
<1>8. MergedBeforeDispatch' BY <1>1, <1>2 DEF MergedBeforeDispatch
<1> QED BY <1>4, <1>5, <1>6, <1>7, <1>8 DEF WaitInv

\* Waking blocked processes, nothing else changing but signals.
LEMMA WakeWaits ==
    ASSUME WaitInv, OwnerInv', NEW W \in SUBSET BlockedOn(KindsOfBlock), NEW r,
           \A p \in W : r[p] \in ResultsOf(block[p].kind),
           WakeAll(W, r, {}, state, runnable, queued),
           UNCHANGED <<processes, kernel_context, assigned_cpu, cpuVars, queued_signals>>
    PROVE  WaitInv'
<1>1. /\ TypeOK /\ TypeOK' /\ MergedBeforeDispatch /\ CpuBound BY DEF WaitInv, OwnerInv
<1>2. /\ W \in SUBSET Pid /\ {} \in SUBSET Pid /\ W \cap {} = {}
      /\ \A p \in W : Waiting(p) /\ block[p].kind \in KindsOfBlock
   BY <1>1 DEF BlockedOn, TypeOK, Waiting
<1>3. /\ \A q \in Pid : state'[q] = IF q \in W THEN "Runnable" ELSE state[q]
      /\ block' = [q \in Pid |-> IF q \in W THEN NoBlock ELSE block[q]]
      /\ wake_result' = [q \in Pid |-> IF q \in W THEN r[q] ELSE wake_result[q]]
      /\ Untrack(W)
   BY DEF WakeAll
<1>4. Wakes(W, r, {}) BY <1>2, <1>3 DEF Wakes
<1>5. WaitIndexExact' /\ AliveResumes' /\ UnbornClean' BY <1>1, <1>2, <1>3, <1>4, WakesWaits
<1>6. CpuBound'
  BY <1>3, <1>1 DEF CpuBound, cpuVars
<1>7. MergedBeforeDispatch' BY <1>1 DEF MergedBeforeDispatch, cpuVars
<1> QED BY <1>5, <1>6, <1>7 DEF WaitInv

\* A signal reaches a process in the table or one that a CPU has published,
\* never one that has been taken and not been published yet.
LEMMA SendSignalWaits ==
    ASSUME WaitInv, OwnerInv', NEW c \in Cpu, NEW p \in Pid, SendSignal(c, p)
    PROVE  WaitInv'
<1>1. /\ TypeOK /\ TypeOK' /\ WaitIndexExact /\ AliveResumes /\ MergedBeforeDispatch
      /\ UnbornClean /\ CpuBound
   BY DEF WaitInv, OwnerInv
<1>2. CASE p \in processes
  <2>1. PICK deliverable \in BOOLEAN :
           LET W == {q \in {p} : deliverable} \cap
                       BlockedOn({"SignalSuspend", "Timer", "Poll", "Futex"})
           IN  WakeAll(W, [q \in W |-> SignalResult(q)], {}, state, runnable, queued)
     BY <1>2 DEF SendSignal
  <2> DEFINE W == {q \in {p} : deliverable} \cap
                     BlockedOn({"SignalSuspend", "Timer", "Poll", "Futex"})
             r == [q \in W |-> SignalResult(q)]
  <2>2. WakeAll(W, r, {}, state, runnable, queued) BY <2>1
  <2>3. W \in SUBSET BlockedOn(KindsOfBlock) BY DEF BlockedOn, KindsOfBlock
  <2>4. \A q \in W : r[q] \in ResultsOf(block[q].kind)
    BY <2>3, WaitResults DEF BlockedOn
  <2> HIDE DEF W, r
  <2>5. UNCHANGED <<processes, kernel_context, assigned_cpu, cpuVars, queued_signals>>
     BY <1>2 DEF SendSignal
  <2> QED BY <2>2, <2>3, <2>4, <2>5, WakeWaits
<1>3. CASE p \notin processes
  <2>1. /\ UNCHANGED <<processes, state, block, wake_result, kernel_context, assigned_cpu,
                       current, phase, waitVars>>
        /\ queued_signals' = IF RunningCpuOf(p) # {} THEN queued_signals \cup {p} ELSE queued_signals
     BY <1>3 DEF SendSignal, cpuVars
  <2>2. \A q \in Pid : Waiting(q)' <=> Waiting(q) BY <2>1 DEF Waiting
  <2>3. WaitIndexExact' BY <2>1, <2>2, <1>1, SameIndex
  <2>4. AliveResumes' /\ UnbornClean' BY <2>1, <1>1 DEF AliveResumes, Resumes, UnbornClean
  <2>5. CpuBound' BY <2>1, <1>1 DEF CpuBound
  <2>6. ASSUME NEW d \in Cpu, phase[d] = "taken" PROVE current[d] \notin queued_signals'
    BY <2>1, <2>6, <1>1, HeldOnce DEF MergedBeforeDispatch, RunningCpuOf
  <2>7. MergedBeforeDispatch' BY <2>1, <2>6 DEF MergedBeforeDispatch
  <2> QED BY <2>3, <2>4, <2>5, <2>7 DEF WaitInv
<1> QED BY <1>2, <1>3

\* wake_expired_timers empties the index up to the time it was given, and the
\* processes it finds there are all waiting with a deadline.
LEMMA TimersWaits ==
    ASSUME WaitInv, OwnerInv', NEW c \in Cpu, NEW n \in 0..MaxTime, WakeExpiredTimers(c, n)
    PROVE  WaitInv'
<1> DEFINE expired == UNION {blocked_timers[d] : d \in {e \in Deadline : e <= n}}
           W == expired \cap BlockedOn({"Timer", "Futex", "Poll"})
<1>0. /\ TypeOK /\ TypeOK' /\ WaitIndexExact /\ AliveResumes /\ MergedBeforeDispatch
      /\ UnbornClean /\ CpuBound
   BY DEF WaitInv, OwnerInv
<1>1. /\ \A q \in Pid : state'[q] = IF q \in W THEN "Runnable" ELSE state[q]
      /\ \A q \in Pid : block'[q] = IF q \in W THEN NoBlock ELSE block[q]
      /\ \A q \in Pid : wake_result'[q] = IF q \in W THEN TimeoutResult(q) ELSE wake_result[q]
      /\ blocked_files' = blocked_files \ {q \in W : block[q].kind = "Poll"}
      /\ \A d \in Deadline : blocked_timers'[d] = IF d <= n THEN {} ELSE blocked_timers[d]
      /\ next_timer_deadline' = FirstDeadline(blocked_timers')
      /\ UNCHANGED <<processes, kernel_context, assigned_cpu, queued_signals, current, phase>>
   BY DEF WakeExpiredTimers, sigVars, cpuVars
<1>2. MembersExact BY <1>0, IndexMembers
<1>3. \A q \in Pid : q \in W <=> /\ Waiting(q) /\ block[q].kind \in {"Timer", "Futex", "Poll"}
                                /\ \E d \in Deadline : d <= n /\ block[q].deadline = d
   BY <1>2 DEF MembersExact, BlockedOn, Waiting
<1>4. W \in SUBSET Pid /\ processes \subseteq Pid BY <1>0 DEF BlockedOn, TypeOK
<1> HIDE DEF W
<1>5. \A q \in Pid : Waiting(q)' <=> Waiting(q) /\ q \notin W BY <1>1 DEF Waiting
<1>6. \A q \in Pid : q \in blocked_files' <=> (Waiting(q) /\ block[q].kind \in {"File", "Poll"})'
   BY <1>1, <1>2, <1>3, <1>5 DEF MembersExact
<1>7. ASSUME NEW d \in Deadline, NEW q \in Pid
      PROVE  q \in blocked_timers'[d] <=> (Waiting(q) /\ block[q].deadline = d)'
  BY <1>2, <1>0, <1>3, DeadlineKind, <1>1, <1>5 DEF MembersExact
<1>8. MembersExact' BY <1>1, <1>6, <1>7 DEF MembersExact
<1>9. WaitIndexExact' BY <1>8, <1>0, IndexMembers, PTL
<1>10. ASSUME NEW q \in Pid, state'[q] \in {"Runnable", "Running", "Blocked"} PROVE Resumes(q)'
  BY <1>3, <1>0, WaitResults, <1>1, <1>10 DEF Waiting, AliveResumes, Resumes, KindsOfBlock
<1>11. AliveResumes' BY <1>10 DEF AliveResumes
<1>12. UnbornClean' BY <1>0, <1>1 DEF UnbornClean
<1>13. CpuBound' BY <1>0, <1>1 DEF CpuBound
<1>14. MergedBeforeDispatch' BY <1>0, <1>1 DEF MergedBeforeDispatch
<1> QED BY <1>9, <1>11, <1>12, <1>13, <1>14 DEF WaitInv

\* No process waits at first.
LEMMA WaitInit == Init => WaitInv
<1> SUFFICES ASSUME Init PROVE WaitInv OBVIOUS
<1>1. OwnerInv /\ TypeOK BY OwnerInit DEF OwnerInv
<1>2. FirstDeadline(blocked_timers) = NoDeadline BY DEF Init, FirstDeadline
<1>3. MembersExact BY <1>2 DEF Init, MembersExact, Waiting
<1>4. WaitIndexExact BY <1>1, <1>3, IndexMembers
<1>5. AliveResumes /\ UnbornClean
   BY DEF Init, AliveResumes, Resumes, UnbornClean, KindsOfBlock
<1>6. MergedBeforeDispatch /\ CpuBound BY DEF Init, MergedBeforeDispatch, CpuBound
<1> QED BY <1>1, <1>4, <1>5, <1>6 DEF WaitInv

\* Every step keeps the waits exact.
LEMMA WaitStep == WaitInv /\ [Next]_vars => WaitInv'
<1> SUFFICES ASSUME WaitInv, [Next]_vars PROVE WaitInv' OBVIOUS
<1>0. OwnerInv' BY OwnerStep DEF WaitInv
<1>1. ASSUME UNCHANGED <<processes, state, block, wake_result, kernel_context, assigned_cpu,
                         queued_signals, current, phase, waitVars>>
      PROVE  WaitInv'
  <2>1. TypeOK /\ TypeOK' BY <1>0 DEF WaitInv, OwnerInv
  <2>2. WaitIndexExact' BY <2>1, <1>1, SameIndex DEF WaitInv, Waiting
  <2>3. AliveResumes' BY <1>1 DEF WaitInv, AliveResumes, Resumes
  <2>4. UnbornClean' /\ MergedBeforeDispatch' /\ CpuBound'
     BY <1>1 DEF WaitInv, UnbornClean, MergedBeforeDispatch, CpuBound
  <2> QED BY <1>0, <2>2, <2>3, <2>4 DEF WaitInv
<1>2. CASE UNCHANGED vars BY <1>1, <1>2 DEF vars, waitVars
<1>3. CASE Tick BY <1>1, <1>3 DEF Tick, procVars, sigVars, cpuVars
<1>4. ASSUME NEW c \in Cpu, WakeBlocked(c) PROVE WaitInv'
  <2>1. PICK W \in SUBSET BlockedOn({"Futex", "Vfork"}) :
           WakeAll(W, [q \in W |-> EventResult(q)], {}, state, runnable, queued)
     BY <1>4 DEF WakeBlocked
  <2>2. W \in SUBSET BlockedOn(KindsOfBlock) BY DEF BlockedOn, KindsOfBlock
  <2>3. \A q \in W : EventResult(q) \in ResultsOf(block[q].kind)
    BY WaitResults DEF BlockedOn, KindsOfBlock
  <2> DEFINE r == [q \in W |-> EventResult(q)]
  <2>4. (\A q \in W : r[q] \in ResultsOf(block[q].kind)) /\ WakeAll(W, r, {}, state, runnable, queued)
     BY <2>1, <2>3
  <2>5. UNCHANGED <<processes, kernel_context, assigned_cpu, cpuVars, queued_signals>>
     BY <1>4 DEF WakeBlocked, sigVars
  <2> HIDE DEF r
  <2> QED BY <1>0, <2>2, <2>4, <2>5, WakeWaits
<1>5. ASSUME NEW c \in Cpu, WakeReadyFileBlocks(c) PROVE WaitInv'
  <2>1. PICK W \in SUBSET BlockedOn({"File", "Poll"}) :
           WakeAll(W, [q \in W |-> EventResult(q)], {}, state, runnable, queued)
     BY <1>5 DEF WakeReadyFileBlocks
  <2>2. W \in SUBSET BlockedOn(KindsOfBlock) BY DEF BlockedOn, KindsOfBlock
  <2>3. \A q \in W : EventResult(q) \in ResultsOf(block[q].kind)
    BY WaitResults DEF BlockedOn, KindsOfBlock
  <2> DEFINE r == [q \in W |-> EventResult(q)]
  <2>4. (\A q \in W : r[q] \in ResultsOf(block[q].kind)) /\ WakeAll(W, r, {}, state, runnable, queued)
     BY <2>1, <2>3
  <2>5. UNCHANGED <<processes, kernel_context, assigned_cpu, cpuVars, queued_signals>>
     BY <1>5 DEF WakeReadyFileBlocks, sigVars
  <2> HIDE DEF r
  <2> QED BY <1>0, <2>2, <2>4, <2>5, WakeWaits
<1>6. ASSUME NEW c \in Cpu,
             \/ Take(c) \/ SetCurrent(c) \/ LeaveUser(c) \/ LeaveKernel(c) \/ ResetCurrent(c)
             \/ \E child \in Pid, thread \in BOOLEAN, cpu \in Cpu :
                   CloneProcess(c, child, thread, cpu)
             \/ \E p \in Pid : SendSignal(c, p)
             \/ WakeBlocked(c) \/ WakeReadyFileBlocks(c)
             \/ \E current_nanos \in 0..MaxTime : WakeExpiredTimers(c, current_nanos)
      PROVE  WaitInv'
   BY <1>0, <1>4, <1>5, <1>6, TakeWaits, CurrentWaits, LeaveUserWaits, LeaveKernelWaits, CloneWaits,
      SendSignalWaits, TimersWaits
<1> QED BY <1>2, <1>3, <1>6 DEF Next

\* Every waiter is in the indexes its wakers look in, under its own deadline, and
\* the published deadline is the earliest; a suspended system call resumes with a
\* result of the wait it is in; no process goes back to user mode with a signal
\* queued and not merged (manager.rs, track_blocked_process to wake_expired_timers).
THEOREM Waits == Spec => []WaitsExact
<1>1. WaitInv => WaitsExact
   BY DEF WaitInv, WaitsExact, ResumeHasResult, AliveResumes, Resumes
<1> QED BY WaitInit, WaitStep, <1>1, PTL DEF Spec
=============================================================================
