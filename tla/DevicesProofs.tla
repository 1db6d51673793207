--------------------------- MODULE DevicesProofs ---------------------------
(***************************************************************************)
(* Proofs about ChildWait, VtScreen, Ps2Input and Uevents.  Of the first,  *)
(* for every number of processes and CPUs and every tree of clones:        *)
(* ModeInv is what a process may be doing (one runs on a CPU, and the      *)
(* parent of a vfork is where it waits for the child); EventInv, which     *)
(* rests on it, is what the tables say of the dead.  Of the second, for    *)
(* every number of terminals, cells and threads: ScreenInv is what planes, *)
(* snapshots and the screen hold while calls are under way.  Of the third, *)
(* over the second: InputInv follows the stream of bytes from what has     *)
(* been made of it to what is held.  Of the last, for every number of      *)
(* sockets, threads and messages and any length of the history: UeInv says *)
(* who still owes a message to a socket that has not heard it.             *)
(***************************************************************************)
EXTENDS ChildWait, Ps2Input, Uevents, WellFoundedInduction, FiniteSetTheorems, TLAPS

\* A process is in a call exactly when it is not in user mode; it looks again
\* while it runs, and blocks where it was about to.
Modes ==
    \A p \in Pid : /\ pc[p] = "user" <=> call[p] = None
                   /\ state[p] \in {"unused", "dead", "dropped"} => pc[p] = "user"
                   /\ state[p] = "blocked" => pc[p] = "block"
                   /\ pc[p] = "look" => state[p] = "running" /\ call[p] \in Wait
OneRunning ==
    \A p, q \in Pid : state[p] = "running" /\ state[q] = "running" /\ cpu[p] = cpu[q] => p = q
\* Who shares the memory of another is its vfork child, lives, and is on its
\* CPU; the other is in vfork, for this child, and has not been woken.
Sharing ==
    \A c \in Pid : /\ image[c] = "shared" <=> vfork_parent[c] # None
                   /\ vfork_parent[c] # None =>
                        /\ vfork_parent[c] # c
                        /\ call[vfork_parent[c]] = [api |-> "vfork", child |-> c]
                        /\ state[vfork_parent[c]] \in {"running", "blocked"}
                        /\ cpu[vfork_parent[c]] = cpu[c]
                        /\ state[c] \in Alive \cup {"dropped"}
InVfork ==
    \A p \in Pid : state[p] \in {"running", "blocked"} /\ call[p] # None /\ call[p].api = "vfork" =>
        vfork_parent[call[p].child] = p
ModeInv == TypeOK /\ Modes /\ OneRunning /\ Sharing /\ InVfork

-----------------------------------------------------------------------------
(* Calls *)

LEMMA WaitFact ==
    /\ \A w \in Wait : w.api \in {"wait4", "waitid"} /\ w.api # "vfork" /\ w # None
    /\ \A v \in Vfork : v.api = "vfork" /\ v.child \in Pid /\ v # None
    /\ \A c \in Pid : [api |-> "vfork", child |-> c] \in Vfork
BY CallAssumption DEF Wait, Vfork

\* The typing of a process and its call
LEMMA ProcessType ==
    ASSUME TypeOK, NEW p \in Pid
    PROVE  /\ state[p] \in Alive \cup {"unused", "dropped", "dead"}
           /\ parent[p] \in Pid \cup {None} /\ vfork_parent[p] \in Pid \cup {None}
           /\ image[p] \in {"own", "shared"} /\ pc[p] \in {"user", "look", "block"}
           /\ call[p] \in Wait \cup Vfork \cup {None}
           /\ children[p] \in SUBSET Pid /\ child_events[p] \in Seq(Event)
           /\ pidfd[p] \in {"Alive", "Exited", "Reaped"} /\ reports[p] \in Nat
           /\ sigchld[p] \in Action
BY DEF TypeOK

\* A vfork parent that is woken, and what becomes of it.
LEMMA VforkWokenFact ==
    ASSUME ModeInv, NEW c \in Pid, state[c] = "running"
    PROVE  /\ vfork_parent[c] # None => /\ vfork_parent[c] \in Pid /\ vfork_parent[c] # c
                                        /\ state[vfork_parent[c]] = "blocked"
                                        /\ VforkWoken(c, vfork_parent[c])
           /\ VforkWoken(c, vfork_parent[c]) => vfork_parent[c] # None
<1> DEFINE v == vfork_parent[c]
<1>1. ASSUME v # None PROVE v \in Pid /\ v # c /\ state[v] = "blocked" /\ VforkWoken(c, v)
  <2>1. v \in Pid BY <1>1, ProcessType DEF ModeInv
  <2>2. /\ call[v] = [api |-> "vfork", child |-> c] /\ state[v] \in {"running", "blocked"}
        /\ cpu[v] = cpu[c] /\ v # c
    BY <1>1 DEF ModeInv, Sharing
  <2>3. call[v].api = "vfork" /\ call[v].child = c BY <2>2
  <2>4. state[v] = "blocked" BY <2>1, <2>2 DEF ModeInv, OneRunning
  <2> QED BY <1>1, <2>1, <2>2, <2>3, <2>4 DEF VforkWoken
<1> QED BY <1>1 DEF VforkWoken

\* Where a vfork parent is.
LEMMA VforkParentFact ==
    ASSUME ModeInv, NEW c \in Pid, NEW v, v = vfork_parent[c], v # None
    PROVE  /\ v \in Pid /\ v # c /\ call[v] = [api |-> "vfork", child |-> c] /\ call[v] # None
           /\ pc[v] = "block" /\ state[v] \in {"running", "blocked"}
           /\ cpu[v] = cpu[c] /\ state[c] \in Alive \cup {"dropped"}
  BY ProcessType, WaitFact DEF ModeInv, Sharing, Modes

\* Nobody leaves or enters a vfork.
LEMMA SharingKept ==
    ASSUME Sharing, UNCHANGED <<cpu, vfork_parent, image>>,
           \A c \in Pid : vfork_parent[c] # None =>
               /\ call'[vfork_parent[c]] = call[vfork_parent[c]]
               /\ state'[vfork_parent[c]] \in {"running", "blocked"}
               /\ state'[c] \in Alive \cup {"dropped"}
    PROVE  Sharing'
<1> SUFFICES ASSUME NEW c \in Pid
             PROVE  /\ image[c] = "shared" <=> vfork_parent[c] # None
                    /\ vfork_parent[c] # None =>
                         /\ vfork_parent[c] # c
                         /\ call'[vfork_parent[c]] = [api |-> "vfork", child |-> c]
                         /\ state'[vfork_parent[c]] \in {"running", "blocked"}
                         /\ cpu[vfork_parent[c]] = cpu[c]
                         /\ state'[c] \in Alive \cup {"dropped"}
  BY DEF Sharing
<1> QED BY DEF Sharing

-----------------------------------------------------------------------------
(* Every action keeps ModeInv. *)

LEMMA ModeInit == Init => ModeInv
<1> SUFFICES ASSUME Init PROVE ModeInv OBVIOUS
<1>1. TypeOK BY RootAssumption DEF Init, TypeOK, Alive, Action
<1>2. Modes BY DEF Init, Modes
<1>3. OneRunning BY DEF Init, OneRunning
<1>4. Sharing /\ InVfork BY DEF Init, Sharing, InVfork
<1> QED BY <1>1, <1>2, <1>3, <1>4 DEF ModeInv

\* A CPU takes a process.
LEMMA ModeDispatch ==
    ASSUME ModeInv, NEW p \in Pid, Dispatch(p)
    PROVE  ModeInv'
<1>1. TypeOK /\ Modes /\ OneRunning /\ Sharing /\ InVfork BY DEF ModeInv
<1>2. /\ state[p] = "runnable" /\ \A q \in Pid : cpu[q] = cpu[p] => state[q] # "running"
      /\ state' = [state EXCEPT ![p] = "running"]
      /\ wake_result' = [wake_result EXCEPT ![p] = None]
      /\ UNCHANGED <<treeVars, vforkVars, reapVars>>
  BY DEF Dispatch
<1>3. /\ \A q \in Pid : q # p => call'[q] = call[q] /\ pc'[q] = pc[q] /\ state'[q] = state[q]
      /\ state'[p] = "running"
      /\ \/ call[p] # None /\ call[p].api # "waitid" /\ call'[p] = None /\ pc'[p] = "user"
         \/ call[p] = None /\ call'[p] = None /\ pc'[p] = "user"
         \/ call[p] # None /\ call[p].api = "waitid" /\ call'[p] = call[p] /\ pc'[p] = "look"
  BY <1>1, <1>2 DEF Dispatch, TypeOK
<1>4. call[p] \in Wait \cup Vfork \cup {None} BY <1>1, ProcessType
<1>5. TypeOK'
  <2>1. state' \in [Pid -> Alive \cup {"unused", "dropped", "dead"}] BY <1>1, <1>2 DEF TypeOK, Alive
  <2>2. call' \in [Pid -> Wait \cup Vfork \cup {None}] BY <1>1 DEF TypeOK, Dispatch
  <2>3. pc' \in [Pid -> {"user", "look", "block"}] BY <1>1 DEF TypeOK, Dispatch
  <2>4. wake_result' \in [Pid -> Pid \cup {None}] BY <1>1, <1>2 DEF TypeOK
  <2> QED BY <1>1, <1>2, <2>1, <2>2, <2>3, <2>4 DEF TypeOK, treeVars, vforkVars, reapVars
<1>6. call[p] # None /\ call[p].api = "waitid" => call[p] \in Wait BY <1>4, WaitFact
<1>7. Modes' BY <1>1, <1>2, <1>3, <1>6 DEF Modes
<1>8. OneRunning' BY <1>1, <1>2, <1>3 DEF OneRunning, treeVars
<1>9. ASSUME NEW c \in Pid, vfork_parent[c] # None
      PROVE  /\ call'[vfork_parent[c]] = call[vfork_parent[c]]
             /\ state'[vfork_parent[c]] \in {"running", "blocked"}
             /\ state'[c] \in Alive \cup {"dropped"}
  BY <1>2, <1>3, <1>9, VforkParentFact DEF Alive
<1>10. Sharing' BY <1>1, <1>2, <1>9, SharingKept DEF vforkVars, treeVars
<1>11. InVfork' BY <1>1, <1>2, <1>3 DEF InVfork, vforkVars
<1> QED BY <1>5, <1>7, <1>8, <1>10, <1>11 DEF ModeInv

\* A preempted process is in user mode.
LEMMA ModePreempt ==
    ASSUME ModeInv, NEW p \in Pid, Preempt(p)
    PROVE  ModeInv'
<1>1. TypeOK /\ Modes /\ OneRunning /\ Sharing /\ InVfork BY DEF ModeInv
<1>2. /\ state[p] = "running" /\ pc[p] = "user" /\ state' = [state EXCEPT ![p] = "runnable"]
      /\ UNCHANGED <<treeVars, vforkVars, pc, call, wake_result, reapVars>>
  BY DEF Preempt, InUser
<1>3. \A q \in Pid : state'[q] = IF q = p THEN "runnable" ELSE state[q] BY <1>1, <1>2 DEF TypeOK
<1>4. TypeOK'
  BY <1>1, <1>2 DEF TypeOK, Alive, treeVars, vforkVars, reapVars
<1>5. Modes' BY <1>1, <1>2, <1>3 DEF Modes
<1>6. OneRunning' BY <1>1, <1>2, <1>3 DEF OneRunning, treeVars
<1>7. call[p] = None BY <1>1, <1>2 DEF Modes
<1>8. ASSUME NEW c \in Pid, vfork_parent[c] # None
      PROVE  /\ call'[vfork_parent[c]] = call[vfork_parent[c]]
             /\ state'[vfork_parent[c]] \in {"running", "blocked"}
             /\ state'[c] \in Alive \cup {"dropped"}
  <2> DEFINE v == vfork_parent[c]
  <2>1. v \in Pid /\ v # p /\ state[v] \in {"running", "blocked"} /\ state[c] \in Alive \cup {"dropped"}
    BY <1>7, <1>8, VforkParentFact
  <2> QED BY <1>2, <1>3, <2>1 DEF Alive
<1>9. Sharing' BY <1>1, <1>2, <1>8, SharingKept DEF treeVars, vforkVars
<1>10. InVfork' BY <1>1, <1>2, <1>3 DEF InVfork, vforkVars
<1> QED BY <1>4, <1>5, <1>6, <1>9, <1>10 DEF ModeInv

\* finish_kernel_block
LEMMA ModeBlock ==
    ASSUME ModeInv, NEW p \in Pid, Block(p)
    PROVE  ModeInv'
<1>1. TypeOK /\ Modes /\ OneRunning /\ Sharing /\ InVfork BY DEF ModeInv
<1>2. /\ state[p] = "running" /\ pc[p] = "block" /\ state' = [state EXCEPT ![p] = "blocked"]
      /\ wake_result' = [wake_result EXCEPT ![p] = None]
      /\ UNCHANGED <<treeVars, vforkVars, pc, call, reapVars>>
  BY DEF Block
<1>3. \A q \in Pid : state'[q] = IF q = p THEN "blocked" ELSE state[q] BY <1>1, <1>2 DEF TypeOK
<1>4. TypeOK'
  BY <1>1, <1>2 DEF TypeOK, Alive, treeVars, vforkVars, reapVars
<1>5. Modes' BY <1>1, <1>2, <1>3 DEF Modes
<1>6. OneRunning' BY <1>1, <1>2, <1>3 DEF OneRunning, treeVars
<1>7. ASSUME NEW c \in Pid, vfork_parent[c] # None
      PROVE  /\ call'[vfork_parent[c]] = call[vfork_parent[c]]
             /\ state'[vfork_parent[c]] \in {"running", "blocked"}
             /\ state'[c] \in Alive \cup {"dropped"}
  <2> DEFINE v == vfork_parent[c]
  <2>1. v \in Pid /\ state[v] \in {"running", "blocked"} /\ state[c] \in Alive \cup {"dropped"}
    BY <1>7, VforkParentFact
  <2> QED BY <1>2, <1>3, <2>1 DEF Alive
<1>8. Sharing' BY <1>1, <1>2, <1>7, SharingKept DEF treeVars, vforkVars
<1>9. InVfork' BY <1>1, <1>2, <1>3 DEF InVfork, vforkVars
<1> QED BY <1>4, <1>5, <1>6, <1>8, <1>9 DEF ModeInv

\* clone: a vfork child is where its parent is, and the parent goes to wait.
LEMMA ModeClone ==
    ASSUME ModeInv, NEW p \in Pid, NEW c \in Pid, NEW flags \in CloneFlags, Clone(p, c, flags)
    PROVE  ModeInv'
<1> DEFINE vf == [api |-> "vfork", child |-> c]
<1>1. TypeOK /\ Modes /\ OneRunning /\ Sharing /\ InVfork BY DEF ModeInv
<1>2. /\ state[p] = "running" /\ pc[p] = "user" /\ state[c] = "unused" /\ p # c
      /\ state' = [state EXCEPT ![c] = "runnable"]
      /\ UNCHANGED <<cpu, wake_result, zombies, child_events, pidfd, reports>>
  BY DEF Clone, InUser
<1>3. \A q \in Pid : state'[q] = IF q = c THEN "runnable" ELSE state[q] BY <1>1, <1>2 DEF TypeOK
<1>4. call[p] = None /\ call[c] = None /\ pc[c] = "user" BY <1>1, <1>2 DEF Modes
<1>5. vfork_parent[c] = None /\ image[c] = "own" BY <1>1, <1>2, ProcessType DEF Sharing, Alive
<1>6. \/ /\ vfork_parent' = [vfork_parent EXCEPT ![c] = p] /\ image' = [image EXCEPT ![c] = "shared"]
         /\ call' = [call EXCEPT ![p] = vf] /\ pc' = [pc EXCEPT ![p] = "block"]
         /\ cpu[c] = cpu[p]
      \/ UNCHANGED <<vfork_parent, image, call, pc>>
  BY DEF Clone, Valid, PlacedWithParent, vforkVars
<1>7. vf \in Vfork /\ vf.api = "vfork" /\ vf.child = c /\ vf # None BY WaitFact
<1>8. TypeOK'
  <2>1. state' \in [Pid -> Alive \cup {"unused", "dropped", "dead"}] BY <1>1, <1>2 DEF TypeOK, Alive
  <2>2. (IF "PARENT" \in flags THEN parent[p] ELSE p) \in Pid \cup {None} BY <1>1, ProcessType
  <2>3. parent' \in [Pid -> Pid \cup {None}] BY <1>1, <2>2 DEF TypeOK, Clone
  <2>4. children' \in [Pid -> SUBSET Pid] BY <1>1, <2>2 DEF TypeOK, Clone
  <2>5. sigchld' \in [Pid -> Action] BY <1>1 DEF TypeOK, Clone
  <2>6. vfork_parent' \in [Pid -> Pid \cup {None}] /\ image' \in [Pid -> {"own", "shared"}]
    <3>1. UNCHANGED <<vfork_parent, image>> \/ (/\ vfork_parent' = [vfork_parent EXCEPT ![c] = p]
                                                /\ image' = [image EXCEPT ![c] = "shared"])
      BY <1>6
    <3>2. vfork_parent \in [Pid -> Pid \cup {None}] /\ image \in [Pid -> {"own", "shared"}]
      BY <1>1 DEF TypeOK
    <3>3. vfork_parent' \in [Pid -> Pid \cup {None}] BY <3>1, <3>2
    <3>4. image' \in [Pid -> {"own", "shared"}] BY <3>1, <3>2
    <3> QED BY <3>3, <3>4
  <2>7. call' \in [Pid -> Wait \cup Vfork \cup {None}]
    <3>1. call' = call \/ call' = [call EXCEPT ![p] = vf] BY <1>6
    <3> HIDE DEF vf
    <3> QED BY <1>1, <1>7, <3>1 DEF TypeOK
  <2>8. pc' \in [Pid -> {"user", "look", "block"}] BY <1>1, <1>6 DEF TypeOK
  <2> QED BY <1>1, <1>2, <2>1, <2>3, <2>4, <2>5, <2>6, <2>7, <2>8 DEF TypeOK
<1>9. OneRunning' BY <1>1, <1>2, <1>3 DEF OneRunning
<1>10. ASSUME NEW d \in Pid, vfork_parent[d] # None
       PROVE  /\ d # c /\ vfork_parent[d] \in Pid /\ vfork_parent[d] # p
              /\ state'[vfork_parent[d]] \in {"running", "blocked"}
              /\ state'[d] \in Alive \cup {"dropped"}
  <2> DEFINE v == vfork_parent[d]
  <2>1. /\ v \in Pid /\ call[v] # None /\ state[v] \in {"running", "blocked"}
        /\ state[d] \in Alive \cup {"dropped"}
    BY <1>10, VforkParentFact
  <2> QED BY <1>2, <1>3, <1>4, <1>5, <1>10, <2>1 DEF Alive
<1>11. CASE UNCHANGED <<vfork_parent, image, call, pc>>
  <2>1. Modes' BY <1>1, <1>2, <1>3, <1>4, <1>11 DEF Modes
  <2>2. Sharing' BY <1>1, <1>2, <1>10, <1>11, SharingKept
  <2>3. InVfork' BY <1>1, <1>3, <1>4, <1>11 DEF InVfork
  <2> QED BY <1>8, <1>9, <2>1, <2>2, <2>3 DEF ModeInv
<1>12. CASE /\ vfork_parent' = [vfork_parent EXCEPT ![c] = p] /\ image' = [image EXCEPT ![c] = "shared"]
            /\ call' = [call EXCEPT ![p] = vf] /\ pc' = [pc EXCEPT ![p] = "block"]
            /\ cpu[c] = cpu[p]
  <2>1. \A q \in Pid : /\ vfork_parent'[q] = IF q = c THEN p ELSE vfork_parent[q]
                       /\ image'[q] = IF q = c THEN "shared" ELSE image[q]
                       /\ call'[q] = IF q = p THEN vf ELSE call[q]
                       /\ pc'[q] = IF q = p THEN "block" ELSE pc[q]
    BY <1>1, <1>12 DEF TypeOK
  <2>2. Modes'
    <3> HIDE DEF vf
    <3> QED BY <1>1, <1>2, <1>3, <1>4, <1>7, <2>1 DEF Modes
  <2>3. Sharing'
    <3> SUFFICES ASSUME NEW d \in Pid
                 PROVE  /\ image'[d] = "shared" <=> vfork_parent'[d] # None
                        /\ vfork_parent'[d] # None =>
                             /\ vfork_parent'[d] # d
                             /\ call'[vfork_parent'[d]] = [api |-> "vfork", child |-> d]
                             /\ state'[vfork_parent'[d]] \in {"running", "blocked"}
                             /\ cpu[vfork_parent'[d]] = cpu[d]
                             /\ state'[d] \in Alive \cup {"dropped"}
      BY <1>2 DEF Sharing
    <3>1. CASE d = c BY <1>2, <1>3, <1>12, <2>1, <3>1, NoneAssumption DEF Alive
    <3>2. CASE d # c /\ vfork_parent[d] = None BY <1>1, <2>1, <3>2 DEF Sharing
    <3>3. CASE d # c /\ vfork_parent[d] # None BY <1>1, <1>10, <2>1, <3>3 DEF Sharing
    <3> QED BY <3>1, <3>2, <3>3
  <2>4. InVfork'
    <3> SUFFICES ASSUME NEW q \in Pid, state'[q] \in {"running", "blocked"}, call'[q] # None,
                        call'[q].api = "vfork"
                 PROVE  vfork_parent'[call'[q].child] = q
      BY DEF InVfork
    <3>1. CASE q = p BY <1>7, <2>1, <3>1
    <3>2. CASE q # p
      BY <1>1, <2>1, <3>2, ProcessType, WaitFact, <1>3, <1>5, NoneAssumption DEF InVfork
    <3> QED BY <3>1, <3>2
  <2> QED BY <1>8, <1>9, <2>2, <2>3, <2>4 DEF ModeInv
<1> QED BY <1>6, <1>11, <1>12

\* The vfork parent of one child is not that of another.
LEMMA OneChild ==
    ASSUME ModeInv, NEW c \in Pid, NEW d \in Pid, c # d, vfork_parent[c] # None
    PROVE  vfork_parent[c] # vfork_parent[d]
<1> SUFFICES ASSUME vfork_parent[c] = vfork_parent[d] PROVE FALSE OBVIOUS
<1>1. [api |-> "vfork", child |-> c] = [api |-> "vfork", child |-> d] BY VforkParentFact
<1> QED BY <1>1

\* After a process has let go of the memory it shared, by execve or by exit: the
\* vfork parent runs again, and no other.
LEMMA Released ==
    ASSUME ModeInv, NEW p \in Pid, state[p] = "running", pc[p] = "user",
           UNCHANGED <<cpu, pc, call>>,
           vfork_parent' = [vfork_parent EXCEPT ![p] = None], image' = [image EXCEPT ![p] = "own"],
           \A q \in Pid : q # p => \/ state'[q] = state[q] /\ q # vfork_parent[p]
                                   \/ state'[q] = "runnable" /\ q = vfork_parent[p]
                                   \/ state'[q] = "runnable" /\ state[q] = "blocked" /\ call[q].api # "vfork",
           state'[p] \in {"running", "dead"}
    PROVE  Modes' /\ OneRunning' /\ Sharing' /\ InVfork'
<1>1. TypeOK /\ Modes /\ OneRunning /\ Sharing /\ InVfork BY DEF ModeInv
<1>2. call[p] = None BY <1>1 DEF Modes
<1>3. \A q \in Pid : /\ vfork_parent'[q] = IF q = p THEN None ELSE vfork_parent[q]
                     /\ image'[q] = IF q = p THEN "own" ELSE image[q]
  BY <1>1 DEF TypeOK
<1> DEFINE v == vfork_parent[p]
<1>4. v # None => v \in Pid /\ v # p /\ state[v] = "blocked" BY VforkWokenFact
<1>5. \A q \in Pid : q # p /\ state'[q] # state[q] =>
         state'[q] = "runnable" /\ state[q] = "blocked"
  BY <1>4, NoneAssumption
<1> HIDE DEF v
<1>6. Modes' BY <1>1, <1>2, <1>5 DEF Modes
<1>7. OneRunning' BY <1>1, <1>5 DEF OneRunning
<1>8. Sharing'
  <2> SUFFICES ASSUME NEW d \in Pid
               PROVE  /\ image'[d] = "shared" <=> vfork_parent'[d] # None
                      /\ vfork_parent'[d] # None =>
                           /\ vfork_parent'[d] # d
                           /\ call'[vfork_parent'[d]] = [api |-> "vfork", child |-> d]
                           /\ state'[vfork_parent'[d]] \in {"running", "blocked"}
                           /\ cpu'[vfork_parent'[d]] = cpu'[d]
                           /\ state'[d] \in Alive \cup {"dropped"}
    BY DEF Sharing
  <2>1. CASE d = p BY <1>3, <2>1
  <2>2. CASE d # p /\ vfork_parent[d] = None BY <1>1, <1>3, <2>2 DEF Sharing
  <2>3. CASE d # p /\ vfork_parent[d] # None
    <3> DEFINE w == vfork_parent[d]
    <3>1. /\ w \in Pid /\ w # d /\ call[w] = [api |-> "vfork", child |-> d] /\ call[w] # None
          /\ state[w] \in {"running", "blocked"} /\ cpu[w] = cpu[d] /\ state[d] \in Alive \cup {"dropped"}
      BY <2>3, VforkParentFact
    <3>2. call[w].api = "vfork" /\ w # p BY <1>2, <3>1
    <3>3. w # vfork_parent[p] BY <2>3, OneChild
    <3>4. state'[w] = state[w] BY <3>1, <3>2, <3>3
    <3>5. state'[d] \in Alive \cup {"dropped"} BY <1>5, <2>3, <3>1 DEF Alive
    <3>6. image[d] = "shared" BY <1>1, <2>3 DEF Sharing
    <3> QED BY <1>3, <2>3, <3>1, <3>4, <3>5, <3>6
  <2> QED BY <2>1, <2>2, <2>3
<1>9. InVfork'
  BY <1>2, <1>1, ProcessType, WaitFact, <1>3 DEF InVfork
<1> QED BY <1>6, <1>7, <1>8, <1>9

\* execve
LEMMA ModeExecve ==
    ASSUME ModeInv, NEW p \in Pid, Execve(p)
    PROVE  ModeInv'
<1>1. TypeOK BY DEF ModeInv
<1>2. /\ state[p] = "running" /\ pc[p] = "user"
      /\ vfork_parent' = [vfork_parent EXCEPT ![p] = None] /\ image' = [image EXCEPT ![p] = "own"]
      /\ UNCHANGED <<treeVars, pc, call, reapVars>>
  BY DEF Execve, InUser
<1> DEFINE v == vfork_parent[p]
<1>3. v # None => v \in Pid /\ v # p /\ state[v] = "blocked" /\ VforkWoken(p, v) BY <1>2, VforkWokenFact
<1>4. CASE v = None
  <2>1. UNCHANGED <<state, wake_result>> BY <1>4 DEF Execve, VforkWoken
  <2>2. TypeOK' BY <1>1, <1>2, <2>1 DEF TypeOK, treeVars, reapVars
  <2>3. \A q \in Pid : q # p => state'[q] = state[q] /\ q # v BY <1>4, <2>1, NoneAssumption
  <2>4. Modes' /\ OneRunning' /\ Sharing' /\ InVfork' BY <1>2, <2>1, <2>3, Released DEF treeVars
  <2> QED BY <2>2, <2>4 DEF ModeInv
<1>5. CASE v # None
  <2>1. state' = [state EXCEPT ![v] = "runnable"] /\ wake_result' = [wake_result EXCEPT ![v] = p]
    BY <1>3, <1>5 DEF Execve
  <2>2. TypeOK' BY <1>1, <1>2, <1>3, <1>5, <2>1 DEF TypeOK, treeVars, reapVars, Alive
  <2>3. \A q \in Pid : state'[q] = IF q = v THEN "runnable" ELSE state[q] BY <1>1, <2>1 DEF TypeOK
  <2>4. state'[p] = "running" BY <1>2, <1>3, <1>5, <2>3
  <2>5. Modes' /\ OneRunning' /\ Sharing' /\ InVfork' BY <1>2, <2>3, <2>4, Released DEF treeVars
  <2> QED BY <2>2, <2>5 DEF ModeInv
<1> QED BY <1>4, <1>5

\* rt_sigaction
LEMMA ModeSetSigchld ==
    ASSUME ModeInv, NEW p \in Pid, NEW action \in Action, SetSigchld(p, action)
    PROVE  ModeInv'
  BY DEF SetSigchld, vforkVars, ModeInv, TypeOK, reapVars, Modes, OneRunning, Sharing, InVfork

\* A wait that is woken was blocked.
LEMMA WaitWokenFact ==
    ASSUME NEW u, NEW e, WaitWoken(u, e)
    PROVE  u # None /\ state[u] = "blocked" /\ call[u].api # "vfork"
BY DEF WaitWoken

\* Queues of events: Append and WithoutNth, place by place.
At(p, i, e) == i \in 1..Len(child_events[p]) /\ child_events[p][i] = e

LEMMA AppendFact ==
    ASSUME NEW s \in Seq(Event), NEW e \in Event
    PROVE  /\ Append(s, e) \in Seq(Event) /\ Len(Append(s, e)) = Len(s) + 1
           /\ \A j \in 1..Len(s) : Append(s, e)[j] = s[j]
           /\ Append(s, e)[Len(s) + 1] = e
OBVIOUS
LEMMA WithoutFact ==
    ASSUME NEW s \in Seq(Event), NEW i \in 1..Len(s)
    PROVE  /\ WithoutNth(s, i) \in Seq(Event)
           /\ Len(WithoutNth(s, i)) = Len(s) - 1
           /\ \A j \in 1..(Len(s) - 1) : WithoutNth(s, i)[j] = IF j < i THEN s[j] ELSE s[j + 1]
<1> DEFINE a == SubSeq(s, 1, i - 1)
           b == SubSeq(s, i + 1, Len(s))
<1>1. a \in Seq(Event) /\ Len(a) = i - 1 /\ \A j \in 1..(i - 1) : a[j] = s[j] OBVIOUS
<1>2. b \in Seq(Event) /\ Len(b) = Len(s) - i /\ \A j \in 1..(Len(s) - i) : b[j] = s[i + j] OBVIOUS
<1>3. WithoutNth(s, i) = a \o b BY DEF WithoutNth
<1> HIDE DEF a, b
<1>a. a \in Seq(Event) /\ b \in Seq(Event) /\ Len(a) + Len(b) = Len(s) - 1 BY <1>1, <1>2
<1>b. /\ a \o b \in Seq(Event) /\ Len(a \o b) = Len(a) + Len(b)
      /\ \A j \in 1..(Len(a) + Len(b)) : (a \o b)[j] = IF j <= Len(a) THEN a[j] ELSE b[j - Len(a)]
  BY <1>a
<1>4. /\ a \o b \in Seq(Event) /\ Len(a \o b) = Len(s) - 1
      /\ \A j \in 1..(Len(s) - 1) : (a \o b)[j] = IF j <= Len(a) THEN a[j] ELSE b[j - Len(a)]
  BY <1>a, <1>b
<1>5. ASSUME NEW j \in 1..(Len(s) - 1) PROVE (a \o b)[j] = IF j < i THEN s[j] ELSE s[j + 1]
  BY <1>1, <1>4, <1>2
<1> QED BY <1>3, <1>4, <1>5

\* The first event that matches is one.
LEMMA FirstFact ==
    ASSUME TypeOK, NEW p \in Pid, NEW w, Found(p, w) # {}
    PROVE  /\ First(p, w) \in 1..Len(child_events[p])
           /\ child_events[p][First(p, w)] \in Event
<1>1. Found(p, w) \in SUBSET Nat BY ProcessType DEF Found
<1>2. IsWellFoundedOn(OpToRel(<, Nat), Nat) BY NatLessThanWellFounded, Zenon
<1>3. PICK x \in Found(p, w) : \A y \in Found(p, w) : ~ (<<y, x>> \in OpToRel(<, Nat))
  BY <1>1, <1>2, WFMin, Zenon
<1>4. \A y \in Found(p, w) : ~(y < x) BY <1>1, <1>3 DEF OpToRel
<1>5. \A y \in Found(p, w) : x <= y BY <1>1, <1>4
<1>6. First(p, w) \in Found(p, w) BY <1>5, Zenon DEF First
<1>7. First(p, w) \in 1..Len(child_events[p]) BY <1>6 DEF Found
<1> QED BY <1>7, ProcessType

\* What Exit and Stop add to a queue, and what a wait takes from one, are events.
LEMMA EventsType ==
    ASSUME TypeOK, NEW u \in Pid \cup {None}, NEW e \in Event
    PROVE  EventsAfter(u, e) \in [Pid -> Seq(Event)]
  BY ProcessType, AppendFact DEF EventsAfter, TypeOK
LEMMA UnlinkedType ==
    ASSUME TypeOK, NEW u \in Pid \cup {None}, NEW c
    PROVE  Unlinked(u, c) \in [Pid -> SUBSET Pid]
BY DEF Unlinked, TypeOK
LEMMA ConsumesType ==
    ASSUME TypeOK, NEW p \in Pid, NEW i \in 1..Len(child_events[p]), Consumes(p, i)
    PROVE  /\ children' \in [Pid -> SUBSET Pid] /\ zombies' \subseteq Pid
           /\ child_events' \in [Pid -> Seq(Event)] /\ reports' \in [Pid -> Nat]
           /\ pidfd' \in [Pid -> {"Alive", "Exited", "Reaped"}]
<1> DEFINE c == child_events[p][i].pid
<1>1. child_events[p] \in Seq(Event) BY ProcessType
<1>2. c \in Pid
  <2>1. child_events[p][i] \in Event BY <1>1
  <2> QED BY <2>1 DEF Event
<1>3. WithoutNth(child_events[p], i) \in Seq(Event) BY <1>1, WithoutFact
<1>4. child_events' \in [Pid -> Seq(Event)] BY <1>3 DEF Consumes, TypeOK
<1>5. Unlinked(p, c) \in [Pid -> SUBSET Pid] BY UnlinkedType
<1>6. children' \in [Pid -> SUBSET Pid] BY <1>5 DEF Consumes, TypeOK
<1> HIDE DEF c
<1>7. zombies' \subseteq Pid BY DEF Consumes, TypeOK
<1>8. reports' \in [Pid -> Nat] /\ pidfd' \in [Pid -> {"Alive", "Exited", "Reaped"}]
  BY <1>2 DEF Consumes, TypeOK, c
<1> QED BY <1>4, <1>6, <1>7, <1>8

\* reap_exited_process
LEMMA ModeExit ==
    ASSUME ModeInv, NEW p \in Pid, Exit(p)
    PROVE  ModeInv'
<1> DEFINE up == parent[p]
           event == [pid |-> p, kind |-> "Exited"]
           v == vfork_parent[p]
           woken == {q \in {up} : ~AutoReaped(up) /\ WaitWoken(up, event)}
                    \cup {q \in {v} : VforkWoken(p, v)}
<1>1. TypeOK BY DEF ModeInv
<1>2. /\ state[p] = "running" /\ pc[p] = "user"
      /\ vfork_parent' = [vfork_parent EXCEPT ![p] = None] /\ image' = [image EXCEPT ![p] = "own"]
      /\ UNCHANGED <<treeVars, pc, call>>
  BY DEF Exit, InUser
<1>3. /\ state' = [q \in Pid |-> IF q = p THEN "dead" ELSE IF q \in woken THEN "runnable" ELSE state[q]]
      /\ wake_result' = [q \in Pid |-> IF q \in woken THEN p ELSE wake_result[q]]
  BY DEF Exit
<1>4. v # None => v \in Pid /\ v # p /\ VforkWoken(p, v) BY <1>2, VforkWokenFact
<1>5. \A q \in Pid : q \in woken <=> \/ (q = up /\ ~AutoReaped(up) /\ WaitWoken(up, event))
                                     \/ (q = v /\ v # None)
  BY <1>4 DEF VforkWoken
<1>6. event \in Event /\ up \in Pid \cup {None} BY <1>1, ProcessType DEF Event
<1>7. TypeOK'
  <2> HIDE DEF woken, event, up
  <2>1. state' \in [Pid -> Alive \cup {"unused", "dropped", "dead"}] BY <1>1, <1>3 DEF TypeOK, Alive
  <2>2. wake_result' \in [Pid -> Pid \cup {None}] BY <1>1, <1>3 DEF TypeOK
  <2>3. EventsAfter(up, event) \in [Pid -> Seq(Event)] /\ Unlinked(up, p) \in [Pid -> SUBSET Pid]
    BY <1>1, <1>6, EventsType, UnlinkedType
  <2>4. child_events' \in [Pid -> Seq(Event)]
    BY <1>1, <2>3 DEF Exit, up, event, TypeOK
  <2>5. children' \in [Pid -> SUBSET Pid]
    BY <1>1, <2>3 DEF Exit, up, TypeOK
  <2>6. zombies' \subseteq Pid
    BY <1>1 DEF Exit, TypeOK
  <2>7. reports' \in [Pid -> Nat]
    <3>1. reports' = reports \/ reports' = [reports EXCEPT ![p] = @ + 1] BY DEF Exit
    <3>2. reports \in [Pid -> Nat] BY <1>1 DEF TypeOK
    <3> QED BY <3>1, <3>2
  <2>8. pidfd' \in [Pid -> {"Alive", "Exited", "Reaped"}] BY <1>1 DEF Exit, PidfdAtExit, TypeOK
  <2> QED BY <1>1, <1>2, <2>1, <2>2, <2>4, <2>5, <2>6, <2>7, <2>8 DEF TypeOK, treeVars
<1>8. ASSUME NEW q \in Pid, q # p
      PROVE  \/ state'[q] = state[q] /\ q # v
             \/ state'[q] = "runnable" /\ q = v
             \/ state'[q] = "runnable" /\ state[q] = "blocked" /\ call[q].api # "vfork"
  <2> HIDE DEF woken, v, up, event
  <2>1. state'[q] = IF q \in woken THEN "runnable" ELSE state[q] BY <1>3, <1>8
  <2>2. CASE q \notin woken BY <1>5, <2>1, <2>2, NoneAssumption
  <2>3. CASE q \in woken /\ q = v BY <2>1, <2>3
  <2>4. CASE q = up /\ WaitWoken(up, event) BY <1>5, <2>1, <2>2, <2>4, WaitWokenFact
  <2> QED BY <1>5, <2>2, <2>3, <2>4
<1>9. state'[p] = "dead" BY <1>3
<1>10. Modes' /\ OneRunning' /\ Sharing' /\ InVfork'
  <2> HIDE DEF woken, up, event
  <2> QED BY <1>2, <1>8, <1>9, Released DEF treeVars
<1> QED BY <1>7, <1>10 DEF ModeInv

\* A stop signal drops a process that is in no call.
LEMMA ModeStop ==
    ASSUME ModeInv, NEW p \in Pid, Stop(p)
    PROVE  ModeInv'
<1> DEFINE up == parent[p]
           event == [pid |-> p, kind |-> "Stopped"]
<1>1. TypeOK /\ Modes /\ OneRunning /\ Sharing /\ InVfork BY DEF ModeInv
<1>2. /\ state[p] = "runnable" /\ call[p] = None
      /\ state' = [q \in Pid |-> IF q = p THEN "dropped"
                                 ELSE IF q = up /\ WaitWoken(up, event) THEN "runnable" ELSE state[q]]
      /\ wake_result' = [q \in Pid |-> IF q = up /\ WaitWoken(up, event) THEN p ELSE wake_result[q]]
      /\ child_events' = EventsAfter(up, event)
      /\ UNCHANGED <<treeVars, vforkVars, pc, call, children, zombies, pidfd, reports>>
  BY DEF Stop
<1>3. event \in Event /\ up \in Pid \cup {None} BY <1>1, ProcessType DEF Event
<1> HIDE DEF event, up
<1>4. TypeOK'
  BY <1>1, <1>2, <1>3, EventsType DEF TypeOK, Alive, treeVars, vforkVars
<1>5. \A q \in Pid : q # p => \/ state'[q] = state[q]
                              \/ state'[q] = "runnable" /\ state[q] = "blocked" /\ call[q].api # "vfork"
  BY <1>2, WaitWokenFact
<1>6. state'[p] = "dropped" /\ pc[p] = "user" BY <1>1, <1>2 DEF Modes
<1>7. Modes' BY <1>1, <1>2, <1>5, <1>6 DEF Modes
<1>8. OneRunning' BY <1>1, <1>2, <1>5, <1>6 DEF OneRunning, treeVars
<1>9. ASSUME NEW c \in Pid, vfork_parent[c] # None
      PROVE  /\ call'[vfork_parent[c]] = call[vfork_parent[c]]
             /\ state'[vfork_parent[c]] \in {"running", "blocked"}
             /\ state'[c] \in Alive \cup {"dropped"}
  <2> DEFINE v == vfork_parent[c]
  <2>1. /\ v \in Pid /\ call[v] = [api |-> "vfork", child |-> c] /\ call[v] # None
        /\ state[v] \in {"running", "blocked"} /\ state[c] \in Alive \cup {"dropped"}
    BY <1>9, VforkParentFact
  <2>2. call[v].api = "vfork" BY <2>1
  <2>3. state'[v] = state[v] BY <1>2, <1>5, <2>1, <2>2
  <2> QED BY <1>2, <1>5, <1>6, <2>1, <2>3 DEF Alive
<1>10. Sharing' BY <1>1, <1>2, <1>9, SharingKept DEF treeVars, vforkVars
<1>11. InVfork' BY <1>1, <1>2, <1>5, <1>6 DEF InVfork, vforkVars
<1> QED BY <1>4, <1>7, <1>8, <1>10, <1>11 DEF ModeInv

\* wait4, waitid: the call ends, or will block.
LEMMA ModeLook ==
    ASSUME ModeInv, NEW p \in Pid, NEW w \in Wait, state[p] = "running", pc[p] # "block", Look(p, w)
    PROVE  ModeInv'
<1>1. TypeOK /\ Modes /\ OneRunning /\ Sharing /\ InVfork BY DEF ModeInv
<1>2. UNCHANGED <<state, treeVars, vforkVars, wake_result>> BY DEF Look
<1>3. \/ pc' = [pc EXCEPT ![p] = "user"] /\ call' = [call EXCEPT ![p] = None]
      \/ pc' = [pc EXCEPT ![p] = "block"] /\ call' = [call EXCEPT ![p] = w]
  BY DEF Look
<1>4. /\ \A q \in Pid : q # p => call'[q] = call[q] /\ pc'[q] = pc[q]
      /\ (pc'[p] = "user" /\ call'[p] = None) \/ (pc'[p] = "block" /\ call'[p] = w)
  BY <1>1, <1>3 DEF TypeOK
<1>5. w # None /\ w.api # "vfork" BY WaitFact
<1>6. TypeOK'
  <2>1. /\ children' \in [Pid -> SUBSET Pid] /\ zombies' \subseteq Pid
        /\ child_events' \in [Pid -> Seq(Event)] /\ reports' \in [Pid -> Nat]
        /\ pidfd' \in [Pid -> {"Alive", "Exited", "Reaped"}]
    BY <1>1, FirstFact, ConsumesType DEF reapVars, TypeOK, Look
  <2>2. pc' \in [Pid -> {"user", "look", "block"}] BY <1>1, <1>3 DEF TypeOK
  <2>3. call' \in [Pid -> Wait \cup Vfork \cup {None}] BY <1>1, <1>3 DEF TypeOK
  <2> QED BY <1>1, <1>2, <2>1, <2>2, <2>3 DEF TypeOK, treeVars, vforkVars
<1>7. Modes' BY <1>1, <1>2, <1>4, <1>5 DEF Modes
<1>8. OneRunning' BY <1>1, <1>2 DEF OneRunning, treeVars
<1>9. ASSUME NEW c \in Pid, vfork_parent[c] # None
      PROVE  /\ call'[vfork_parent[c]] = call[vfork_parent[c]]
             /\ state'[vfork_parent[c]] \in {"running", "blocked"}
             /\ state'[c] \in Alive \cup {"dropped"}
  <2> DEFINE v == vfork_parent[c]
  <2>1. /\ v \in Pid /\ pc[v] = "block" /\ state[v] \in {"running", "blocked"}
        /\ state[c] \in Alive \cup {"dropped"}
    BY <1>9, VforkParentFact, ZenonT(40)
  <2> QED BY <1>2, <1>4, <2>1
<1>10. Sharing' BY <1>1, <1>2, <1>9, SharingKept DEF treeVars, vforkVars
<1>11. InVfork' BY <1>1, <1>2, <1>4, <1>5 DEF InVfork, vforkVars
<1> QED BY <1>6, <1>7, <1>8, <1>10, <1>11 DEF ModeInv

\* The calls of wait4 and waitid, and what they look for
LEMMA LookFact ==
    ASSUME ModeInv, NEW p \in Pid
    PROVE  /\ \A w \in Wait : WaitCall(p, w) => state[p] = "running" /\ pc[p] # "block" /\ Look(p, w)
           /\ LookAgain(p) => /\ state[p] = "running" /\ pc[p] # "block"
                              /\ call[p] \in Wait /\ Look(p, call[p])
BY DEF WaitCall, LookAgain, InUser, ModeInv, Modes

LEMMA ModeNext == ModeInv /\ [Next]_vars => ModeInv'
<1> SUFFICES ASSUME ModeInv, [Next]_vars PROVE ModeInv' OBVIOUS
<1>1. ASSUME NEW p \in Pid, Step(p) PROVE ModeInv'
  BY LookFact, ModeLook, <1>1, ModeDispatch, ModeBlock DEF Step
<1>2. ASSUME NEW p \in Pid, Preempt(p) \/ Execve(p) \/ Exit(p) \/ Stop(p) PROVE ModeInv'
  BY <1>2, ModePreempt, ModeExecve, ModeExit, ModeStop
<1>3. ASSUME NEW p \in Pid, NEW c \in Pid, NEW flags \in CloneFlags, Clone(p, c, flags) PROVE ModeInv'
  BY <1>3, ModeClone
<1>4. ASSUME NEW p \in Pid, NEW action \in Action, SetSigchld(p, action) PROVE ModeInv'
  BY <1>4, ModeSetSigchld
<1>5. ASSUME NEW p \in Pid, NEW w \in Wait, WaitCall(p, w) PROVE ModeInv'
  BY <1>5, LookFact, ModeLook
<1>6. CASE UNCHANGED vars
  BY <1>6 DEF vars, ModeInv, TypeOK, Modes, OneRunning, Sharing, InVfork
<1> QED BY <1>1, <1>2, <1>3, <1>4, <1>5, <1>6 DEF Next

\* For every number of processes and CPUs the parent of a vfork stays blocked
\* while the child uses its memory, and is not left blocked when the child has
\* memory of its own or is gone (clone, execve and exit of runtime.rs and
\* manager.rs).
THEOREM Vforks == Spec => []VforkSuspends
<1>1. Init => ModeInv BY ModeInit
<1>2. ModeInv /\ [Next]_vars => ModeInv' BY ModeNext
<1>3. ModeInv => VforkSuspends
  <2> SUFFICES ASSUME ModeInv PROVE VforkSuspends OBVIOUS
  <2>1. ASSUME NEW c \in Pid, image[c] = "shared", state[c] = "running"
        PROVE  vfork_parent[c] # None /\ state[vfork_parent[c]] = "blocked"
                  /\ call[vfork_parent[c]] = [api |-> "vfork", child |-> c]
    BY <2>1, VforkWokenFact, VforkParentFact DEF ModeInv, Sharing
  <2>2. ASSUME NEW p \in Pid, state[p] = "blocked", call[p].api = "vfork"
        PROVE  image[call[p].child] = "shared" /\ state[call[p].child] # "dead"
    <3>1. pc[p] = "block" /\ call[p] # None BY <2>2 DEF ModeInv, Modes
    <3>2. call[p] \in Vfork BY <2>2, <3>1, ProcessType, WaitFact DEF ModeInv
    <3>3. vfork_parent[call[p].child] = p /\ call[p].child \in Pid
      BY <2>2, <3>1, <3>2, WaitFact DEF ModeInv, InVfork
    <3>4. vfork_parent[call[p].child] # None BY <3>3, NoneAssumption
    <3>5. state[call[p].child] \in Alive \cup {"dropped"} BY <3>3, <3>4, VforkParentFact
    <3>6. image[call[p].child] = "shared" BY <3>3, <3>4 DEF ModeInv, Sharing
    <3> QED BY <3>5, <3>6 DEF Alive
  <2> QED BY <2>1, <2>2 DEF VforkSuspends
<1> QED BY <1>1, <1>2, <1>3, PTL DEF Spec

-----------------------------------------------------------------------------
(* What the tables say of the dead *)

Gone(c) == [pid |-> c, kind |-> "Exited"]
\* Zombies and the reported are dead, and nobody is both.
Buried ==
    \A c \in Pid : /\ c \in zombies => state[c] = "dead"
                   /\ reports[c] = 0 \/ (reports[c] = 1 /\ state[c] = "dead" /\ c \notin zombies)
\* A zombie has one event, with its parent, and nobody else has one.
QueuesExact ==
    \A c \in Pid : /\ c \in zombies <=> \E p \in Pid, i \in Nat : At(p, i, Gone(c))
                   /\ \A p \in Pid, i \in Nat : At(p, i, Gone(c)) => p = parent[c]
                   /\ \A p \in Pid, i, j \in Nat : At(p, i, Gone(c)) /\ At(p, j, Gone(c)) => i = j
Linked ==
    \A p, c \in Pid : c \in children[p] <=>
        parent[c] = p /\ (state[c] \in Alive \cup {"dropped"} \/ c \in zombies)
\* A wait that is about to block, or has, has seen what its own CPU did.
Listening ==
    \A p \in Pid : state[p] \in {"running", "blocked"} /\ pc[p] = "block" /\ call[p].api # "vfork" =>
        \A i \in Nat, e \in Event : At(p, i, e) /\ Matches(call[p], e) => cpu[e.pid] # cpu[p]
TableInv == Buried /\ QueuesExact /\ Linked /\ PidfdTruthful
EventInv == TableInv /\ Listening

\* Queues: an event goes to the end, or one goes from the middle.
LEMMA AtAppend ==
    ASSUME TypeOK, NEW u \in Pid, NEW e \in Event,
           child_events' = [child_events EXCEPT ![u] = Append(@, e)]
    PROVE  \A f : \A p \in Pid, i \in Nat :
              At(p, i, f)' <=> At(p, i, f) \/ (p = u /\ i = Len(child_events[u]) + 1 /\ f = e)
<1> DEFINE s == child_events[u]
<1>1. s \in Seq(Event) BY ProcessType
<1>2. \A p \in Pid : child_events'[p] = IF p = u THEN Append(s, e) ELSE child_events[p] BY DEF TypeOK
<1>3. /\ Len(Append(s, e)) = Len(s) + 1 /\ Append(s, e)[Len(s) + 1] = e
      /\ \A j \in 1..Len(s) : Append(s, e)[j] = s[j]
  BY <1>1, AppendFact
<1> SUFFICES ASSUME NEW p \in Pid, NEW i \in Nat, NEW f
             PROVE  At(p, i, f)' <=> At(p, i, f) \/ (p = u /\ i = Len(s) + 1 /\ f = e)
  OBVIOUS
<1>4. CASE p # u BY <1>2, <1>4 DEF At
<1>5. CASE p = u
  <2>1. At(p, i, f)' <=> i \in 1..Len(Append(s, e)) /\ Append(s, e)[i] = f BY <1>2, <1>5 DEF At
  <2>2. At(p, i, f) <=> i \in 1..Len(s) /\ s[i] = f BY <1>5 DEF At
  <2>3. Len(s) \in Nat BY <1>1
  <2> HIDE DEF s
  <2>4. i \in 1..(Len(s) + 1) <=> i \in 1..Len(s) \/ i = Len(s) + 1 BY <2>3
  <2>5. Len(s) + 1 \notin 1..Len(s) BY <2>3
  <2> QED BY <1>3, <1>5, <2>1, <2>2, <2>4, <2>5
<1> QED BY <1>4, <1>5

LEMMA AtWithout ==
    ASSUME TypeOK, NEW u \in Pid, NEW n \in 1..Len(child_events[u]),
           child_events' = [child_events EXCEPT ![u] = WithoutNth(@, n)]
    PROVE  /\ \A f : \A p \in Pid, i \in Nat : p # u => (At(p, i, f)' <=> At(p, i, f))
           /\ \A f : \A i \in Nat : At(u, i, f)' <=> (i < n /\ At(u, i, f)) \/ (n <= i /\ At(u, i + 1, f))
<1> DEFINE s == child_events[u]
<1>1. s \in Seq(Event) /\ Len(s) \in Nat BY ProcessType
<1>2. \A p \in Pid : child_events'[p] = IF p = u THEN WithoutNth(s, n) ELSE child_events[p] BY DEF TypeOK
<1>3. /\ Len(WithoutNth(s, n)) = Len(s) - 1
      /\ \A j \in 1..(Len(s) - 1) : WithoutNth(s, n)[j] = IF j < n THEN s[j] ELSE s[j + 1]
  BY <1>1, WithoutFact
<1>4. \A f : \A p \in Pid, i \in Nat : p # u => (At(p, i, f)' <=> At(p, i, f)) BY <1>2 DEF At
<1>5. ASSUME NEW i \in Nat, NEW f
      PROVE  At(u, i, f)' <=> (i < n /\ At(u, i, f)) \/ (n <= i /\ At(u, i + 1, f))
  <2>1. At(u, i, f)' <=> i \in 1..(Len(s) - 1) /\ WithoutNth(s, n)[i] = f BY <1>2, <1>3 DEF At
  <2>2. /\ At(u, i, f) <=> i \in 1..Len(s) /\ s[i] = f
        /\ At(u, i + 1, f) <=> i + 1 \in 1..Len(s) /\ s[i + 1] = f
    BY DEF At
  <2>3. n \in 1..Len(s) OBVIOUS
  <2> HIDE DEF s
  <2>4. CASE i < n
    BY <1>1, <2>3, <2>4, <1>3, <2>1, <2>2
  <2>5. CASE ~(i < n)
    BY <1>1, <2>3, <2>5, <1>3, <2>1, <2>2
  <2> QED BY <2>4, <2>5
<1> QED BY <1>4, <1>5

\* A process that is not dead has no exit event.
LEMMA NoEvent ==
    ASSUME EventInv, NEW c \in Pid, state[c] # "dead"
    PROVE  c \notin zombies /\ reports[c] = 0 /\ \A p \in Pid, i \in Nat : ~At(p, i, Gone(c))
BY DEF EventInv, TableInv, Buried, QueuesExact

\* The tables and who is dead stay.
LEMMA TablesKept ==
    ASSUME EventInv, UNCHANGED <<parent, reapVars>>,
           \A c \in Pid : /\ state'[c] = "dead" <=> state[c] = "dead"
                          /\ state'[c] \in Alive \cup {"dropped"} <=> state[c] \in Alive \cup {"dropped"}
    PROVE  TableInv'
  BY DEF reapVars, EventInv, TableInv, Buried, QueuesExact, At, Linked, PidfdTruthful

\* No event comes, and no wait begins.
LEMMA ListeningKept ==
    ASSUME EventInv, UNCHANGED <<cpu, child_events>>,
           \A p \in Pid : state'[p] \in {"running", "blocked"} /\ pc'[p] = "block" /\ call'[p].api # "vfork" =>
               state[p] \in {"running", "blocked"} /\ pc[p] = "block" /\ call'[p] = call[p]
    PROVE  Listening'
  BY DEF Listening, Matches, At, EventInv

LEMMA EventInit == Init => EventInv
<1> SUFFICES ASSUME Init PROVE EventInv OBVIOUS
<1>1. \A e : \A p \in Pid, i \in Nat : ~At(p, i, e)
  BY DEF Init, At
<1>2. \A c \in Pid : /\ c \notin zombies /\ reports[c] = 0 /\ pidfd[c] = "Alive" /\ parent[c] = None
                     /\ children[c] = {} /\ state[c] # "dead" /\ pc[c] = "user"
  BY DEF Init
<1>3. Buried /\ PidfdTruthful BY <1>2 DEF Buried, PidfdTruthful
<1>4. QueuesExact BY <1>1, <1>2 DEF QueuesExact
<1>5. Linked BY <1>2, NoneAssumption DEF Linked
<1>6. Listening BY <1>2 DEF Listening
<1> QED BY <1>3, <1>4, <1>5, <1>6 DEF EventInv, TableInv

\* Scheduling, execve and rt_sigaction leave the tables alone.
LEMMA EventSame ==
    ASSUME ModeInv, EventInv, NEW p \in Pid,
           \/ Dispatch(p) \/ Preempt(p) \/ Block(p) \/ Execve(p)
           \/ \E action \in Action : SetSigchld(p, action)
    PROVE  EventInv'
<1>1. TypeOK BY DEF ModeInv
<1>2. UNCHANGED <<cpu, parent, reapVars>>
  BY DEF Dispatch, Preempt, Block, Execve, SetSigchld, treeVars
<1>3. /\ \A q \in Pid : state'[q] # state[q] =>
           state[q] \in Alive /\ state'[q] \in Alive /\ (state'[q] = "blocked" => pc[q] = "block" /\ state[q] = "running")
      /\ \A q \in Pid : pc'[q] = "block" => pc[q] = "block" /\ call'[q] = call[q]
      /\ \A q \in Pid : pc'[q] = "block" /\ state'[q] = "running" => state[q] = "running"
  <2>1. CASE Dispatch(p) BY <1>1, <2>1 DEF Dispatch, TypeOK, Alive
  <2>2. CASE Preempt(p) BY <1>1, <2>2 DEF Preempt, InUser, TypeOK, Alive
  <2>3. CASE Block(p) BY <1>1, <2>3 DEF Block, TypeOK, Alive
  <2>4. CASE Execve(p)
    <3> DEFINE v == vfork_parent[p]
    <3>1. pc' = pc /\ call' = call BY <2>4 DEF Execve
    <3>2. CASE ~VforkWoken(p, v) BY <2>4, <3>1, <3>2 DEF Execve
    <3>3. CASE VforkWoken(p, v)
      <4>1. state' = [state EXCEPT ![v] = "runnable"] BY <2>4, <3>3 DEF Execve
      <4>2. state[v] = "blocked" BY <3>3 DEF VforkWoken
      <4>3. \A q \in Pid : state'[q] = IF q = v THEN "runnable" ELSE state[q] BY <1>1, <4>1 DEF TypeOK
      <4> HIDE DEF v
      <4> QED BY <3>1, <4>2, <4>3 DEF Alive
    <3> QED BY <3>2, <3>3
  <2>5. CASE \E action \in Action : SetSigchld(p, action) BY <2>5 DEF SetSigchld
  <2> QED BY <2>1, <2>2, <2>3, <2>4, <2>5
<1>4. \A c \in Pid : /\ state'[c] = "dead" <=> state[c] = "dead"
                     /\ state'[c] \in Alive \cup {"dropped"} <=> state[c] \in Alive \cup {"dropped"}
  BY <1>3 DEF Alive
<1>5. TableInv' BY <1>2, <1>4, TablesKept
<1>6. child_events' = child_events BY <1>2 DEF reapVars
<1>7. \A q \in Pid : state'[q] \in {"running", "blocked"} /\ pc'[q] = "block" /\ call'[q].api # "vfork" =>
               state[q] \in {"running", "blocked"} /\ pc[q] = "block" /\ call'[q] = call[q]
  BY <1>3
<1>8. Listening' BY <1>2, <1>6, <1>7, ListeningKept
<1> QED BY <1>5, <1>8 DEF EventInv

\* clone: the child is linked to its parent and has no history.
LEMMA EventClone ==
    ASSUME ModeInv, EventInv, NEW p \in Pid, NEW c \in Pid, NEW flags \in CloneFlags, Clone(p, c, flags)
    PROVE  EventInv'
<1> DEFINE up == IF "PARENT" \in flags THEN parent[p] ELSE p
<1>1. TypeOK BY DEF ModeInv
<1>2. /\ state[c] = "unused" /\ state' = [state EXCEPT ![c] = "runnable"]
      /\ parent' = [parent EXCEPT ![c] = up]
      /\ children' = IF up = None THEN children ELSE [children EXCEPT ![up] = @ \cup {c}]
      /\ UNCHANGED <<cpu, zombies, child_events, pidfd, reports>>
  BY DEF Clone
<1>3. \A q \in Pid : /\ state'[q] = IF q = c THEN "runnable" ELSE state[q]
                     /\ parent'[q] = IF q = c THEN up ELSE parent[q]
  BY <1>1, <1>2 DEF TypeOK
<1>4. up \in Pid \cup {None} BY <1>1, ProcessType
<1>5. /\ \A q \in Pid : q # p => call'[q] = call[q] /\ pc'[q] = pc[q]
      /\ \/ call'[p] = call[p] /\ pc'[p] = pc[p]
         \/ call'[p] = [api |-> "vfork", child |-> c]
  BY <1>1 DEF Clone, TypeOK
<1> HIDE DEF up
<1>6. c \notin zombies /\ reports[c] = 0 /\ \A q \in Pid, i \in Nat : ~At(q, i, Gone(c))
  BY <1>2, NoEvent
<1>7. Buried' BY <1>2, <1>3, <1>6 DEF EventInv, TableInv, Buried
<1>8. QueuesExact'
  BY <1>2, <1>3, <1>6 DEF At, Gone, QueuesExact, EventInv, TableInv
<1>9. Linked'
  <2> SUFFICES ASSUME NEW q \in Pid, NEW d \in Pid
               PROVE  d \in children'[q] <=>
                        parent'[d] = q /\ (state'[d] \in Alive \cup {"dropped"} \/ d \in zombies)
    BY <1>2 DEF Linked
  <2>1. children'[q] = IF q = up THEN children[q] \cup {c} ELSE children[q]
    BY <1>1, <1>2, <1>4, NoneAssumption DEF TypeOK
  <2>2. d \in children[q] <=> parent[d] = q /\ (state[d] \in Alive \cup {"dropped"} \/ d \in zombies)
    BY DEF EventInv, TableInv, Linked
  <2>3. CASE d # c BY <1>3, <2>1, <2>2, <2>3
  <2>4. CASE d = c BY <1>2, <1>3, <1>6, <2>1, <2>2, <2>4 DEF Alive
  <2> QED BY <2>3, <2>4
<1>10. PidfdTruthful' BY <1>2, <1>3 DEF EventInv, TableInv, PidfdTruthful
<1>11. \A q \in Pid : state'[q] \in {"running", "blocked"} /\ pc'[q] = "block" /\ call'[q].api # "vfork" =>
               state[q] \in {"running", "blocked"} /\ pc[q] = "block" /\ call'[q] = call[q]
  BY <1>3, <1>5
<1>12. Listening' BY <1>2, <1>11, ListeningKept
<1> QED BY <1>7, <1>8, <1>9, <1>10, <1>12 DEF EventInv, TableInv

\* A parent is told: the event reaches its queue, or a wait4 takes it; a wait
\* that the event is for and that slept on the same CPU is woken.
LEMMA ListeningTold ==
    ASSUME ModeInv, EventInv, NEW u \in Pid \cup {None}, NEW e \in Event,
           UNCHANGED <<cpu, pc, call>>, child_events' \in {child_events, EventsAfter(u, e)},
           \A q \in Pid : state'[q] \in {"running", "blocked"} => state[q] = state'[q],
           u # None /\ state[u] = "running" => cpu[e.pid] # cpu[u],
           child_events' # child_events /\ WaitWoken(u, e) => state'[u] = "runnable"
    PROVE  Listening'
<1> SUFFICES ASSUME NEW p \in Pid, state'[p] \in {"running", "blocked"}, pc[p] = "block", call[p].api # "vfork",
                    NEW i \in Nat, NEW f \in Event, At(p, i, f)', Matches(call[p], f)
             PROVE  cpu[f.pid] # cpu[p]
  BY DEF Listening, Matches
<1>1. TypeOK /\ state[p] = state'[p] BY DEF ModeInv
<1>2. At(p, i, f) => cpu[f.pid] # cpu[p] BY <1>1 DEF EventInv, Listening
<1>3. CASE child_events' = child_events
  BY <1>3, <1>2 DEF At
<1>4. CASE child_events' # child_events
  <2>1. u # None /\ child_events' = [child_events EXCEPT ![u] = Append(@, e)] BY <1>4 DEF EventsAfter
  <2>2. At(p, i, f) \/ (p = u /\ f = e) BY <1>1, <2>1, AtAppend
  <2>3. CASE p = u /\ f = e
    BY <1>1, ProcessType, WaitFact, <2>1, <2>3, <1>4 DEF ModeInv, Modes, WaitWoken
  <2> QED BY <1>2, <2>2, <2>3
<1> QED BY <1>3, <1>4

\* Leaving the list of the parent's children
LEMMA UnlinkedFact ==
    ASSUME TypeOK, NEW u \in Pid \cup {None}, NEW c
    PROVE  \A q \in Pid : Unlinked(u, c)[q] = IF q = u THEN children[q] \ {c} ELSE children[q]
BY NoneAssumption DEF Unlinked, TypeOK

\* reap_exited_process: a zombie with an event, or neither.
LEMMA EventExit ==
    ASSUME ModeInv, EventInv, NEW p \in Pid, Exit(p)
    PROVE  EventInv'
<1> DEFINE up == parent[p]
           event == Gone(p)
           v == vfork_parent[p]
           taken == ~AutoReaped(up) /\ Takes(up, event)
           woken == {q \in {up} : ~AutoReaped(up) /\ WaitWoken(up, event)}
                    \cup {q \in {v} : VforkWoken(p, v)}
<1>1. TypeOK BY DEF ModeInv
<1>2. /\ state[p] = "running" /\ pc[p] = "user"
      /\ state' = [q \in Pid |-> IF q = p THEN "dead" ELSE IF q \in woken THEN "runnable" ELSE state[q]]
      /\ pidfd' = [pidfd EXCEPT ![p] = PidfdAtExit(up)]
      /\ UNCHANGED <<cpu, parent, pc, call>>
  BY DEF Exit, InUser, Gone, treeVars
<1>3. \/ /\ AutoReaped(up) /\ children' = Unlinked(up, p)
         /\ UNCHANGED <<zombies, child_events, reports>>
      \/ /\ ~AutoReaped(up) /\ taken /\ children' = Unlinked(up, p)
         /\ UNCHANGED <<zombies, child_events>> /\ reports' = [reports EXCEPT ![p] = @ + 1]
      \/ /\ ~AutoReaped(up) /\ ~taken /\ UNCHANGED <<children, reports>>
         /\ zombies' = zombies \cup {p} /\ child_events' = [child_events EXCEPT ![up] = Append(@, event)]
  BY DEF Exit, Gone, EventsAfter, AutoReaped
<1>4. event \in Event /\ up \in Pid \cup {None} BY <1>1, ProcessType DEF Event, Gone
<1>5. \A q \in woken : state[q] = "blocked" BY WaitWokenFact DEF VforkWoken
<1>6. up # None /\ ~AutoReaped(up) /\ WaitWoken(up, event) => up \in woken OBVIOUS
<1>7. AutoReaped(up) \/ up # None BY DEF AutoReaped
<1>8. child_events' \in {child_events, EventsAfter(up, event)} BY DEF Exit, Gone
<1> HIDE DEF woken, event, up, v
<1>9. /\ state'[p] = "dead"
      /\ \A q \in Pid : q # p => state'[q] = state[q] \/ (state'[q] = "runnable" /\ state[q] = "blocked")
  BY <1>2, <1>5
<1>10. p \notin zombies /\ reports[p] = 0 /\ \A q \in Pid, i \in Nat : ~At(q, i, Gone(p))
  BY <1>2, NoEvent
<1>11. \A c \in Pid : c # p => Gone(c) # event BY DEF Gone, event
<1>12. \A q \in Pid : /\ pidfd'[q] = IF q = p THEN PidfdAtExit(up) ELSE pidfd[q]
                      /\ q # p => (state'[q] = "dead" <=> state[q] = "dead")
                      /\ q # p => (state'[q] \in Alive \cup {"dropped"} <=> state[q] \in Alive \cup {"dropped"})
  BY <1>1, <1>2, <1>9 DEF TypeOK, Alive
<1>13. \A q \in Pid, c \in Pid :
         c \in children[q] <=> parent[c] = q /\ (state[c] \in Alive \cup {"dropped"} \/ c \in zombies)
  BY DEF EventInv, TableInv, Linked
<1>14. p \in zombies' <=> ~AutoReaped(up) /\ ~taken BY <1>3, <1>10
<1>15. \A c \in Pid : c # p => (c \in zombies' <=> c \in zombies) BY <1>3
<1>16. Buried'
  <2>1. \A c \in Pid : c # p => reports'[c] = reports[c] BY <1>1, <1>3 DEF TypeOK
  <2>2. reports'[p] = 0 \/ (reports'[p] = 1 /\ p \notin zombies') BY <1>1, <1>3, <1>10 DEF TypeOK
  <2> QED BY <1>9, <1>12, <1>15, <2>1, <2>2 DEF EventInv, TableInv, Buried
<1>17. QueuesExact'
  <2>1. CASE child_events' = child_events /\ zombies' = zombies
    BY <2>1, <1>2 DEF At, Gone, EventInv, TableInv, QueuesExact
  <2>2. CASE /\ ~AutoReaped(up) /\ zombies' = zombies \cup {p}
             /\ child_events' = [child_events EXCEPT ![up] = Append(@, event)]
    <3>1. up \in Pid BY <1>4, <1>7, <2>2
    <3>2. \A f : \A q \in Pid, i \in Nat :
             At(q, i, f)' <=> At(q, i, f) \/ (q = up /\ i = Len(child_events[up]) + 1 /\ f = event)
      BY <1>1, <1>4, <2>2, <3>1, AtAppend
    <3>3. Len(child_events[up]) + 1 \in Nat BY <1>1, <3>1, ProcessType
    <3> SUFFICES ASSUME NEW c \in Pid
                 PROVE  /\ c \in zombies' <=> \E q \in Pid, i \in Nat : At(q, i, Gone(c))'
                        /\ \A q \in Pid, i \in Nat : At(q, i, Gone(c))' => q = parent'[c]
                        /\ \A q \in Pid, i, j \in Nat : At(q, i, Gone(c))' /\ At(q, j, Gone(c))' => i = j
      BY DEF QueuesExact, Gone
    <3>4. CASE c = p
      BY <1>10, <3>2, <3>4, <1>2, <2>2, <3>1, <3>3 DEF event, up
    <3>5. CASE c # p
      BY <1>11, <3>2, <3>5, <1>2, <2>2 DEF EventInv, TableInv, QueuesExact
    <3> QED BY <3>4, <3>5
  <2> QED BY <1>3, <2>1, <2>2
<1>18. Linked'
  <2> SUFFICES ASSUME NEW q \in Pid, NEW d \in Pid
               PROVE  d \in children'[q] <=>
                        parent'[d] = q /\ (state'[d] \in Alive \cup {"dropped"} \/ d \in zombies')
    BY DEF Linked
  <2>1. \A r \in Pid : Unlinked(up, p)[r] = IF r = up THEN children[r] \ {p} ELSE children[r]
    BY <1>1, <1>4, UnlinkedFact
  <2>2. d # p => (d \in children'[q] <=> d \in children[q]) BY <1>3, <2>1
  <2>3. p \in children'[q] <=> parent[p] = q /\ ~AutoReaped(up) /\ ~taken
    <3>1. p \in children[q] <=> parent[p] = q BY <1>2, <1>13 DEF Alive
    <3> QED BY <1>3, <2>1, <3>1 DEF up
  <2>4. CASE d # p BY <1>2, <1>12, <1>13, <1>15, <2>2, <2>4
  <2>5. CASE d = p BY <1>2, <1>9, <1>14, <2>3, <2>5 DEF Alive
  <2> QED BY <2>4, <2>5
<1>19. PidfdTruthful'
  BY <1>12, <1>9, <1>14, <1>15 DEF PidfdAtExit, EventInv, TableInv, PidfdTruthful
<1>20. Listening'
  <2>1. \A q \in Pid : state'[q] \in {"running", "blocked"} => state[q] = state'[q] BY <1>9
  <2>2. ASSUME up # None, state[up] = "running", cpu[event.pid] = cpu[up] PROVE up = p
    BY <1>4, <2>2, <1>2 DEF event, Gone, ModeInv, OneRunning
  <2>3. CASE up # p
    <3>1. child_events' # child_events /\ WaitWoken(up, event) => state'[up] = "runnable"
      BY <1>3, <1>4, <1>7, <1>2, <1>6, <2>3, WaitWokenFact
    <3> QED BY <1>2, <1>4, <1>8, <2>1, <2>2, <2>3, <3>1, ListeningTold
  <2>4. CASE up = p
    <3>1. \A q \in Pid : state'[q] \in {"running", "blocked"} => q # p BY <1>9
    <3> SUFFICES ASSUME NEW q \in Pid, state'[q] \in {"running", "blocked"}, pc[q] = "block", call[q].api # "vfork",
                        NEW i \in Nat, NEW f \in Event, At(q, i, f)', Matches(call[q], f)
                 PROVE  cpu[f.pid] # cpu[q]
      BY <1>2 DEF Listening, Matches
    <3>2. q # up BY <2>4, <3>1
    <3>3. At(q, i, f)
      BY <1>1, <1>3, <3>2 DEF TypeOK, At
    <3> QED BY <2>1, <3>3 DEF EventInv, Listening
  <2> QED BY <2>3, <2>4
<1> QED BY <1>16, <1>17, <1>18, <1>19, <1>20 DEF EventInv, TableInv

\* A stop leaves an event, but no exit event.
LEMMA EventStop ==
    ASSUME ModeInv, EventInv, NEW p \in Pid, Stop(p)
    PROVE  EventInv'
<1> DEFINE up == parent[p]
           event == [pid |-> p, kind |-> "Stopped"]
<1>1. TypeOK BY DEF ModeInv
<1>2. /\ state[p] = "runnable" /\ \A q \in Pid : cpu[q] = cpu[p] => state[q] # "running"
      /\ state' = [q \in Pid |-> IF q = p THEN "dropped"
                                 ELSE IF q = up /\ WaitWoken(up, event) THEN "runnable" ELSE state[q]]
      /\ child_events' = EventsAfter(up, event)
      /\ UNCHANGED <<cpu, parent, pc, call, children, zombies, pidfd, reports>>
  BY DEF Stop, treeVars
<1>3. event \in Event /\ event.pid = p /\ up \in Pid \cup {None} BY <1>1, ProcessType DEF Event
<1>4. \A c \in Pid : Gone(c) # event BY DEF Gone
<1> HIDE DEF event, up
<1>5. /\ state'[p] = "dropped"
      /\ \A q \in Pid : q # p => state'[q] = state[q] \/ (state'[q] = "runnable" /\ state[q] = "blocked")
  BY <1>2, WaitWokenFact
<1>6. \A c \in Pid : /\ state'[c] = "dead" <=> state[c] = "dead"
                     /\ state'[c] \in Alive \cup {"dropped"} <=> state[c] \in Alive \cup {"dropped"}
  BY <1>2, <1>5 DEF Alive
<1>7. ASSUME NEW c \in Pid, NEW q \in Pid, NEW i \in Nat PROVE At(q, i, Gone(c))' <=> At(q, i, Gone(c))
  BY <1>1, <1>3, <1>4, AtAppend, <1>2 DEF At, Gone, EventsAfter
<1>8. QueuesExact' BY <1>2, <1>7 DEF EventInv, TableInv, QueuesExact, Gone
<1>9. Buried' BY <1>2, <1>6 DEF EventInv, TableInv, Buried
<1>10. Linked' BY <1>2, <1>6 DEF EventInv, TableInv, Linked
<1>11. PidfdTruthful' BY <1>2, <1>6 DEF EventInv, TableInv, PidfdTruthful
<1>12. Listening'
  BY <1>5, <1>2, <1>3, WaitWokenFact, ListeningTold
<1> QED BY <1>8, <1>9, <1>10, <1>11, <1>12 DEF EventInv, TableInv

\* An event is consumed: the others stay, each once.
LEMMA QueueConsumed ==
    ASSUME TypeOK, EventInv, NEW p \in Pid, NEW n \in 1..Len(child_events[p]),
           child_events' = [child_events EXCEPT ![p] = WithoutNth(@, n)], NEW c \in Pid
    PROVE  /\ \A q \in Pid, i \in Nat : At(q, i, Gone(c))' => q = parent[c]
           /\ \A q \in Pid, i, j \in Nat : At(q, i, Gone(c))' /\ At(q, j, Gone(c))' => i = j
           /\ (\E q \in Pid, i \in Nat : At(q, i, Gone(c))') <=> c \in zombies /\ child_events[p][n] # Gone(c)
<1> DEFINE g == Gone(c)
<1>1. /\ c \in zombies <=> \E q \in Pid, i \in Nat : At(q, i, g)
      /\ \A q \in Pid, i \in Nat : At(q, i, g) => q = parent[c]
      /\ \A q \in Pid, i, j \in Nat : At(q, i, g) /\ At(q, j, g) => i = j
  BY DEF EventInv, TableInv, QueuesExact
<1>2. Len(child_events[p]) \in Nat BY ProcessType
<1>3. n \in Nat /\ n >= 1 /\ (At(p, n, g) <=> child_events[p][n] = g) BY <1>2 DEF At
<1>4. /\ \A f : \A q \in Pid, i \in Nat : q # p => (At(q, i, f)' <=> At(q, i, f))
      /\ \A f : \A i \in Nat : At(p, i, f)' <=> (i < n /\ At(p, i, f)) \/ (n <= i /\ At(p, i + 1, f))
  BY AtWithout
<1>5. /\ \A q \in Pid, i \in Nat : q # p => (At(q, i, g)' <=> At(q, i, g))
      /\ \A i \in Nat : At(p, i, g)' <=> (i < n /\ At(p, i, g)) \/ (n <= i /\ At(p, i + 1, g))
  BY <1>4 DEF Gone
<1> DEFINE Old(q, i) == At(q, i, g)
           New(q, i) == At(q, i, g)'
<1>6. /\ c \in zombies <=> \E q \in Pid, i \in Nat : Old(q, i)
      /\ \A q \in Pid, i \in Nat : Old(q, i) => q = parent[c]
      /\ \A q \in Pid, i, j \in Nat : Old(q, i) /\ Old(q, j) => i = j
      /\ Old(p, n) <=> child_events[p][n] = g
      /\ \A q \in Pid, i \in Nat : q # p => (New(q, i) <=> Old(q, i))
      /\ \A i \in Nat : New(p, i) <=> (i < n /\ Old(p, i)) \/ (n <= i /\ Old(p, i + 1))
  BY <1>1, <1>3, <1>5
<1>7. /\ \A q \in Pid, i \in Nat : New(q, i) => q = parent[c]
      /\ \A q \in Pid, i, j \in Nat : New(q, i) /\ New(q, j) => i = j
      /\ (\E q \in Pid, i \in Nat : New(q, i)) <=> c \in zombies /\ child_events[p][n] # g
  <2> HIDE DEF Old, New, g
  <2>1. \A q \in Pid, i \in Nat : New(q, i) => \E j \in Nat : Old(q, j) /\ (q = p => j # n)
    BY <1>6, <1>3
  <2>2. \A q \in Pid, i \in Nat : New(q, i) => q = parent[c] BY <1>6, <2>1
  <2>3. \A q \in Pid, i, j \in Nat : New(q, i) /\ New(q, j) => i = j
    BY <1>6, <1>3
  <2>4. ASSUME NEW q \in Pid, NEW i \in Nat, New(q, i) PROVE c \in zombies /\ child_events[p][n] # g
    <3>1. PICK j \in Nat : Old(q, j) /\ (q = p => j # n) BY <2>1, <2>4
    <3>2. ~Old(p, n) BY <1>3, <1>6, <3>1
    <3> QED BY <1>6, <3>1, <3>2
  <2>5. ASSUME c \in zombies, child_events[p][n] # g PROVE \E q \in Pid, i \in Nat : New(q, i)
    <3>1. PICK q \in Pid, i \in Nat : Old(q, i) BY <1>6, <2>5
    <3>2. CASE q # p BY <1>6, <3>1, <3>2
    <3>3. CASE q = p /\ i < n BY <1>6, <3>1, <3>3
    <3>4. CASE q = p /\ i > n
      <4>1. i - 1 \in Nat /\ n <= i - 1 /\ (i - 1) + 1 = i BY <1>3, <3>4
      <4>2. New(p, i - 1) BY <1>6, <3>1, <3>4, <4>1
      <4> QED BY <4>1, <4>2
    <3>5. ~(q = p /\ i = n) BY <1>6, <2>5, <3>1
    <3> QED BY <1>3, <3>2, <3>3, <3>4, <3>5
  <2> QED BY <2>2, <2>3, <2>4, <2>5
<1> QED BY <1>7

\* wait4, waitid: with the event goes the zombie.
LEMMA EventLook ==
    ASSUME ModeInv, EventInv, NEW p \in Pid, NEW w \in Wait, state[p] = "running", pc[p] # "block", Look(p, w)
    PROVE  EventInv'
<1>1. TypeOK BY DEF ModeInv
<1>2. UNCHANGED <<state, cpu, parent>> BY DEF Look, treeVars
<1>3. /\ \A q \in Pid : q # p => call'[q] = call[q] /\ pc'[q] = pc[q]
      /\ pc'[p] = "user" \/ (pc'[p] = "block" /\ call'[p] = w /\ Found(p, w) = {} /\ UNCHANGED reapVars)
  BY <1>1 DEF Look, TypeOK
<1>4. CASE UNCHANGED reapVars
  <2>1. TableInv' BY <1>2, <1>4, TablesKept
  <2>2. Listening'
    BY <1>2, <1>4, <1>3 DEF Listening, Matches, reapVars, At, EventInv, Found
  <2> QED BY <2>1, <2>2 DEF EventInv
<1>5. CASE Found(p, w) # {} /\ Consumes(p, First(p, w))
  <2> DEFINE n == First(p, w)
             e == child_events[p][n]
             c == e.pid
  <2>1. n \in 1..Len(child_events[p]) /\ e \in Event BY <1>1, <1>5, FirstFact
  <2>2. c \in Pid /\ (e.kind = "Exited" <=> e = Gone(c)) BY <2>1 DEF Event, Gone
  <2>3. /\ child_events' = [child_events EXCEPT ![p] = WithoutNth(@, n)]
        /\ zombies' = IF e.kind = "Exited" THEN zombies \ {c} ELSE zombies
        /\ children' = IF e.kind = "Exited" /\ c \in zombies THEN Unlinked(p, c) ELSE children
        /\ pidfd' = IF e.kind = "Exited" /\ c \in zombies THEN [pidfd EXCEPT ![c] = "Reaped"] ELSE pidfd
        /\ reports' = IF e.kind = "Exited" THEN [reports EXCEPT ![c] = @ + 1] ELSE reports
    BY <1>5 DEF Consumes
  <2> DEFINE exited == e.kind = "Exited"
  <2>4. exited => c \in zombies /\ p = parent[c] /\ reports[c] = 0 /\ state[c] = "dead"
    BY <1>1, <2>1, <2>2, ProcessType DEF At, EventInv, TableInv, QueuesExact, Buried
  <2>5. \A d \in Pid : e = Gone(d) <=> exited /\ d = c BY <2>2 DEF Gone
  <2>6. child_events' = [child_events EXCEPT ![p] = WithoutNth(@, First(p, w))] BY <2>3
  <2>7. \A d \in Pid : d \in zombies' <=> d \in zombies /\ ~(exited /\ d = c) BY <2>3
  <2>8. \A d \in Pid : reports'[d] = IF exited /\ d = c THEN 1 ELSE reports[d]
    BY <1>1, <2>2, <2>3, <2>4 DEF TypeOK
  <2>9. \A d \in Pid : pidfd'[d] = IF exited /\ d = c THEN "Reaped" ELSE pidfd[d]
    BY <1>1, <2>2, <2>3, <2>4 DEF TypeOK
  <2>10. \A q, d \in Pid : d \in children'[q] <=> d \in children[q] /\ ~(exited /\ d = c /\ q = p)
    <3>1. \A q \in Pid : Unlinked(p, c)[q] = IF q = p THEN children[q] \ {c} ELSE children[q]
      BY <1>1, UnlinkedFact
    <3> QED BY <2>3, <2>4, <3>1
  <2> HIDE DEF n, e, c, exited
  <2>11. Buried' BY <1>2, <2>4, <2>7, <2>8 DEF EventInv, TableInv, Buried
  <2>12. QueuesExact'
    <3> SUFFICES ASSUME NEW d \in Pid
                 PROVE  /\ d \in zombies' <=> \E q \in Pid, i \in Nat : At(q, i, Gone(d))'
                        /\ \A q \in Pid, i \in Nat : At(q, i, Gone(d))' => q = parent[d]
                        /\ \A q \in Pid, i, j \in Nat : At(q, i, Gone(d))' /\ At(q, j, Gone(d))' => i = j
      BY <1>2 DEF QueuesExact, Gone
    <3>1. /\ \A q \in Pid, i \in Nat : At(q, i, Gone(d))' => q = parent[d]
          /\ \A q \in Pid, i, j \in Nat : At(q, i, Gone(d))' /\ At(q, j, Gone(d))' => i = j
          /\ (\E q \in Pid, i \in Nat : At(q, i, Gone(d))') <=> d \in zombies /\ child_events[p][n] # Gone(d)
      BY <1>1, <2>1, <2>6, QueueConsumed DEF n
    <3>2. child_events[p][n] = Gone(d) <=> exited /\ d = c BY <2>5 DEF e
    <3> QED BY <2>7, <3>1, <3>2
  <2>13. Linked' BY <1>2, <2>4, <2>7, <2>10 DEF EventInv, TableInv, Linked, Alive
  <2>14. PidfdTruthful' BY <1>2, <2>4, <2>7, <2>9 DEF EventInv, TableInv, PidfdTruthful
  <2>15. Listening'
    <3> SUFFICES ASSUME NEW q \in Pid, state[q] \in {"running", "blocked"}, pc'[q] = "block", call'[q].api # "vfork",
                        NEW i \in Nat, NEW f \in Event, At(q, i, f)', Matches(call'[q], f)
                 PROVE  cpu[f.pid] # cpu[q]
      BY <1>2 DEF Listening, Matches
    <3>1. q # p BY <1>3, <1>5
    <3>2. child_events'[q] = child_events[q] BY <1>1, <2>3, <3>1 DEF TypeOK
    <3>3. At(q, i, f) BY <3>2 DEF At
    <3> QED BY <1>3, <3>1, <3>3 DEF EventInv, Listening
  <2> QED BY <2>11, <2>12, <2>13, <2>14, <2>15 DEF EventInv, TableInv
<1> QED BY <1>4, <1>5 DEF Look

LEMMA EventNext == ModeInv /\ EventInv /\ [Next]_vars => EventInv'
<1> SUFFICES ASSUME ModeInv, EventInv, [Next]_vars PROVE EventInv' OBVIOUS
<1>1. ASSUME NEW p \in Pid, Step(p) PROVE EventInv'
  BY LookFact, EventLook, <1>1, EventSame DEF Step
<1>2. ASSUME NEW p \in Pid, Preempt(p) \/ Execve(p) \/ Exit(p) \/ Stop(p) PROVE EventInv'
  BY <1>2, EventSame, EventExit, EventStop
<1>3. ASSUME NEW p \in Pid, NEW c \in Pid, NEW flags \in CloneFlags, Clone(p, c, flags) PROVE EventInv'
  BY <1>3, EventClone
<1>4. ASSUME NEW p \in Pid, NEW action \in Action, SetSigchld(p, action) PROVE EventInv'
  BY <1>4, EventSame
<1>5. ASSUME NEW p \in Pid, NEW w \in Wait, WaitCall(p, w) PROVE EventInv'
  BY <1>5, LookFact, EventLook
<1>6. CASE UNCHANGED vars
  BY <1>6, TablesKept, ListeningKept DEF vars, reapVars, EventInv
<1> QED BY <1>1, <1>2, <1>3, <1>4, <1>5, <1>6 DEF Next

\* The exit events of a process, place by place
LEMMA ExitEventsFact ==
    ASSUME TypeOK, NEW c \in Pid
    PROVE  \A x : x \in ExitEvents(c) <=> \E p \in Pid, i \in Nat : x = <<p, i>> /\ At(p, i, Gone(c))
  BY ProcessType DEF ExitEvents, Gone, At

\* For every number of processes and CPUs, what a parent can wait for is exact: a
\* zombie is a process with one exit event, with its parent; no exit is reported
\* twice; the links between parents and children and the pidfds agree with it; and
\* no wait sleeps through an event of its own CPU (manager.rs, wait4.rs, waitid.rs).
THEOREM ChildEvents == Spec => []ChildEventsExact
<1>1. Init => ModeInv /\ EventInv BY ModeInit, EventInit
<1>2. ModeInv /\ EventInv /\ [Next]_vars => (ModeInv /\ EventInv)' BY ModeNext, EventNext
<1>3. ModeInv /\ EventInv => ChildEventsExact
  <2> SUFFICES ASSUME ModeInv, EventInv PROVE ChildEventsExact OBVIOUS
  <2>1. TypeOK BY DEF ModeInv
  <2>2. ZombieHasEvent
    <3> SUFFICES ASSUME NEW c \in Pid
                 PROVE  /\ c \in zombies <=> ExitEvents(c) # {}
                        /\ Cardinality(ExitEvents(c)) <= 1
                        /\ \A x \in ExitEvents(c) : x[1] = parent[c]
                        /\ reports[c] <= 1
                        /\ reports[c] = 1 => c \notin zombies
      BY DEF ZombieHasEvent
    <3>1. \A x : x \in ExitEvents(c) <=> \E p \in Pid, i \in Nat : x = <<p, i>> /\ At(p, i, Gone(c))
      BY <2>1, ExitEventsFact
    <3>2. /\ c \in zombies <=> \E p \in Pid, i \in Nat : At(p, i, Gone(c))
          /\ \A p \in Pid, i \in Nat : At(p, i, Gone(c)) => p = parent[c]
          /\ \A p \in Pid, i, j \in Nat : At(p, i, Gone(c)) /\ At(p, j, Gone(c)) => i = j
      BY DEF EventInv, TableInv, QueuesExact
    <3>3. c \in zombies <=> ExitEvents(c) # {} BY <3>1, <3>2
    <3>4. \A x \in ExitEvents(c) : x[1] = parent[c] BY <3>1, <3>2
    <3>5. \A x, y \in ExitEvents(c) : x = y BY <3>1, <3>2
    <3>6. Cardinality(ExitEvents(c)) <= 1
      <4>1. CASE ExitEvents(c) = {} BY <4>1, FS_EmptySet
      <4>2. CASE ExitEvents(c) # {}
        BY <4>2, <3>5, FS_Singleton
      <4> QED BY <4>1, <4>2
    <3> QED BY <3>3, <3>4, <3>6 DEF EventInv, TableInv, Buried
  <2>3. ChildrenExact
    BY <2>1, ProcessType DEF EventInv, TableInv, Linked, ChildrenExact
  <2>4. NoMissedLocalEvent
    BY <2>1, ProcessType DEF NoMissedLocalEvent, ModeInv, Modes, Found, At, EventInv, Listening
  <2> QED BY <2>2, <2>3, <2>4 DEF ChildEventsExact, EventInv, TableInv
<1> QED BY <1>1, <1>2, <1>3, PTL DEF Spec

-----------------------------------------------------------------------------
(* The virtual terminals *)

\* A partial copy of the screen
Partial == UNION {[S -> Colour] : S \in SUBSET Cell}
Drawer(t) == vtCall[t].at \in {"store", "paint"}
VtCallOK(x) ==
    /\ x.at \in {"user", "load", "store", "paint", "snap", "switch", "enter", "redraw", "redrawn"}
    /\ x.at = "user" => x = VtUser
    /\ x.at # "user" => x.v \in Vt
    /\ x.at \in {"load", "store", "paint", "redrawn"} => x.c \in Cell /\ x.colour \in Colour
    /\ x.at = "snap" => x.to \in Vt /\ x.read \in Partial
    /\ x.at = "switch" => x.from \in Vt
    /\ x.at \in {"redraw", "redrawn"} => x.todo \in SUBSET Cell
VtTypeOK ==
    /\ activeVt \in Vt
    /\ pixels \in [Vt -> [Cell -> Colour] \cup {NoPixels}]
    /\ surface \in [Cell -> Colour]
    /\ ttyMode \in [Vt -> {"text", "graphics"}]
    /\ DOMAIN vtCall = VtThread /\ vtCall = [t \in VtThread |-> vtCall[t]]
    /\ \A t \in VtThread : VtCallOK(vtCall[t])
    /\ drawn \in [Vt -> [Cell -> Colour \cup {NoPixels}]]
    /\ torn \in SUBSET (Vt \X Cell)
    /\ smeared \in SUBSET Cell

\* One thread draws on a terminal at a time, what it draws is the last that was
\* drawn there; it has looked whether there are pixels to keep.
Drawers ==
    \A t \in VtThread : Drawer(t) =>
        /\ \A s \in VtThread : Drawer(s) /\ vtCall[s].v = vtCall[t].v => s = t
        /\ drawn[vtCall[t].v][vtCall[t].c] = vtCall[t].colour
        /\ vtCall[t].at = "paint" /\ vtCall[t].kept => pixels[vtCall[t].v] # NoPixels
\* A switch has seen to it that what it leaves has pixels; a redraw is of pixels.
Switchers ==
    \A t \in VtThread : /\ vtCall[t].at = "switch" => pixels[vtCall[t].from] # NoPixels
                        /\ vtCall[t].at \in {"redraw", "redrawn"} => pixels[vtCall[t].v] # NoPixels

\* A cell whose pixel, or whose place on the screen, a draw has still to write
Storing(v, c) ==
    \E t \in VtThread : /\ vtCall[t].at = "store" \/ (vtCall[t].at = "paint" /\ ~vtCall[t].kept)
                        /\ vtCall[t].v = v /\ vtCall[t].c = c
Drawing(v, c) == \E t \in VtThread : Drawer(t) /\ vtCall[t].v = v /\ vtCall[t].c = c
Redrawing(v, c) ==
    \E t \in VtThread : /\ vtCall[t].at \in {"enter", "redraw", "redrawn"} /\ vtCall[t].v = v
                        /\ vtCall[t].at # "enter" => \/ c \in vtCall[t].todo
                                                     \/ vtCall[t].at = "redrawn" /\ vtCall[t].c = c
PixelsKept ==
    \A v \in Vt, c \in Cell :
        Kept(v, c) /\ pixels[v] # NoPixels => pixels[v][c] = drawn[v][c] \/ Storing(v, c)
\* A terminal without pixels that is not active has nothing to lose but what is
\* being drawn; nor has one that was not active when the draw under way looked.
NothingUnsaved ==
    /\ \A v \in Vt, c \in Cell :
         pixels[v] = NoPixels /\ v # activeVt /\ Kept(v, c) =>
             \E t \in VtThread : vtCall[t].at = "store" /\ vtCall[t].v = v /\ vtCall[t].c = c /\ ~vtCall[t].active
    /\ \A t \in VtThread : vtCall[t].at = "store" /\ ~vtCall[t].active /\ pixels[vtCall[t].v] = NoPixels =>
             \A c \in Cell : Kept(vtCall[t].v, c) => c = vtCall[t].c
\* What a first snapshot has read is what the terminal drew.
SnapsTrue ==
    \A t \in VtThread : vtCall[t].at = "snap" /\ pixels[vtCall[t].v] = NoPixels =>
        \A c \in DOMAIN vtCall[t].read :
            Kept(vtCall[t].v, c) => vtCall[t].read[c] = drawn[vtCall[t].v][c] \/ Storing(vtCall[t].v, c)
\* The screen shows the active terminal: always when the screen is all there is,
\* else once it is drawn and redrawn.
ScreenShown ==
    \A c \in Cell \ smeared :
        Kept(activeVt, c) /\ (pixels[activeVt] = NoPixels \/ ttyMode[activeVt] = "text") =>
            \/ surface[c] = drawn[activeVt][c]
            \/ Drawing(activeVt, c)
            \/ pixels[activeVt] # NoPixels /\ Redrawing(activeVt, c)
ScreenInv == VtTypeOK /\ Drawers /\ Switchers /\ PixelsKept /\ NothingUnsaved /\ SnapsTrue /\ ScreenShown

-----------------------------------------------------------------------------
(* Steps *)

LEMMA VtGoes ==
    ASSUME VtTypeOK, NEW t \in VtThread, NEW x, Goes(t, x)
    PROVE  /\ DOMAIN vtCall' = VtThread /\ vtCall' = [s \in VtThread |-> vtCall'[s]]
           /\ vtCall'[t] = x
           /\ \A s \in VtThread : s # t => vtCall'[s] = vtCall[s]
BY DEF VtTypeOK, Goes

LEMMA NothingRead == NoneRead \in Partial /\ DOMAIN NoneRead = {}
  BY VtAssumption DEF NoneRead, Partial

LEMMA PixelsOf ==
    ASSUME VtTypeOK, NEW v \in Vt, NEW f \in [Cell -> Colour]
    PROVE  /\ f # NoPixels
           /\ pixels[v] # NoPixels => pixels[v] \in [Cell -> Colour]
           /\ Pixels(v) \in [Cell -> Colour]
BY VtAssumption DEF VtTypeOK, Pixels

\* A step of a thread that is not drawing and changes its own call alone.
LEMMA CallKeeps ==
    ASSUME ScreenInv, NEW t \in VtThread, NEW x, Goes(t, x), VtCallOK(x), ~Drawer(t),
           x.at \notin {"store", "paint", "switch"},
           x.at = "snap" => x.read = NoneRead,
           x.at \in {"redraw", "redrawn"} => pixels[x.v] # NoPixels,
           ttyMode' \in [Vt -> {"text", "graphics"}],
           UNCHANGED <<activeVt, pixels, surface, drawn, torn, smeared>>
    PROVE  /\ VtTypeOK' /\ Drawers' /\ Switchers' /\ PixelsKept' /\ NothingUnsaved' /\ SnapsTrue'
           /\ vtCall'[t] = x /\ \A s \in VtThread : s # t => vtCall'[s] = vtCall[s]
           /\ \A v \in Vt, c \in Cell : Drawing(v, c) => Drawing(v, c)'
<1>1. /\ DOMAIN vtCall' = VtThread /\ vtCall' = [s \in VtThread |-> vtCall'[s]]
      /\ vtCall'[t] = x
      /\ \A s \in VtThread : s # t => vtCall'[s] = vtCall[s]
  BY VtGoes DEF ScreenInv
<1>2. VtTypeOK' BY <1>1 DEF ScreenInv, VtTypeOK, VtCallOK
<1>3. Drawers' /\ Switchers' BY <1>1 DEF ScreenInv, Drawers, Drawer, Switchers
<1>4. \A v \in Vt, c \in Cell : /\ Storing(v, c) => Storing(v, c)'
                                /\ Drawing(v, c) => Drawing(v, c)'
  BY <1>1 DEF Storing, Drawing, Drawer
<1>5. PixelsKept' BY <1>4 DEF ScreenInv, PixelsKept, Kept
<1>6. NothingUnsaved' BY <1>1 DEF ScreenInv, NothingUnsaved, Kept, Drawer
<1>7. SnapsTrue'
  <2> SUFFICES ASSUME NEW s \in VtThread, vtCall'[s].at = "snap", pixels'[vtCall'[s].v] = NoPixels,
                      NEW d \in DOMAIN vtCall'[s].read, Kept(vtCall[s].v, d)'
               PROVE  vtCall'[s].read[d] = drawn'[vtCall'[s].v][d] \/ Storing(vtCall[s].v, d)'
    BY DEF SnapsTrue
  <2>1. vtCall'[s] = vtCall[s] BY <1>1 DEF NoneRead
  <2>2. vtCall[s].v \in Vt /\ d \in Cell BY <2>1 DEF ScreenInv, VtTypeOK, VtCallOK, Partial
  <2> QED BY <2>1, <2>2, <1>4 DEF ScreenInv, SnapsTrue, Kept
<1> QED BY <1>1, <1>2, <1>3, <1>4, <1>5, <1>6, <1>7

LEMMA WriteStartKeeps ==
    ASSUME ScreenInv, NEW t \in VtThread, NEW v \in Vt, NEW c \in Cell, NEW colour \in Colour,
           WriteStart(t, v, c, colour)
    PROVE  ScreenInv'
<1> DEFINE x == [at |-> "load", v |-> v, c |-> c, colour |-> colour]
<1>1. /\ vtCall[t].at = "user" /\ Goes(t, x) /\ VtCallOK(x) /\ x.at = "load"
      /\ UNCHANGED <<activeVt, pixels, surface, ttyMode, drawn, torn, smeared>>
  BY DEF WriteStart, VtCalling, VtUser, VtCallOK
<1> HIDE DEF x
<1>2. /\ VtTypeOK' /\ Drawers' /\ Switchers' /\ PixelsKept' /\ NothingUnsaved' /\ SnapsTrue'
      /\ vtCall'[t] = x /\ \A s \in VtThread : s # t => vtCall'[s] = vtCall[s]
      /\ \A w \in Vt, d \in Cell : Drawing(w, d) => Drawing(w, d)'
  BY <1>1, CallKeeps DEF Drawer, ScreenInv, VtTypeOK
<1>3. \A w \in Vt, d \in Cell : Redrawing(w, d) => Redrawing(w, d)'
  BY <1>1, <1>2 DEF Redrawing
<1>4. ScreenShown' BY <1>1, <1>2, <1>3 DEF ScreenInv, VtTypeOK, ScreenShown, Kept
<1> QED BY <1>2, <1>4 DEF ScreenInv

LEMMA SwitchToKeeps ==
    ASSUME ScreenInv, NEW t \in VtThread, NEW v \in Vt, SwitchTo(t, v)
    PROVE  ScreenInv'
<1> DEFINE x == [at |-> "snap", v |-> activeVt, read |-> NoneRead, to |-> v]
<1>0. NoneRead \in Partial BY NothingRead
<1>1. /\ vtCall[t].at = "user" /\ Goes(t, x) /\ VtCallOK(x) /\ x.at = "snap" /\ x.read = NoneRead
      /\ UNCHANGED <<activeVt, pixels, surface, ttyMode, drawn, torn, smeared>>
  BY <1>0 DEF SwitchTo, VtCalling, VtUser, VtCallOK, ScreenInv, VtTypeOK
<1> HIDE DEF x
<1>2. /\ VtTypeOK' /\ Drawers' /\ Switchers' /\ PixelsKept' /\ NothingUnsaved' /\ SnapsTrue'
      /\ vtCall'[t] = x /\ \A s \in VtThread : s # t => vtCall'[s] = vtCall[s]
      /\ \A w \in Vt, d \in Cell : Drawing(w, d) => Drawing(w, d)'
  BY <1>1, CallKeeps DEF Drawer, ScreenInv, VtTypeOK
<1>3. \A w \in Vt, d \in Cell : Redrawing(w, d) => Redrawing(w, d)'
  BY <1>1, <1>2 DEF Redrawing
<1>4. ScreenShown' BY <1>1, <1>2, <1>3 DEF ScreenInv, VtTypeOK, ScreenShown, Kept
<1> QED BY <1>2, <1>4 DEF ScreenInv

LEMMA SetTtyModeKeeps ==
    ASSUME ScreenInv, NEW t \in VtThread, NEW v \in Vt, NEW mode \in {"text", "graphics"},
           SetTtyMode(t, v, mode)
    PROVE  ScreenInv'
<1> DEFINE x == IF ttyMode[v] = mode THEN VtUser
                ELSE IF mode = "graphics" THEN [at |-> "snap", v |-> v, read |-> NoneRead, to |-> v]
                ELSE [at |-> "enter", v |-> v]
<1>0. NoneRead \in Partial BY NothingRead
<1>1. /\ vtCall[t].at = "user" /\ Goes(t, x)
      /\ ttyMode' = [ttyMode EXCEPT ![v] = mode] /\ ttyMode' \in [Vt -> {"text", "graphics"}]
      /\ UNCHANGED <<activeVt, pixels, surface, drawn, torn, smeared>>
  BY DEF SetTtyMode, VtCalling, VtUser, ScreenInv, VtTypeOK
<1>2. /\ VtCallOK(x) /\ x.at \in {"user", "snap", "enter"} /\ (x.at = "snap" => x.read = NoneRead)
      /\ ttyMode[v] # "text" /\ mode = "text" => x.at = "enter" /\ x.v = v
  BY <1>0 DEF VtCallOK, VtUser
<1> HIDE DEF x
<1>3. /\ VtTypeOK' /\ Drawers' /\ Switchers' /\ PixelsKept' /\ NothingUnsaved' /\ SnapsTrue'
      /\ vtCall'[t] = x /\ \A s \in VtThread : s # t => vtCall'[s] = vtCall[s]
      /\ \A w \in Vt, d \in Cell : Drawing(w, d) => Drawing(w, d)'
  BY <1>1, <1>2, CallKeeps DEF Drawer
<1>4. \A w \in Vt, d \in Cell : Redrawing(w, d) => Redrawing(w, d)'
  BY <1>1, <1>3 DEF Redrawing
<1>5. ttyMode[v] # "text" /\ mode = "text" => \A d \in Cell : Redrawing(v, d)'
  BY <1>2, <1>3 DEF Redrawing
<1>6. ScreenShown'
  BY <1>1, <1>3, <1>4, <1>5 DEF ScreenInv, VtTypeOK, ScreenShown, Kept
<1> QED BY <1>3, <1>6 DEF ScreenInv

LEMMA ActivatedKeeps ==
    ASSUME ScreenInv, NEW t \in VtThread, Activated(t)
    PROVE  ScreenInv'
<1>0. PICK v \in Vt : vtCall[t].v = v /\ vtCall[t].at = "enter"
  BY DEF Activated, ScreenInv, VtTypeOK, VtCallOK
<1> DEFINE redraws == ttyMode[v] # "graphics" /\ pixels[v] # NoPixels
           x == IF redraws THEN [at |-> "redraw", v |-> v, todo |-> Cell] ELSE VtUser
<1>1. /\ Goes(t, x) /\ VtCallOK(x) /\ x.at = (IF redraws THEN "redraw" ELSE "user")
      /\ redraws => x.v = v /\ x.todo = Cell
      /\ UNCHANGED <<activeVt, pixels, surface, ttyMode, drawn, torn, smeared>>
  BY <1>0 DEF Activated, VtCallOK, VtUser
<1> HIDE DEF x
<1>2. /\ VtTypeOK' /\ Drawers' /\ Switchers' /\ PixelsKept' /\ NothingUnsaved' /\ SnapsTrue'
      /\ vtCall'[t] = x /\ \A s \in VtThread : s # t => vtCall'[s] = vtCall[s]
      /\ \A w \in Vt, d \in Cell : Drawing(w, d) => Drawing(w, d)'
  BY <1>0, <1>1, CallKeeps DEF Drawer, ScreenInv, VtTypeOK
<1>3. \A w \in Vt, d \in Cell : (w # v \/ redraws) /\ Redrawing(w, d) => Redrawing(w, d)'
  BY <1>1, <1>2, <1>0 DEF Redrawing
<1>4. ScreenShown' BY <1>1, <1>2, <1>3 DEF ScreenInv, VtTypeOK, ScreenShown, Kept
<1> QED BY <1>2, <1>4 DEF ScreenInv

LEMMA RedrawLoadKeeps ==
    ASSUME ScreenInv, NEW t \in VtThread, NEW c \in Cell, RedrawLoad(t, c)
    PROVE  ScreenInv'
<1>0. PICK v \in Vt, todo \in SUBSET Cell :
          vtCall[t].at = "redraw" /\ vtCall[t].v = v /\ vtCall[t].todo = todo
  BY DEF RedrawLoad, ScreenInv, VtTypeOK, VtCallOK
<1> DEFINE x == [at |-> "redrawn", v |-> v, todo |-> todo \ {c}, c |-> c, colour |-> pixels[v][c]]
<1>1. pixels[v] # NoPixels /\ pixels[v][c] \in Colour
  BY <1>0 DEF ScreenInv, Switchers, VtTypeOK
<1>2. /\ Goes(t, x) /\ VtCallOK(x)
      /\ x.at = "redrawn" /\ x.v = v /\ x.todo = todo \ {c} /\ x.c = c
      /\ UNCHANGED <<activeVt, pixels, surface, ttyMode, drawn, torn, smeared>>
  BY <1>0, <1>1 DEF RedrawLoad, VtCallOK
<1> HIDE DEF x
<1>3. /\ VtTypeOK' /\ Drawers' /\ Switchers' /\ PixelsKept' /\ NothingUnsaved' /\ SnapsTrue'
      /\ vtCall'[t] = x /\ \A s \in VtThread : s # t => vtCall'[s] = vtCall[s]
      /\ \A w \in Vt, d \in Cell : Drawing(w, d) => Drawing(w, d)'
  BY <1>0, <1>1, <1>2, CallKeeps DEF Drawer, ScreenInv, VtTypeOK
<1>4. \A w \in Vt, d \in Cell : Redrawing(w, d) => Redrawing(w, d)'
  BY <1>0, <1>2, <1>3 DEF Redrawing
<1>5. ScreenShown' BY <1>2, <1>3, <1>4 DEF ScreenInv, VtTypeOK, ScreenShown, Kept
<1> QED BY <1>3, <1>5 DEF ScreenInv

LEMMA DrawLoadKeeps ==
    ASSUME ScreenInv, NEW t \in VtThread, DrawLoad(t)
    PROVE  ScreenInv'
<1>0. PICK v \in Vt, c \in Cell, colour \in Colour :
          vtCall[t].at = "load" /\ vtCall[t].v = v /\ vtCall[t].c = c /\ vtCall[t].colour = colour
  BY DEF DrawLoad, ScreenInv, VtTypeOK, VtCallOK
<1> DEFINE x == [at |-> "store", v |-> v, c |-> c, colour |-> colour, active |-> activeVt = v]
<1>1. /\ Goes(t, x) /\ VtCallOK(x)
      /\ x.at = "store" /\ x.v = v /\ x.c = c /\ x.colour = colour
      /\ x.active <=> activeVt = v
      /\ \A s \in VtThread : Drawer(s) => vtCall[s].v # v
      /\ drawn' = [drawn EXCEPT ![v][c] = colour]
      /\ UNCHANGED <<activeVt, pixels, surface, ttyMode, torn, smeared>>
  BY <1>0 DEF DrawLoad, VtCallOK, Drawer
<1> HIDE DEF x
<1>2. /\ DOMAIN vtCall' = VtThread /\ vtCall' = [s \in VtThread |-> vtCall'[s]]
      /\ vtCall'[t] = x /\ VtCallOK(vtCall'[t])
      /\ \A s \in VtThread : s # t => vtCall'[s] = vtCall[s]
  BY <1>1, VtGoes DEF ScreenInv
<1>3. /\ drawn' \in [Vt -> [Cell -> Colour \cup {NoPixels}]]
      /\ drawn'[v][c] = colour
      /\ \A w \in Vt, d \in Cell : w # v \/ d # c => drawn'[w][d] = drawn[w][d]
  BY <1>0, <1>1 DEF ScreenInv, VtTypeOK
<1>4. /\ \A w \in Vt, d \in Cell : /\ Storing(w, d) => Storing(w, d)'
                                   /\ Drawing(w, d) => Drawing(w, d)'
                                   /\ Redrawing(w, d) => Redrawing(w, d)'
      /\ Storing(v, c)' /\ Drawing(v, c)'
  BY <1>0, <1>2, <1>1 DEF Storing, Drawing, Drawer, Redrawing
<1>5. \A w \in Vt, d \in Cell : w # v \/ d # c => (Kept(w, d)' <=> Kept(w, d))
  BY <1>1, <1>3 DEF Kept
<1>6. VtTypeOK' BY <1>1, <1>2, <1>3 DEF ScreenInv, VtTypeOK, VtCallOK
<1>7. Drawers'
  BY <1>0, <1>1, <1>2, <1>3 DEF Drawers, Drawer, ScreenInv, VtTypeOK, VtCallOK
<1>8. Switchers' BY <1>1, <1>2 DEF ScreenInv, Switchers
<1>9. PixelsKept' BY <1>1, <1>3, <1>4, <1>5 DEF ScreenInv, PixelsKept
<1>10. NothingUnsaved'
  <2>1. ASSUME NEW w \in Vt, NEW d \in Cell, pixels[w] = NoPixels, w # activeVt, Kept(w, d)'
        PROVE  \E s \in VtThread : vtCall'[s].at = "store" /\ vtCall'[s].v = w /\ vtCall'[s].c = d /\ ~vtCall'[s].active
    BY <2>1, <1>1, <1>2, <1>0, <1>5 DEF ScreenInv, NothingUnsaved
  <2>2. ASSUME NEW s \in VtThread, vtCall'[s].at = "store", ~vtCall'[s].active, pixels[vtCall'[s].v] = NoPixels,
               NEW d \in Cell, Kept(vtCall[s].v, d)'
        PROVE  d = vtCall'[s].c
    <3>1. CASE s = t
      BY <3>1, <1>1, <1>2, <2>2, <1>5 DEF ScreenInv, NothingUnsaved, Drawer
    <3>2. CASE s # t
      <4>1. vtCall'[s] = vtCall[s] /\ vtCall[s].v # v /\ vtCall[s].v \in Vt
        BY <3>2, <2>2, <1>1, <1>2 DEF Drawer, ScreenInv, VtTypeOK, VtCallOK
      <4> QED BY <4>1, <2>2, <1>5 DEF ScreenInv, NothingUnsaved
    <3> QED BY <3>1, <3>2
  <2> QED BY <2>1, <2>2, <1>1 DEF NothingUnsaved
<1>11. SnapsTrue'
  <2> SUFFICES ASSUME NEW s \in VtThread, vtCall'[s].at = "snap", pixels'[vtCall'[s].v] = NoPixels,
                      NEW d \in DOMAIN vtCall'[s].read, Kept(vtCall[s].v, d)'
               PROVE  vtCall'[s].read[d] = drawn'[vtCall'[s].v][d] \/ Storing(vtCall[s].v, d)'
    BY DEF SnapsTrue
  <2>1. vtCall'[s] = vtCall[s] BY <1>1, <1>2
  <2>2. vtCall[s].v \in Vt /\ d \in Cell BY <2>1 DEF ScreenInv, VtTypeOK, VtCallOK, Partial
  <2>3. vtCall[s].v # v \/ d # c => vtCall[s].read[d] = drawn[vtCall[s].v][d] \/ Storing(vtCall[s].v, d)
    BY <2>1, <2>2, <1>1, <1>5 DEF ScreenInv, SnapsTrue
  <2> QED BY <2>1, <2>2, <2>3, <1>3, <1>4
<1>12. ScreenShown'
  BY <1>1, <1>3, <1>4, <1>5 DEF ScreenInv, ScreenShown, VtTypeOK
<1> QED BY <1>6, <1>7, <1>8, <1>9, <1>10, <1>11, <1>12 DEF ScreenInv

LEMMA DrawStoreKeeps ==
    ASSUME ScreenInv, NEW t \in VtThread, DrawStore(t)
    PROVE  ScreenInv'
<1>0. PICK v \in Vt, c \in Cell, colour \in Colour :
          vtCall[t].at = "store" /\ vtCall[t].v = v /\ vtCall[t].c = c /\ vtCall[t].colour = colour
  BY DEF DrawStore, ScreenInv, VtTypeOK, VtCallOK
<1> DEFINE active == vtCall[t].active
           none == pixels[v] = NoPixels
           x == IF active THEN [at |-> "paint", v |-> v, c |-> c, colour |-> colour, kept |-> pixels[v] # NoPixels]
                ELSE VtUser
<1>1. /\ Goes(t, x)
      /\ active \/ Snapping(v) = {}
      /\ pixels' = [pixels EXCEPT ![v] = Stored(v, c, colour, active)]
      /\ torn' = IF pixels'[v] = NoPixels THEN torn ELSE torn \ {<<v, c>>}
      /\ smeared' = IF ~active /\ activeVt = v THEN smeared \union {c} ELSE smeared
      /\ UNCHANGED <<activeVt, surface, ttyMode, drawn>>
  BY <1>0 DEF DrawStore
<1>a. /\ VtCallOK(x) /\ x.at = (IF active THEN "paint" ELSE "user")
      /\ active => x.v = v /\ x.c = c /\ x.colour = colour /\ (x.kept <=> ~none)
  BY DEF VtCallOK, VtUser
<1> HIDE DEF x
<1>2. /\ DOMAIN vtCall' = VtThread /\ vtCall' = [s \in VtThread |-> vtCall'[s]]
      /\ vtCall'[t] = x
      /\ \A s \in VtThread : s # t => vtCall'[s] = vtCall[s]
  BY <1>1, VtGoes DEF ScreenInv
<1>3. /\ pixels' \in [Vt -> [Cell -> Colour] \cup {NoPixels}]
      /\ \A w \in Vt : w # v => pixels'[w] = pixels[w]
      /\ pixels'[v] = NoPixels <=> active /\ none
      /\ ~(active /\ none) => pixels'[v][c] = colour
      /\ ~none => \A d \in Cell : d # c => pixels'[v][d] = pixels[v][d]
      /\ \A w \in Vt : pixels[w] # NoPixels => pixels'[w] # NoPixels
  <2>1. pixels[v] \in [Cell -> Colour] \cup {NoPixels} BY DEF ScreenInv, VtTypeOK
  <2>2. Pixels(v) \in [Cell -> Colour] /\ (~none => Pixels(v) = pixels[v])
    BY <2>1, PixelsOf, VtAssumption DEF ScreenInv, Pixels
  <2> DEFINE new == [Pixels(v) EXCEPT ![c] = colour]
  <2>3. /\ new \in [Cell -> Colour] /\ new[c] = colour
        /\ \A d \in Cell : d # c => new[d] = Pixels(v)[d]
    BY <2>2
  <2>4. new # NoPixels BY <2>3, VtAssumption
  <2> HIDE DEF new
  <2>5. Stored(v, c, colour, active) = IF active /\ none THEN NoPixels ELSE new
    BY DEF Stored, new
  <2>6. pixels'[v] = (IF active /\ none THEN NoPixels ELSE new) /\ \A w \in Vt : w # v => pixels'[w] = pixels[w]
    BY <1>1, <2>5 DEF ScreenInv, VtTypeOK
  <2>7. pixels' \in [Vt -> [Cell -> Colour] \cup {NoPixels}]
    BY <1>1, <2>3, <2>5 DEF ScreenInv, VtTypeOK
  <2> QED BY <2>2, <2>3, <2>4, <2>6, <2>7
<1>4. /\ \A s \in VtThread : Drawer(s) /\ vtCall[s].v = v => s = t
      /\ drawn[v][c] = colour
  BY <1>0 DEF ScreenInv, Drawers, Drawer
<1>5. /\ \A w \in Vt, d \in Cell : w # v \/ d # c => /\ Storing(w, d) => Storing(w, d)'
                                                     /\ Drawing(w, d) => Drawing(w, d)'
      /\ \A w \in Vt, d \in Cell : Redrawing(w, d) => Redrawing(w, d)'
      /\ active => Drawing(v, c)'
      /\ active /\ none => Storing(v, c)'
  <2>1. \A w \in Vt, d \in Cell : (w # v \/ d # c) /\ Storing(w, d) => Storing(w, d)'
    BY <1>0, <1>2 DEF Storing
  <2>2. \A w \in Vt, d \in Cell : (w # v \/ d # c) /\ Drawing(w, d) => Drawing(w, d)'
    BY <1>0, <1>2 DEF Drawing, Drawer
  <2>3. \A w \in Vt, d \in Cell : Redrawing(w, d) => Redrawing(w, d)'
    BY <1>0, <1>2 DEF Redrawing
  <2>4. active => Drawing(v, c)' BY <1>a, <1>2 DEF Drawing, Drawer
  <2>5. active /\ none => Storing(v, c)' BY <1>a, <1>2 DEF Storing
  <2> QED BY <2>1, <2>2, <2>3, <2>4, <2>5
<1>6. /\ \A w \in Vt, d \in Cell : w # v \/ d # c => (Kept(w, d)' <=> Kept(w, d))
      /\ active /\ none => \A w \in Vt, d \in Cell : (Kept(w, d)' <=> Kept(w, d))
  BY <1>1, <1>3 DEF Kept
<1>7. VtTypeOK'
  <2>1. \A s \in VtThread : VtCallOK(vtCall'[s])
    BY <1>a, <1>2 DEF ScreenInv, VtTypeOK
  <2>2. torn' \in SUBSET (Vt \X Cell) /\ smeared' \in SUBSET Cell BY <1>0, <1>1 DEF ScreenInv, VtTypeOK
  <2> QED BY <1>1, <1>2, <1>3, <2>1, <2>2 DEF ScreenInv, VtTypeOK, VtCallOK
<1>8. Drawers'
  <2> SUFFICES ASSUME NEW s \in VtThread, Drawer(s)'
               PROVE  /\ \A r \in VtThread : Drawer(r)' /\ vtCall'[r].v = vtCall'[s].v => r = s
                      /\ drawn'[vtCall'[s].v][vtCall'[s].c] = vtCall'[s].colour
                      /\ vtCall'[s].at = "paint" /\ vtCall'[s].kept => pixels'[vtCall'[s].v] # NoPixels
    BY DEF Drawers
  <2>0. \A r \in VtThread : Drawer(r)' => Drawer(r) /\ vtCall'[r].v = vtCall[r].v
    BY <1>0, <1>a, <1>2 DEF Drawer
  <2>1. CASE s = t BY <2>0, <2>1, <1>0, <1>a, <1>1, <1>2, <1>3, <1>4 DEF Drawer
  <2>2. CASE s # t
    <3>1. vtCall'[s] = vtCall[s] /\ Drawer(s) BY <2>2, <1>2 DEF Drawer
    <3>2. vtCall[s].v \in Vt BY <3>1 DEF ScreenInv, VtTypeOK, VtCallOK, Drawer
    <3> QED BY <2>0, <3>1, <3>2, <1>1, <1>3 DEF ScreenInv, Drawers
  <2> QED BY <2>1, <2>2
<1>9. Switchers'
  BY <1>a, <1>2, <1>3 DEF ScreenInv, Switchers, VtTypeOK, VtCallOK
<1>10. ~active /\ none => \A d \in Cell : Kept(v, d) => d = c
  BY <1>0 DEF ScreenInv, NothingUnsaved
<1>11. PixelsKept'
  BY <1>1, <1>3, <1>4, <1>5, <1>6, <1>10 DEF PixelsKept, ScreenInv
<1>12. NothingUnsaved'
  <2>1. ASSUME NEW w \in Vt, NEW d \in Cell, pixels'[w] = NoPixels, w # activeVt, Kept(w, d)'
        PROVE  \E s \in VtThread : vtCall'[s].at = "store" /\ vtCall'[s].v = w /\ vtCall'[s].c = d /\ ~vtCall'[s].active
    BY <2>1, <1>3, <1>6, <1>0, <1>2 DEF ScreenInv, NothingUnsaved
  <2>2. ASSUME NEW s \in VtThread, vtCall'[s].at = "store", ~vtCall'[s].active, pixels'[vtCall'[s].v] = NoPixels,
               NEW d \in Cell, Kept(vtCall[s].v, d)'
        PROVE  d = vtCall'[s].c
    <3>1. s # t /\ vtCall'[s] = vtCall[s] BY <2>2, <1>a, <1>2
    <3>2. vtCall[s].v \in Vt /\ vtCall[s].v # v BY <2>2, <3>1, <1>4 DEF Drawer, ScreenInv, VtTypeOK, VtCallOK
    <3> QED BY <2>2, <3>1, <3>2, <1>3, <1>6 DEF ScreenInv, NothingUnsaved
  <2> QED BY <2>1, <2>2, <1>1 DEF NothingUnsaved
<1>13. SnapsTrue'
  <2> SUFFICES ASSUME NEW s \in VtThread, vtCall'[s].at = "snap", pixels'[vtCall'[s].v] = NoPixels,
                      NEW d \in DOMAIN vtCall'[s].read, Kept(vtCall[s].v, d)'
               PROVE  vtCall'[s].read[d] = drawn'[vtCall'[s].v][d] \/ Storing(vtCall[s].v, d)'
    BY DEF SnapsTrue
  <2>1. vtCall'[s] = vtCall[s] BY <1>a, <1>2
  <2>2. vtCall[s].v \in Vt /\ d \in Cell BY <2>1 DEF ScreenInv, VtTypeOK, VtCallOK, Partial
  <2>3. pixels[vtCall[s].v] = NoPixels /\ Kept(vtCall[s].v, d) BY <2>1, <2>2, <1>3, <1>6
  <2>4. vtCall[s].read[d] = drawn[vtCall[s].v][d] \/ Storing(vtCall[s].v, d)
    BY <2>1, <2>2, <2>3 DEF ScreenInv, SnapsTrue
  <2> QED BY <2>1, <2>2, <2>4, <1>1, <1>3, <1>5
<1>14. ScreenShown'
  BY <1>1, <1>5, <1>6, <1>3 DEF ScreenShown, ScreenInv, VtTypeOK
<1> QED BY <1>7, <1>8, <1>9, <1>11, <1>12, <1>13, <1>14 DEF ScreenInv

LEMMA DrawPaintKeeps ==
    ASSUME ScreenInv, NEW t \in VtThread, DrawPaint(t)
    PROVE  ScreenInv'
<1>0. PICK v \in Vt, c \in Cell, colour \in Colour :
          vtCall[t].at = "paint" /\ vtCall[t].v = v /\ vtCall[t].c = c /\ vtCall[t].colour = colour
  BY DEF DrawPaint, ScreenInv, VtTypeOK, VtCallOK
<1> DEFINE kept == vtCall[t].kept
           late == \/ pixels[v] # NoPixels
                   \/ \E s \in Snapping(v) : c \in DOMAIN vtCall[s].read
<1>1. /\ Goes(t, VtUser)
      /\ surface' = [surface EXCEPT ![c] = colour]
      /\ smeared' = IF activeVt = v THEN smeared \ {c} ELSE smeared \union {c}
      /\ torn' = IF ~kept /\ late THEN torn \union {<<v, c>>} ELSE torn
      /\ UNCHANGED <<activeVt, pixels, ttyMode, drawn>>
  BY <1>0 DEF DrawPaint
<1>2. /\ DOMAIN vtCall' = VtThread /\ vtCall' = [s \in VtThread |-> vtCall'[s]]
      /\ vtCall'[t] = VtUser /\ vtCall'[t].at = "user" /\ VtCallOK(VtUser)
      /\ \A s \in VtThread : s # t => vtCall'[s] = vtCall[s]
  BY <1>1, VtGoes DEF ScreenInv, VtUser, VtCallOK
<1>3. /\ drawn[v][c] = colour /\ (kept => pixels[v] # NoPixels)
  BY <1>0 DEF ScreenInv, Drawers, Drawer
<1>4. /\ \A w \in Vt, d \in Cell : w # v \/ d # c => /\ Storing(w, d) => Storing(w, d)'
                                                     /\ Drawing(w, d) => Drawing(w, d)'
      /\ \A w \in Vt, d \in Cell : Redrawing(w, d) => Redrawing(w, d)'
      /\ \A w \in Vt, d \in Cell : kept /\ Storing(w, d) => Storing(w, d)'
  BY <1>0, <1>2 DEF Storing, Drawing, Drawer, Redrawing
<1>5. /\ \A w \in Vt, d \in Cell : Kept(w, d)' => Kept(w, d)
      /\ ~kept /\ late => ~Kept(v, c)'
  BY <1>1 DEF Kept
<1>6. VtTypeOK'
  <2>1. \A s \in VtThread : VtCallOK(vtCall'[s])
    BY <1>2 DEF ScreenInv, VtTypeOK
  <2>2. /\ torn' \in SUBSET (Vt \X Cell) /\ smeared' \in SUBSET Cell /\ surface' \in [Cell -> Colour]
    BY <1>0, <1>1 DEF ScreenInv, VtTypeOK
  <2> QED BY <1>1, <1>2, <2>1, <2>2 DEF ScreenInv, VtTypeOK, VtCallOK
<1>7. Drawers' /\ Switchers' BY <1>1, <1>2 DEF ScreenInv, Drawers, Drawer, Switchers
<1>8. PixelsKept'
  BY <1>1, <1>5, <1>4 DEF PixelsKept, ScreenInv
<1>9. NothingUnsaved'
  <2>1. \A s \in VtThread : /\ vtCall[s].at = "store" => vtCall'[s] = vtCall[s]
                            /\ vtCall'[s].at = "store" => vtCall'[s] = vtCall[s] /\ vtCall[s].v \in Vt
    BY <1>0, <1>2 DEF ScreenInv, VtTypeOK, VtCallOK
  <2>2. ASSUME NEW w \in Vt, NEW d \in Cell, pixels[w] = NoPixels, w # activeVt, Kept(w, d)'
        PROVE  \E s \in VtThread : vtCall'[s].at = "store" /\ vtCall'[s].v = w /\ vtCall'[s].c = d /\ ~vtCall'[s].active
    BY <2>1, <2>2, <1>5 DEF ScreenInv, NothingUnsaved
  <2>3. ASSUME NEW s \in VtThread, vtCall'[s].at = "store", ~vtCall'[s].active, pixels[vtCall'[s].v] = NoPixels,
               NEW d \in Cell, Kept(vtCall[s].v, d)'
        PROVE  d = vtCall'[s].c
    BY <2>1, <2>3, <1>5 DEF ScreenInv, NothingUnsaved
  <2> QED BY <2>2, <2>3, <1>1 DEF NothingUnsaved
<1>10. SnapsTrue'
  <2> SUFFICES ASSUME NEW s \in VtThread, vtCall'[s].at = "snap", pixels'[vtCall'[s].v] = NoPixels,
                      NEW d \in DOMAIN vtCall'[s].read, Kept(vtCall[s].v, d)'
               PROVE  vtCall'[s].read[d] = drawn'[vtCall'[s].v][d] \/ Storing(vtCall[s].v, d)'
    BY DEF SnapsTrue
  <2>1. vtCall'[s] = vtCall[s] BY <1>2
  <2>2. vtCall[s].v \in Vt /\ d \in Cell BY <2>1 DEF ScreenInv, VtTypeOK, VtCallOK, Partial
  <2>3. vtCall[s].read[d] = drawn[vtCall[s].v][d] \/ Storing(vtCall[s].v, d)
    BY <2>1, <2>2, <1>1, <1>5 DEF ScreenInv, SnapsTrue
  <2>4. CASE vtCall[s].v # v \/ d # c BY <2>1, <2>2, <2>3, <2>4, <1>1, <1>4
  <2>5. CASE vtCall[s].v = v /\ d = c
    BY <2>1, <2>5, NothingRead, <1>1, <1>3, <1>2, <1>5 DEF Snapping
  <2> QED BY <2>4, <2>5
<1>11. ScreenShown'
  BY <1>1, <1>3, <1>5, <1>4 DEF ScreenShown, ScreenInv, VtTypeOK
<1> QED BY <1>6, <1>7, <1>8, <1>9, <1>10, <1>11 DEF ScreenInv

LEMMA GraphicsPaintKeeps ==
    ASSUME ScreenInv, NEW c \in Cell, NEW colour \in Colour, GraphicsPaint(c, colour)
    PROVE  ScreenInv'
<1>1. /\ surface' = [surface EXCEPT ![c] = colour] /\ smeared' = smeared \union {c}
      /\ torn \subseteq torn' /\ torn' \subseteq torn \union {<<activeVt, c>>}
      /\ UNCHANGED <<activeVt, pixels, ttyMode, vtCall, drawn>>
  BY DEF GraphicsPaint
<1>2. /\ \A w \in Vt, d \in Cell : Kept(w, d)' => Kept(w, d)
      /\ \A w \in Vt, d \in Cell : /\ Storing(w, d)' <=> Storing(w, d)
                                   /\ Drawing(w, d)' <=> Drawing(w, d)
                                   /\ Redrawing(w, d)' <=> Redrawing(w, d)
  BY <1>1 DEF Kept, Storing, Drawing, Drawer, Redrawing
<1>3. VtTypeOK'
  BY <1>1 DEF ScreenInv, VtTypeOK, VtCallOK
<1>4. Drawers' /\ Switchers' /\ PixelsKept'
  BY <1>1, <1>2 DEF ScreenInv, Drawers, Drawer, Switchers, PixelsKept
<1>5. NothingUnsaved' BY <1>1, <1>2 DEF ScreenInv, NothingUnsaved, VtTypeOK, VtCallOK
<1>6. SnapsTrue'
  BY <1>1, <1>2 DEF ScreenInv, VtTypeOK, VtCallOK, Partial, SnapsTrue
<1>7. ScreenShown' BY <1>1, <1>2 DEF ScreenInv, ScreenShown, VtTypeOK
<1> QED BY <1>3, <1>4, <1>5, <1>6, <1>7 DEF ScreenInv

LEMMA SnapCellKeeps ==
    ASSUME ScreenInv, NEW t \in VtThread, NEW c \in Cell, SnapCell(t, c)
    PROVE  ScreenInv'
<1>0. PICK v \in Vt, to \in Vt, read \in Partial :
          vtCall[t].at = "snap" /\ vtCall[t].v = v /\ vtCall[t].to = to /\ vtCall[t].read = read
  BY DEF SnapCell, ScreenInv, VtTypeOK, VtCallOK
<1> DEFINE more == [d \in DOMAIN read \union {c} |-> IF d = c THEN surface[c] ELSE read[d]]
           x == [at |-> "snap", v |-> v, to |-> to, read |-> more]
<1>1. /\ Goes(t, x) /\ pixels[v] = NoPixels
      /\ torn' = IF activeVt # v \/ c \in smeared THEN torn \union {<<v, c>>} ELSE torn
      /\ UNCHANGED <<activeVt, pixels, surface, ttyMode, drawn, smeared>>
  BY <1>0 DEF SnapCell
<1>a. more \in Partial
  <2>1. PICK S \in SUBSET Cell : read \in [S -> Colour] BY DEF Partial
  <2>2. more \in [S \union {c} -> Colour] BY <2>1 DEF ScreenInv, VtTypeOK
  <2> QED BY <2>2 DEF Partial
<1>b. VtCallOK(x) /\ x.at = "snap" /\ x.v = v /\ x.read = more
  BY <1>a DEF VtCallOK
<1> HIDE DEF x
<1>2. /\ DOMAIN vtCall' = VtThread /\ vtCall' = [s \in VtThread |-> vtCall'[s]]
      /\ vtCall'[t] = x
      /\ \A s \in VtThread : s # t => vtCall'[s] = vtCall[s]
  BY <1>1, VtGoes DEF ScreenInv
<1>3. /\ \A w \in Vt, d \in Cell : /\ Storing(w, d) => Storing(w, d)'
                                   /\ Drawing(w, d) => Drawing(w, d)'
                                   /\ Redrawing(w, d) => Redrawing(w, d)'
                                   /\ Kept(w, d)' => Kept(w, d)
      /\ activeVt # v \/ c \in smeared => ~Kept(v, c)'
  BY <1>0, <1>1, <1>2 DEF Storing, Drawing, Drawer, Redrawing, Kept
<1>4. VtTypeOK'
  <2>1. \A s \in VtThread : VtCallOK(vtCall'[s])
    BY <1>b, <1>2 DEF ScreenInv, VtTypeOK
  <2>2. torn' \in SUBSET (Vt \X Cell) BY <1>0, <1>1 DEF ScreenInv, VtTypeOK
  <2> QED BY <1>1, <1>2, <2>1, <2>2 DEF ScreenInv, VtTypeOK, VtCallOK
<1>5. Drawers' /\ Switchers' BY <1>b, <1>1, <1>2 DEF ScreenInv, Drawers, Drawer, Switchers
<1>6. PixelsKept' BY <1>1, <1>3 DEF ScreenInv, PixelsKept
<1>7. NothingUnsaved'
  <2>1. \A s \in VtThread : /\ vtCall[s].at = "store" => vtCall'[s] = vtCall[s]
                            /\ vtCall'[s].at = "store" => vtCall'[s] = vtCall[s] /\ vtCall[s].v \in Vt
    BY <1>0, <1>b, <1>2 DEF ScreenInv, VtTypeOK, VtCallOK
  <2>2. ASSUME NEW w \in Vt, NEW d \in Cell, pixels[w] = NoPixels, w # activeVt, Kept(w, d)'
        PROVE  \E s \in VtThread : vtCall'[s].at = "store" /\ vtCall'[s].v = w /\ vtCall'[s].c = d /\ ~vtCall'[s].active
    BY <2>1, <2>2, <1>3 DEF ScreenInv, NothingUnsaved
  <2>3. ASSUME NEW s \in VtThread, vtCall'[s].at = "store", ~vtCall'[s].active, pixels[vtCall'[s].v] = NoPixels,
               NEW d \in Cell, Kept(vtCall[s].v, d)'
        PROVE  d = vtCall'[s].c
    BY <2>1, <2>3, <1>3 DEF ScreenInv, NothingUnsaved
  <2> QED BY <2>2, <2>3, <1>1 DEF NothingUnsaved
<1>8. SnapsTrue'
  <2> SUFFICES ASSUME NEW s \in VtThread, vtCall'[s].at = "snap", pixels'[vtCall'[s].v] = NoPixels,
                      NEW d \in DOMAIN vtCall'[s].read, Kept(vtCall[s].v, d)'
               PROVE  vtCall'[s].read[d] = drawn'[vtCall'[s].v][d] \/ Storing(vtCall[s].v, d)'
    BY DEF SnapsTrue
  <2>0. vtCall'[s].v \in Vt /\ d \in Cell BY <1>4 DEF VtTypeOK, VtCallOK, Partial
  <2>1. CASE s # t BY <2>0, <2>1, <1>1, <1>2, <1>3 DEF ScreenInv, SnapsTrue
  <2>2. CASE s = t /\ d # c
    <3>1. vtCall'[s].v = v /\ vtCall'[s].read[d] = read[d] /\ d \in DOMAIN read BY <2>2, <1>b, <1>2
    <3> QED BY <2>0, <2>2, <3>1, <1>0, <1>1, <1>3 DEF ScreenInv, SnapsTrue
  <2>3. CASE s = t /\ d = c
    <3>1. vtCall'[s].v = v /\ vtCall'[s].read[d] = surface[c] BY <2>3, <1>b, <1>2
    <3>2. activeVt = v /\ c \notin smeared /\ Kept(v, c) BY <2>3, <3>1, <1>3
    <3>3. surface[c] = drawn[v][c] \/ Drawing(v, c) BY <3>2, <1>1 DEF ScreenInv, ScreenShown
    <3>4. Drawing(v, c) => Storing(v, c) BY <1>1 DEF ScreenInv, Drawers, Drawing, Storing, Drawer
    <3> QED BY <2>3, <3>1, <3>3, <3>4, <1>1, <1>3
  <2> QED BY <2>1, <2>2, <2>3
<1>9. ScreenShown' BY <1>1, <1>3 DEF ScreenInv, ScreenShown, VtTypeOK
<1> QED BY <1>4, <1>5, <1>6, <1>7, <1>8, <1>9 DEF ScreenInv

LEMMA SnapDoneKeeps ==
    ASSUME ScreenInv, NEW t \in VtThread, SnapDone(t)
    PROVE  ScreenInv'
<1>0. PICK v \in Vt, to \in Vt, read \in Partial :
          vtCall[t].at = "snap" /\ vtCall[t].v = v /\ vtCall[t].to = to /\ vtCall[t].read = read
  BY DEF SnapDone, ScreenInv, VtTypeOK, VtCallOK
<1> DEFINE x == IF to # v THEN [at |-> "switch", v |-> to, from |-> v] ELSE VtUser
<1>1. /\ Goes(t, x)
      /\ pixels[v] # NoPixels \/ DOMAIN read = Cell
      /\ pixels' = IF pixels[v] = NoPixels THEN [pixels EXCEPT ![v] = read] ELSE pixels
      /\ UNCHANGED <<activeVt, surface, ttyMode, drawn, torn, smeared>>
  BY <1>0 DEF SnapDone
<1>a. VtCallOK(x) /\ x.at \in {"switch", "user"} /\ (x.at = "switch" => x.from = v)
  BY DEF VtCallOK, VtUser
<1> HIDE DEF x
<1>2. /\ DOMAIN vtCall' = VtThread /\ vtCall' = [s \in VtThread |-> vtCall'[s]]
      /\ vtCall'[t] = x
      /\ \A s \in VtThread : s # t => vtCall'[s] = vtCall[s]
  BY <1>1, VtGoes DEF ScreenInv
<1>3. /\ pixels' \in [Vt -> [Cell -> Colour] \cup {NoPixels}] /\ pixels'[v] # NoPixels
      /\ \A w \in Vt : w # v \/ pixels[w] # NoPixels => pixels'[w] = pixels[w]
      /\ pixels[v] = NoPixels => pixels'[v] = read /\ DOMAIN read = Cell
  BY <1>1, VtAssumption DEF Partial, ScreenInv, VtTypeOK
<1>4. /\ \A w \in Vt, d \in Cell : /\ Storing(w, d) => Storing(w, d)'
                                   /\ Drawing(w, d) => Drawing(w, d)'
                                   /\ Redrawing(w, d) => Redrawing(w, d)'
                                   /\ Kept(w, d)' <=> Kept(w, d)
  BY <1>0, <1>1, <1>2 DEF Storing, Drawing, Drawer, Redrawing, Kept
<1>5. VtTypeOK'
  <2>1. \A s \in VtThread : VtCallOK(vtCall'[s])
    BY <1>a, <1>2 DEF ScreenInv, VtTypeOK
  <2> QED BY <1>1, <1>2, <1>3, <2>1 DEF ScreenInv, VtTypeOK, VtCallOK
<1>6. Drawers'
  <2>1. \A s \in VtThread : Drawer(s)' => Drawer(s) /\ vtCall'[s] = vtCall[s] /\ vtCall[s].v \in Vt
    BY <1>a, <1>2 DEF Drawer, ScreenInv, VtTypeOK, VtCallOK
  <2> QED BY <2>1, <1>1, <1>3 DEF ScreenInv, Drawers
<1>7. Switchers'
  BY <1>a, <1>1, <1>2, <1>3 DEF ScreenInv, Switchers, VtTypeOK, VtCallOK
<1>8. PixelsKept'
  BY <1>1, <1>4, <1>3, <1>0 DEF PixelsKept, ScreenInv, SnapsTrue
<1>9. NothingUnsaved'
  <2>1. \A s \in VtThread : /\ vtCall[s].at = "store" => vtCall'[s] = vtCall[s]
                            /\ vtCall'[s].at = "store" => vtCall'[s] = vtCall[s] /\ vtCall[s].v \in Vt
    BY <1>0, <1>a, <1>2 DEF ScreenInv, VtTypeOK, VtCallOK
  <2>0. \A w \in Vt : pixels'[w] = NoPixels => pixels[w] = NoPixels BY <1>3
  <2>2. ASSUME NEW w \in Vt, NEW d \in Cell, pixels'[w] = NoPixels, w # activeVt, Kept(w, d)
        PROVE  \E s \in VtThread : vtCall'[s].at = "store" /\ vtCall'[s].v = w /\ vtCall'[s].c = d /\ ~vtCall'[s].active
    BY <2>0, <2>1, <2>2 DEF ScreenInv, NothingUnsaved
  <2>3. ASSUME NEW s \in VtThread, vtCall'[s].at = "store", ~vtCall'[s].active, pixels'[vtCall'[s].v] = NoPixels,
               NEW d \in Cell, Kept(vtCall[s].v, d)
        PROVE  d = vtCall'[s].c
    BY <2>0, <2>1, <2>3 DEF ScreenInv, NothingUnsaved
  <2> QED BY <2>1, <2>2, <2>3, <1>1, <1>4 DEF NothingUnsaved
<1>10. SnapsTrue'
  <2> SUFFICES ASSUME NEW s \in VtThread, vtCall'[s].at = "snap", pixels'[vtCall'[s].v] = NoPixels,
                      NEW d \in DOMAIN vtCall'[s].read, Kept(vtCall[s].v, d)'
               PROVE  vtCall'[s].read[d] = drawn'[vtCall'[s].v][d] \/ Storing(vtCall[s].v, d)'
    BY DEF SnapsTrue
  <2>1. vtCall'[s] = vtCall[s] BY <1>a, <1>2
  <2>2. vtCall[s].v \in Vt /\ d \in Cell BY <2>1 DEF ScreenInv, VtTypeOK, VtCallOK, Partial
  <2>3. pixels[vtCall[s].v] = NoPixels BY <2>1, <2>2, <1>3
  <2> QED BY <2>1, <2>2, <2>3, <1>1, <1>4 DEF ScreenInv, SnapsTrue
<1>11. ScreenShown'
  BY <1>1, <1>3, <1>4 DEF ScreenInv, ScreenShown, VtTypeOK
<1> QED BY <1>5, <1>6, <1>7, <1>8, <1>9, <1>10, <1>11 DEF ScreenInv

LEMMA ActiveStoredKeeps ==
    ASSUME ScreenInv, NEW t \in VtThread, ActiveStored(t)
    PROVE  ScreenInv'
<1>0. PICK v \in Vt, from \in Vt : vtCall[t].at = "switch" /\ vtCall[t].v = v /\ vtCall[t].from = from
  BY DEF ActiveStored, ScreenInv, VtTypeOK, VtCallOK
<1> DEFINE left == activeVt \notin {from, v} /\ pixels[activeVt] = NoPixels
           x == [at |-> "enter", v |-> v]
<1>1. /\ Goes(t, x) /\ activeVt' = v
      /\ torn' = IF left THEN torn \union ({activeVt} \X Cell) ELSE torn
      /\ UNCHANGED <<pixels, surface, ttyMode, drawn, smeared>>
  BY <1>0 DEF ActiveStored
<1>a. VtCallOK(x) /\ x.at = "enter" /\ x.v = v
  BY DEF VtCallOK
<1> HIDE DEF x
<1>2. /\ DOMAIN vtCall' = VtThread /\ vtCall' = [s \in VtThread |-> vtCall'[s]]
      /\ vtCall'[t] = x
      /\ \A s \in VtThread : s # t => vtCall'[s] = vtCall[s]
  BY <1>1, VtGoes DEF ScreenInv
<1>3. activeVt \in Vt /\ pixels[from] # NoPixels
  BY <1>0 DEF ScreenInv, Switchers, VtTypeOK
<1>4. /\ \A w \in Vt, d \in Cell : /\ Storing(w, d) => Storing(w, d)'
                                   /\ Drawing(w, d) => Drawing(w, d)'
                                   /\ Kept(w, d)' => Kept(w, d)
      /\ \A d \in Cell : Redrawing(v, d)'
  <2>1. /\ \A w \in Vt, d \in Cell : /\ Storing(w, d) => Storing(w, d)'
                                     /\ Drawing(w, d) => Drawing(w, d)'
    BY <1>0, <1>2 DEF Storing, Drawing, Drawer
  <2>2. \A w \in Vt, d \in Cell : Kept(w, d)' => Kept(w, d) BY <1>1 DEF Kept
  <2>3. \A d \in Cell : Redrawing(v, d)' BY <1>a, <1>2 DEF Redrawing
  <2> QED BY <2>1, <2>2, <2>3
<1>b. \A d \in Cell : left => <<activeVt, d>> \in torn' BY <1>1, <1>3
<1>5. VtTypeOK'
  <2>1. \A s \in VtThread : VtCallOK(vtCall'[s])
    BY <1>a, <1>2 DEF ScreenInv, VtTypeOK
  <2>2. torn' \in SUBSET (Vt \X Cell) BY <1>1, <1>3 DEF ScreenInv, VtTypeOK
  <2> QED BY <1>0, <1>1, <1>2, <2>1, <2>2 DEF ScreenInv, VtTypeOK, VtCallOK
<1>6. Drawers' /\ Switchers' BY <1>a, <1>1, <1>2 DEF ScreenInv, Drawers, Drawer, Switchers
<1>7. PixelsKept' BY <1>1, <1>4 DEF ScreenInv, PixelsKept
<1>8. NothingUnsaved'
  <2>1. \A s \in VtThread : /\ vtCall[s].at = "store" => vtCall'[s] = vtCall[s]
                            /\ vtCall'[s].at = "store" => vtCall'[s] = vtCall[s] /\ vtCall[s].v \in Vt
    BY <1>0, <1>a, <1>2 DEF ScreenInv, VtTypeOK, VtCallOK
  <2>2. ASSUME NEW w \in Vt, NEW d \in Cell, pixels[w] = NoPixels, w # v, Kept(w, d)'
        PROVE  \E s \in VtThread : vtCall'[s].at = "store" /\ vtCall'[s].v = w /\ vtCall'[s].c = d /\ ~vtCall'[s].active
    <3>1. w # activeVt
      <4> SUFFICES ASSUME w = activeVt PROVE FALSE OBVIOUS
      <4>1. left BY <2>2, <1>3
      <4> QED BY <4>1, <2>2, <1>b DEF Kept
    <3> QED BY <3>1, <2>1, <2>2, <1>4 DEF ScreenInv, NothingUnsaved
  <2>3. ASSUME NEW s \in VtThread, vtCall'[s].at = "store", ~vtCall'[s].active, pixels[vtCall'[s].v] = NoPixels,
               NEW d \in Cell, Kept(vtCall[s].v, d)'
        PROVE  d = vtCall'[s].c
    BY <2>1, <2>3, <1>4 DEF ScreenInv, NothingUnsaved
  <2> QED BY <2>2, <2>3, <1>1 DEF NothingUnsaved
<1>9. SnapsTrue'
  <2> SUFFICES ASSUME NEW s \in VtThread, vtCall'[s].at = "snap", pixels'[vtCall'[s].v] = NoPixels,
                      NEW d \in DOMAIN vtCall'[s].read, Kept(vtCall[s].v, d)'
               PROVE  vtCall'[s].read[d] = drawn'[vtCall'[s].v][d] \/ Storing(vtCall[s].v, d)'
    BY DEF SnapsTrue
  <2>1. vtCall'[s] = vtCall[s] BY <1>a, <1>2
  <2>2. vtCall[s].v \in Vt /\ d \in Cell BY <2>1 DEF ScreenInv, VtTypeOK, VtCallOK, Partial
  <2> QED BY <2>1, <2>2, <1>1, <1>4 DEF ScreenInv, SnapsTrue
<1>10. ScreenShown'
  BY <1>1, <1>4 DEF ScreenShown, ScreenInv, NothingUnsaved, Drawing, Drawer
<1> QED BY <1>5, <1>6, <1>7, <1>8, <1>9, <1>10 DEF ScreenInv

LEMMA RedrawPaintKeeps ==
    ASSUME ScreenInv, NEW t \in VtThread, RedrawPaint(t)
    PROVE  ScreenInv'
<1>0. PICK v \in Vt, c \in Cell, colour \in Colour, todo \in SUBSET Cell :
          /\ vtCall[t].at = "redrawn" /\ vtCall[t].v = v /\ vtCall[t].c = c
          /\ vtCall[t].colour = colour /\ vtCall[t].todo = todo
  BY DEF RedrawPaint, ScreenInv, VtTypeOK, VtCallOK
<1> DEFINE x == IF todo = {} THEN VtUser ELSE [at |-> "redraw", v |-> v, todo |-> todo]
<1>1. /\ Goes(t, x)
      /\ surface' = [surface EXCEPT ![c] = colour]
      /\ smeared' = IF activeVt = v /\ pixels[v][c] = colour THEN smeared \ {c} ELSE smeared \union {c}
      /\ UNCHANGED <<activeVt, pixels, ttyMode, drawn, torn>>
  BY <1>0 DEF RedrawPaint
<1>a. /\ VtCallOK(x) /\ x.at \in {"user", "redraw"}
      /\ x.at = "redraw" => x.v = v /\ x.todo = todo
      /\ x.at = "user" => todo = {}
  BY DEF VtCallOK, VtUser
<1> HIDE DEF x
<1>2. /\ DOMAIN vtCall' = VtThread /\ vtCall' = [s \in VtThread |-> vtCall'[s]]
      /\ vtCall'[t] = x
      /\ \A s \in VtThread : s # t => vtCall'[s] = vtCall[s]
  BY <1>1, VtGoes DEF ScreenInv
<1>3. pixels[v] # NoPixels /\ activeVt \in Vt /\ surface \in [Cell -> Colour]
  BY <1>0 DEF ScreenInv, Switchers, VtTypeOK
<1>4. /\ \A w \in Vt, d \in Cell : /\ Storing(w, d) => Storing(w, d)'
                                   /\ Drawing(w, d) => Drawing(w, d)'
                                   /\ Kept(w, d)' <=> Kept(w, d)
      /\ \A w \in Vt, d \in Cell : (w # v \/ d # c) /\ Redrawing(w, d) => Redrawing(w, d)'
  <2>1. /\ \A w \in Vt, d \in Cell : /\ Storing(w, d) => Storing(w, d)'
                                     /\ Drawing(w, d) => Drawing(w, d)'
    BY <1>0, <1>2 DEF Storing, Drawing, Drawer
  <2>2. \A w \in Vt, d \in Cell : Kept(w, d)' <=> Kept(w, d) BY <1>1 DEF Kept
  <2>3. \A w \in Vt, d \in Cell : (w # v \/ d # c) /\ Redrawing(w, d) => Redrawing(w, d)'
    BY <1>0, <1>a, <1>2 DEF Redrawing
  <2> QED BY <2>1, <2>2, <2>3
<1>5. VtTypeOK'
  <2>1. \A s \in VtThread : VtCallOK(vtCall'[s])
    BY <1>a, <1>2 DEF ScreenInv, VtTypeOK
  <2>2. smeared' \in SUBSET Cell /\ surface' \in [Cell -> Colour] BY <1>0, <1>1 DEF ScreenInv, VtTypeOK
  <2> QED BY <1>1, <1>2, <2>1, <2>2 DEF ScreenInv, VtTypeOK, VtCallOK
<1>6. Drawers' /\ Switchers' BY <1>a, <1>1, <1>2, <1>3 DEF ScreenInv, Drawers, Drawer, Switchers
<1>7. PixelsKept' BY <1>1, <1>4 DEF ScreenInv, PixelsKept
<1>8. NothingUnsaved'
  <2>1. \A s \in VtThread : /\ vtCall[s].at = "store" => vtCall'[s] = vtCall[s]
                            /\ vtCall'[s].at = "store" => vtCall'[s] = vtCall[s] /\ vtCall[s].v \in Vt
    BY <1>0, <1>a, <1>2 DEF ScreenInv, VtTypeOK, VtCallOK
  <2>2. ASSUME NEW w \in Vt, NEW d \in Cell, pixels[w] = NoPixels, w # activeVt, Kept(w, d)
        PROVE  \E s \in VtThread : vtCall'[s].at = "store" /\ vtCall'[s].v = w /\ vtCall'[s].c = d /\ ~vtCall'[s].active
    BY <2>1, <2>2 DEF ScreenInv, NothingUnsaved
  <2>3. ASSUME NEW s \in VtThread, vtCall'[s].at = "store", ~vtCall'[s].active, pixels[vtCall'[s].v] = NoPixels,
               NEW d \in Cell, Kept(vtCall[s].v, d)
        PROVE  d = vtCall'[s].c
    BY <2>1, <2>3 DEF ScreenInv, NothingUnsaved
  <2> QED BY <2>1, <2>2, <2>3, <1>1, <1>4 DEF NothingUnsaved
<1>9. SnapsTrue'
  <2> SUFFICES ASSUME NEW s \in VtThread, vtCall'[s].at = "snap", pixels'[vtCall'[s].v] = NoPixels,
                      NEW d \in DOMAIN vtCall'[s].read, Kept(vtCall[s].v, d)'
               PROVE  vtCall'[s].read[d] = drawn'[vtCall'[s].v][d] \/ Storing(vtCall[s].v, d)'
    BY DEF SnapsTrue
  <2>1. vtCall'[s] = vtCall[s] BY <1>a, <1>2
  <2>2. vtCall[s].v \in Vt /\ d \in Cell BY <2>1 DEF ScreenInv, VtTypeOK, VtCallOK, Partial
  <2> QED BY <2>1, <2>2, <1>1, <1>4 DEF ScreenInv, SnapsTrue
<1>10. ScreenShown'
  BY <1>1, <1>3, <1>4 DEF ScreenShown, ScreenInv, PixelsKept, Storing, Drawing, Drawer
<1> QED BY <1>5, <1>6, <1>7, <1>8, <1>9, <1>10 DEF ScreenInv

LEMMA ScreenStep ==
    ASSUME ScreenInv, [VtNext]_vtVars
    PROVE  ScreenInv'
<1>1. CASE UNCHANGED vtVars
  BY <1>1 DEF vtVars, ScreenInv, VtTypeOK, VtCallOK, Drawers, Drawer, Switchers, PixelsKept, NothingUnsaved,
              SnapsTrue, ScreenShown, Storing, Drawing, Redrawing, Kept
<1>2. ASSUME NEW t \in VtThread, VtSwitching(t)
      PROVE  ScreenInv'
  BY <1>2, SwitchToKeeps, SnapCellKeeps, RedrawLoadKeeps, SnapDoneKeeps, ActiveStoredKeeps,
     ActivatedKeeps, RedrawPaintKeeps DEF VtSwitching
<1>3. CASE VtNext
  BY <1>3, <1>2, WriteStartKeeps, DrawLoadKeeps, DrawStoreKeeps, DrawPaintKeeps, SetTtyModeKeeps,
     GraphicsPaintKeeps DEF VtNext
<1> QED BY <1>1, <1>3

LEMMA ScreenInit == VtInit => ScreenInv
<1> SUFFICES ASSUME VtInit PROVE ScreenInv OBVIOUS
<1>1. 1 \in Vt BY VtAssumption DEF Vt
<1>2. \A t \in VtThread : vtCall[t] = VtUser /\ vtCall[t].at = "user" BY DEF VtInit, VtUser
<1>3. VtTypeOK
  BY <1>2, <1>1, VtAssumption DEF VtCallOK, VtUser, VtInit, VtTypeOK
<1>4. Drawers /\ Switchers /\ SnapsTrue BY <1>2 DEF Drawers, Drawer, Switchers, SnapsTrue
<1>5. PixelsKept BY DEF VtInit, PixelsKept
<1>6. NothingUnsaved BY <1>2 DEF VtInit, NothingUnsaved, Kept
<1>7. ScreenShown BY <1>1 DEF VtInit, ScreenShown
<1> QED BY <1>3, <1>4, <1>5, <1>6, <1>7 DEF ScreenInv

\* Every number of terminals, cells, colours and threads: what a terminal drew is
\* not lost over switches and changes of mode, but for the races that are listed
\* (Terminal::write, activate_vt, set_tty_mode).
THEOREM Screens == VtSpec => []ScreensKept
<1>1. ScreenInv => ScreensKept
  <2> SUFFICES ASSUME ScreenInv, VtQuiet PROVE ScreensKept BY DEF ScreensKept
  <2>0. VtUser.at = "user" BY DEF VtUser
  <2>1. \A t \in VtThread : vtCall[t].at = "user" BY <2>0 DEF VtQuiet
  <2>2. \A v \in Vt, c \in Cell : ~Storing(v, c) /\ ~Drawing(v, c) /\ ~Redrawing(v, c)
    BY <2>1 DEF Storing, Drawing, Drawer, Redrawing
  <2>3. activeVt \in Vt BY DEF ScreenInv, VtTypeOK
  <2> QED BY <2>2, <2>3 DEF ScreenInv, PixelsKept, ScreenShown, ScreensKept
<1> QED BY <1>1, ScreenInit, ScreenStep, PTL DEF VtSpec

-----------------------------------------------------------------------------
(* The keyboard and the mouse                                              *)

\* Scan codes, bytes, events and where the handler may be
KeyCode == {"shiftL", "shiftR", "ctrl", "caps", "a", "1", "up"}
ModSet == SUBSET {"shift", "ctrl", "caps"}
MouseByte == [kind : {"header"}, left : BOOLEAN] \cup [kind : {"motion"}, moved : BOOLEAN]
Byte == [kind : {"prefix"}] \cup MouseByte
        \cup [kind : {"key"}, code : KeyCode, pressed : BOOLEAN, mods : ModSet]
KeyEvent == [type : {"key"}, code : AllKeys, pressed : BOOLEAN, mods : ModSet]
Handling == [at : {"idle", "loop"}] \cup [at : {"listener"}, event : KeyEvent]
            \cup [at : {"receive"}, event : KeyEvent, v : Vt]

\* A path from a to b along the bytes of s, each of which is a step of R
Path(s, R, S, a, b) ==
    \E m \in [0 .. Len(s) -> S] :
        /\ m[0] = a /\ m[Len(s)] = b
        /\ \A i \in 1 .. Len(s) : <<s[i], m[i - 1], m[i]>> \in R

\* How far the driver is in the stream: what it still owes (the code after a
\* prefix, one or two bytes of a packet) and the button as far as it has read.
\* Parsed is what a byte does to that.
Form == {"nothing", "code", "one", "two"} \X BOOLEAN
Parsed(x, size, a, b) ==
    \/ x.kind = "prefix" /\ a[1] = "nothing" /\ b = <<"code", a[2]>>
    \/ /\ x.kind = "key" /\ b = <<"nothing", a[2]>>
       /\ a[1] = "nothing" \/ (a[1] = "code" /\ x.code \in {"ctrl", "up"})
    \/ x.kind = "header" /\ a[1] = "nothing" /\ b = <<IF size = 2 THEN "one" ELSE "two", x.left>>
    \/ x.kind = "motion" /\ a[1] = "two" /\ b = <<"one", a[2]>>
    \/ x.kind = "motion" /\ a[1] = "one" /\ b = <<"nothing", a[2]>>
Forms(size) == {t \in Byte \X Form \X Form : Parsed(t[1], size, t[2], t[3])}
\* What a key does to the modifiers, and Shifted what its byte does: the bytes carry
\* the modifiers held once they were sent.
Applied(m, pressed, mods) ==
    CASE m \in {"shift", "ctrl"}  -> IF pressed THEN mods \union {m} ELSE mods \ {m}
      [] m = "caps" /\ pressed    -> IF m \in mods THEN mods \ {m} ELSE mods \union {m}
      [] OTHER                    -> mods
CodeModifier(code) == IF code = "ctrl" THEN "ctrl" ELSE Modifier(code)
Shifted(x, a, b) ==
    IF x.kind = "key" THEN b = x.mods /\ b = Applied(CodeModifier(x.code), x.pressed, a) ELSE b = a
Shifts == {t \in Byte \X ModSet \X ModSet : Shifted(t[1], t[2], t[3])}

\* Where the driver, and the active terminal, are now
Owes == IF ps2.extended THEN "code" ELSE IF ps2.packet = <<>> THEN "nothing"
        ELSE IF Len(ps2.packet) = PacketSize - 1 THEN "one" ELSE "two"
LeftRead == IF ps2.packet = <<>> THEN ps2.left ELSE ps2.packet[1].left
ModsRead == IF handler.at \in {"listener", "receive"} THEN handler.event.mods ELSE modifiers[activeVt]

HeldType == [keys : SUBSET AllKeys, caps : BOOLEAN, left : BOOLEAN]
Ps2TypeOK ==
    /\ port \in Seq(Byte) /\ held \in HeldType
    /\ ps2 \in [extended : BOOLEAN, packet : Seq(MouseByte), left : BOOLEAN, wheel : BOOLEAN, mouse : BOOLEAN]
    /\ handler \in Handling /\ modifiers \in [Vt -> ModSet] /\ strayed \in BOOLEAN /\ doubled \in BOOLEAN
\* A packet that is begun has its header, and is not whole.
PacketBegun ==
    ps2.packet # <<>> => ~ps2.extended /\ ps2.packet[1].kind = "header" /\ Len(ps2.packet) < PacketSize
\* Before the driver is published nothing is decoded; without a mouse there are
\* only bytes of keys.
Unpublished ==
    /\ probe # "done" => handler = HandlerIdle /\ ~ps2.extended /\ ps2.packet = <<>>
    /\ probe \notin {"register", "done"} => ~ps2.mouse /\ ~ps2.wheel
    /\ ~ps2.mouse => /\ ps2.left = held.left
                     /\ \A i \in DOMAIN port : port[i].kind \in {"prefix", "key"}
\* The bytes not read yet lead from where the driver is to whole keys and packets,
\* and to the button as the mouse has it ...
BytesFormed == Path(port, Forms(PacketSize), Form, <<Owes, LeftRead>>, <<"nothing", held.left>>)
\* ... and from what the active terminal remembers, with the event that is on its
\* way, to the modifiers held; the other terminals remember none.
ModsTrue ==
    /\ lastChar.got = lastChar.meant
    /\ \A v \in Vt : v # activeVt => modifiers[v] = {}
    /\ handler.at = "receive" => handler.v = activeVt
    /\ handler.at \in {"listener", "receive"} =>
          handler.event.mods = Applied(Modifier(handler.event.code), handler.event.pressed, modifiers[activeVt])
    /\ Path(port, Shifts, ModSet, ModsRead, HeldModifiers(held))
InputInv == Ps2TypeOK /\ PacketBegun /\ Unpublished /\ BytesFormed /\ (strayed \/ doubled \/ ModsTrue)

-----------------------------------------------------------------------------
(* Paths *)

LEMMA PathEmpty ==
    ASSUME NEW R, NEW S, NEW a, NEW b
    PROVE  Path(<<>>, R, S, a, b) <=> a = b /\ a \in S
<1>1. Len(<<>>) = 0 /\ 0 .. 0 = {0} /\ 1 .. 0 = {} OBVIOUS
<1>2. ASSUME Path(<<>>, R, S, a, b) PROVE a = b /\ a \in S BY <1>1, <1>2 DEF Path
<1>3. ASSUME a = b, a \in S PROVE Path(<<>>, R, S, a, b)
  <2> DEFINE m == [i \in {0} |-> a]
  <2>1. m \in [0 .. Len(<<>>) -> S] /\ m[0] = a BY <1>1, <1>3
  <2> HIDE DEF m
  <2> QED BY <1>1, <1>3, <2>1 DEF Path
<1> QED BY <1>2, <1>3

LEMMA PathGrows ==
    ASSUME NEW T, NEW s \in Seq(T), NEW x \in T, NEW R, NEW S, NEW a, NEW b, NEW c \in S,
           Path(s, R, S, a, b), <<x, b, c>> \in R
    PROVE  Path(Append(s, x), R, S, a, c)
<1>1. PICK m \in [0 .. Len(s) -> S] : /\ m[0] = a /\ m[Len(s)] = b
                                     /\ \A i \in 1 .. Len(s) : <<s[i], m[i - 1], m[i]>> \in R
  BY DEF Path
<1> DEFINE t == Append(s, x)
           n == [i \in 0 .. Len(s) + 1 |-> IF i = Len(s) + 1 THEN c ELSE m[i]]
<1>2. Len(s) \in Nat /\ Len(t) = Len(s) + 1 /\ t[Len(s) + 1] = x /\ \A i \in 1 .. Len(s) : t[i] = s[i] OBVIOUS
<1>3. n \in [0 .. Len(t) -> S] BY <1>2
<1>4. n[Len(t)] = c /\ \A i \in 0 .. Len(s) : n[i] = m[i] BY <1>2
<1>5. n[0] = a BY <1>1, <1>2, <1>4
<1> HIDE DEF t, n
<1>6. ASSUME NEW i \in 1 .. Len(t) PROVE <<t[i], n[i - 1], n[i]>> \in R
  <2>1. CASE i = Len(t) BY <2>1, <1>1, <1>2, <1>4
  <2>2. CASE i # Len(t)
    BY <2>2, <1>2, <1>1, <1>4
  <2> QED BY <2>1, <2>2
<1>7. Path(t, R, S, a, c) BY <1>3, <1>4, <1>5, <1>6 DEF Path
<1> QED BY <1>7 DEF t

LEMMA PathTail ==
    ASSUME NEW T, NEW s \in Seq(T), s # <<>>, NEW R, NEW S, NEW a, NEW b, Path(s, R, S, a, b)
    PROVE  \E c \in S : <<Head(s), a, c>> \in R /\ Path(Tail(s), R, S, c, b)
<1>1. PICK m \in [0 .. Len(s) -> S] : /\ m[0] = a /\ m[Len(s)] = b
                                     /\ \A i \in 1 .. Len(s) : <<s[i], m[i - 1], m[i]>> \in R
  BY DEF Path
<1> DEFINE t == Tail(s)
           n == [i \in 0 .. Len(s) - 1 |-> m[i + 1]]
<1>2. Len(s) \in Nat \ {0} /\ Len(t) = Len(s) - 1 /\ Head(s) = s[1] /\ \A i \in 1 .. Len(t) : t[i] = s[i + 1] OBVIOUS
<1>3. n \in [0 .. Len(t) -> S] BY <1>2
<1>4. \A i \in 0 .. Len(t) : n[i] = m[i + 1] BY <1>2
<1> HIDE DEF t, n
<1>5. n[0] = m[1] /\ n[Len(t)] = b /\ m[1] \in S
  BY <1>2, <1>1, <1>4
<1>6. ASSUME NEW i \in 1 .. Len(t) PROVE <<t[i], n[i - 1], n[i]>> \in R
  BY <1>2, <1>4, <1>1
<1>7. Path(t, R, S, m[1], b) BY <1>3, <1>5, <1>6 DEF Path
<1>8. <<Head(s), a, m[1]>> \in R
  BY <1>2, <1>1
<1> QED BY <1>5, <1>7, <1>8 DEF t

LEMMA PathBefore ==
    ASSUME NEW T, NEW s \in Seq(T), s # <<>>, NEW R, NEW S, NEW a \in S, NEW b, NEW c,
           <<Head(s), a, c>> \in R, Path(Tail(s), R, S, c, b)
    PROVE  Path(s, R, S, a, b)
<1> DEFINE t == Tail(s)
<1>1. PICK m \in [0 .. Len(t) -> S] : /\ m[0] = c /\ m[Len(t)] = b
                                     /\ \A i \in 1 .. Len(t) : <<t[i], m[i - 1], m[i]>> \in R
  BY DEF Path
<1> DEFINE n == [i \in 0 .. Len(s) |-> IF i = 0 THEN a ELSE m[i - 1]]
<1>2. Len(s) \in Nat \ {0} /\ Len(t) = Len(s) - 1 /\ Head(s) = s[1] /\ \A i \in 1 .. Len(t) : t[i] = s[i + 1] OBVIOUS
<1>3. n \in [0 .. Len(s) -> S] BY <1>2
<1>4. n[0] = a /\ \A i \in 1 .. Len(s) : n[i] = m[i - 1] BY <1>2
<1> HIDE DEF t, n
<1>5. n[Len(s)] = b BY <1>1, <1>2, <1>4
<1>6. ASSUME NEW i \in 1 .. Len(s) PROVE <<s[i], n[i - 1], n[i]>> \in R
  BY <1>2, <1>1, <1>4 DEF t
<1> QED BY <1>3, <1>4, <1>5, <1>6 DEF Path

LEMMA PathTyped ==
    ASSUME NEW s, Len(s) \in Nat, NEW R, NEW S, NEW a, NEW b, Path(s, R, S, a, b)
    PROVE  a \in S /\ b \in S
  BY DEF Path
-----------------------------------------------------------------------------
(* Keys and modifiers *)

LEMMA KeyFact ==
    \A k \in AllKeys : /\ Modifier(k) \in {"shift", "ctrl", "caps", "none"}
                       /\ ScanCode(k) \in KeyCode /\ CodeModifier(ScanCode(k)) = Modifier(k)
                       /\ Modifier(k) = "caps" <=> k = "caps"
                       /\ Extended(k) => ScanCode(k) \in {"ctrl", "up"}
BY DEF AllKeys, Modifier, ScanCode, KeyCode, CodeModifier, Extended

\* What a code is an event of
LEMMA CodeFact ==
    ASSUME NEW code \in KeyCode, NEW extended \in BOOLEAN, extended => code \in {"ctrl", "up"}
    PROVE  /\ EvdevCode(code, extended) = "none" => CodeModifier(code) = "none"
           /\ EvdevCode(code, extended) # "none" =>
                 EvdevCode(code, extended) \in AllKeys /\ Modifier(EvdevCode(code, extended)) = CodeModifier(code)
  BY DEF EvdevCode, CodeModifier, Modifier, AllKeys, KeyCode

LEMMA AppliedFact ==
    ASSUME NEW m, NEW mods
    PROVE  /\ m \in {"shift", "ctrl"} => Applied(m, TRUE, mods) = mods \union {m} /\ Applied(m, FALSE, mods) = mods \ {m}
           /\ m = "caps" => /\ Applied(m, TRUE, mods) = IF m \in mods THEN mods \ {m} ELSE mods \union {m}
                            /\ Applied(m, FALSE, mods) = mods
           /\ m = "none" => Applied(m, TRUE, mods) = mods /\ Applied(m, FALSE, mods) = mods
BY DEF Applied

LEMMA AppliedType ==
    ASSUME NEW m, NEW pressed \in BOOLEAN, NEW mods \in ModSet
    PROVE  Applied(m, pressed, mods) \in ModSet /\ (m = "none" => Applied(m, pressed, mods) = mods)
BY DEF Applied, ModSet

LEMMA HeldFact ==
    ASSUME NEW h, h.keys \subseteq AllKeys, h.caps \in BOOLEAN
    PROVE  /\ HeldModifiers(h) \in ModSet
           /\ "caps" \in HeldModifiers(h) <=> h.caps
           /\ \A m \in {"shift", "ctrl"} : m \in HeldModifiers(h) <=> \E k \in h.keys : Modifier(k) = m
<1> DEFINE K == {Modifier(k) : k \in h.keys} \ {"none", "caps"}
<1>1. K \subseteq {"shift", "ctrl"} BY KeyFact
<1>2. \A m \in {"shift", "ctrl"} : m \in K <=> \E k \in h.keys : Modifier(k) = m OBVIOUS
<1>3. HeldModifiers(h) = K \union (IF h.caps THEN {"caps"} ELSE {}) BY DEF HeldModifiers
<1> HIDE DEF K
<1>4. CASE h.caps
  BY <1>3, <1>4, <1>1, <1>2 DEF ModSet
<1>5. CASE ~h.caps
  BY <1>3, <1>5, <1>1, <1>2 DEF ModSet
<1> QED BY <1>4, <1>5

\* Two sets of modifiers are equal when they agree on the three.
LEMMA SameMods ==
    ASSUME NEW A \in ModSet, NEW B \in ModSet, \A m \in {"shift", "ctrl", "caps"} : m \in A <=> m \in B
    PROVE  A = B
<1>1. A \subseteq {"shift", "ctrl", "caps"} /\ B \subseteq {"shift", "ctrl", "caps"} BY DEF ModSet
<1>2. \A x : x \in A <=> x \in B BY <1>1
<1> QED BY <1>2

LEMMA PressHeld ==
    ASSUME NEW h, h.keys \subseteq AllKeys, h.caps \in BOOLEAN, NEW key \in AllKeys,
           NEW g, g.keys = h.keys \union {key}, g.caps = (IF key = "caps" THEN ~h.caps ELSE h.caps)
    PROVE  HeldModifiers(g) = Applied(Modifier(key), TRUE, HeldModifiers(h))
<1>1. g.keys \subseteq AllKeys /\ g.caps \in BOOLEAN OBVIOUS
<1> DEFINE A == HeldModifiers(g) B == HeldModifiers(h) m == Modifier(key)
<1>2. /\ A \in ModSet /\ ("caps" \in A <=> g.caps)
      /\ \A x \in {"shift", "ctrl"} : x \in A <=> \E k \in g.keys : Modifier(k) = x
  BY <1>1, HeldFact
<1>3. /\ B \in ModSet /\ ("caps" \in B <=> h.caps)
      /\ \A x \in {"shift", "ctrl"} : x \in B <=> \E k \in h.keys : Modifier(k) = x
  BY HeldFact
<1> HIDE DEF A, B
<1> SUFFICES A = Applied(m, TRUE, B) BY DEF A, B
<1>4. m \in {"shift", "ctrl", "caps", "none"} /\ (m = "caps" <=> key = "caps") BY KeyFact
<1>5. \A x \in {"shift", "ctrl"} : x \in A <=> x \in B \/ x = m BY <1>2, <1>3
<1>9. A \in ModSet /\ B \in ModSet BY <1>2, <1>3
<1> HIDE DEF m
<1>6. CASE m \in {"shift", "ctrl"}
  <2>1. Applied(m, TRUE, B) = B \union {m} BY <1>6, AppliedFact
  <2>2. "caps" \in A <=> "caps" \in B BY <1>2, <1>3, <1>4, <1>6
  <2>3. B \union {m} \in ModSet BY <1>3, <1>6 DEF ModSet
  <2>4. \A x \in {"shift", "ctrl", "caps"} : x \in A <=> x \in B \union {m}
    BY <2>2, <1>5, <1>6
  <2> QED BY <2>1, <2>3, <2>4, <1>9, SameMods
<1>7. CASE m = "caps"
  <2>1. Applied(m, TRUE, B) = IF m \in B THEN B \ {m} ELSE B \union {m} BY <1>7, AppliedFact
  <2>2. "caps" \in A <=> "caps" \notin B BY <1>2, <1>3, <1>4, <1>7
  <2>3. Applied(m, TRUE, B) \in ModSet BY <2>1, <1>3, <1>7 DEF ModSet
  <2>4. \A x \in {"shift", "ctrl", "caps"} : x \in A <=> x \in Applied(m, TRUE, B)
    BY <2>1, <1>7, <1>5, <2>2
  <2> QED BY <2>3, <2>4, <1>9, SameMods
<1>8. CASE m = "none"
  <2>1. Applied(m, TRUE, B) = B BY <1>8, AppliedFact
  <2>2. "caps" \in A <=> "caps" \in B BY <1>2, <1>3, <1>4, <1>8
  <2>3. \A x \in {"shift", "ctrl", "caps"} : x \in A <=> x \in B BY <2>2, <1>5, <1>8
  <2>4. A = B BY <2>3, <1>9, SameMods
  <2> QED BY <2>1, <2>4
<1> QED BY <1>4, <1>6, <1>7, <1>8

LEMMA ReleaseHeld ==
    ASSUME NEW h, h.keys \subseteq AllKeys, h.caps \in BOOLEAN, NEW key \in h.keys,
           NEW g, g.keys = h.keys \ {key}, g.caps = h.caps, Modifier(key) \notin HeldModifiers(g) \ {"caps"}
    PROVE  HeldModifiers(g) = Applied(Modifier(key), FALSE, HeldModifiers(h))
<1>1. g.keys \subseteq AllKeys /\ g.caps \in BOOLEAN OBVIOUS
<1> DEFINE A == HeldModifiers(g) B == HeldModifiers(h) m == Modifier(key)
<1>2. /\ A \in ModSet /\ ("caps" \in A <=> g.caps)
      /\ \A x \in {"shift", "ctrl"} : x \in A <=> \E k \in g.keys : Modifier(k) = x
  BY <1>1, HeldFact
<1>3. /\ B \in ModSet /\ ("caps" \in B <=> h.caps)
      /\ \A x \in {"shift", "ctrl"} : x \in B <=> \E k \in h.keys : Modifier(k) = x
  BY HeldFact
<1> HIDE DEF A, B
<1> SUFFICES A = Applied(m, FALSE, B) BY DEF A, B
<1>4. m \in {"shift", "ctrl", "caps", "none"} BY KeyFact
<1>5. m \in {"shift", "ctrl"} => m \notin A BY DEF A
<1>6. \A x \in {"shift", "ctrl"} : x \in A <=> x \in B /\ x # m BY <1>2, <1>3, <1>5
<1>7. "caps" \in A <=> "caps" \in B BY <1>2, <1>3
<1>8. CASE m \in {"shift", "ctrl"}
  <2>1. Applied(m, FALSE, B) = B \ {m} BY <1>8, AppliedFact
  <2>2. B \ {m} \in ModSet BY <1>3 DEF ModSet
  <2>3. \A x \in {"shift", "ctrl", "caps"} : x \in A <=> x \in B \ {m} BY <1>6, <1>7, <1>8
  <2> QED BY <2>1, <2>2, <2>3, <1>2, SameMods
<1>9. CASE m \in {"caps", "none"}
  <2>1. Applied(m, FALSE, B) = B BY <1>9, AppliedFact
  <2>2. \A x \in {"shift", "ctrl", "caps"} : x \in A <=> x \in B BY <1>6, <1>7, <1>9
  <2> QED BY <2>1, <2>2, <1>2, <1>3, SameMods
<1> QED BY <1>4, <1>8, <1>9
-----------------------------------------------------------------------------
(* Bytes *)

LEMMA ByteFact ==
    /\ \A x \in Byte : /\ x.kind \in {"prefix", "key", "header", "motion"}
                       /\ x.kind = "key" => x.code \in KeyCode /\ x.pressed \in BOOLEAN /\ x.mods \in ModSet
                       /\ x.kind = "header" => x.left \in BOOLEAN
                       /\ x.kind \in {"header", "motion"} => x \in MouseByte
    /\ \A x \in MouseByte : x \in Byte /\ (x.kind = "header" => x.left \in BOOLEAN)
BY DEF Byte, MouseByte

LEMMA FormsFact ==
    ASSUME NEW x \in Byte, NEW a \in Form, NEW b \in Form, NEW size
    PROVE  <<x, a, b>> \in Forms(size) <=> Parsed(x, size, a, b)
BY DEF Forms

LEMMA ShiftsFact ==
    ASSUME NEW x \in Byte, NEW a \in ModSet, NEW b \in ModSet
    PROVE  <<x, a, b>> \in Shifts <=> Shifted(x, a, b)
BY DEF Shifts

LEMMA FormFact ==
    /\ \A o \in {"nothing", "code", "one", "two"}, left \in BOOLEAN :
          <<o, left>> \in Form /\ <<o, left>>[1] = o /\ <<o, left>>[2] = left
    /\ \A a \in Form : a[1] \in {"nothing", "code", "one", "two"} /\ a[2] \in BOOLEAN /\ a = <<a[1], a[2]>>
BY DEF Form

\* What the next byte says, and where the rest begins
LEMMA NextForm ==
    ASSUME NEW s \in Seq(Byte), s # <<>>, NEW size, NEW a, NEW b, Path(s, Forms(size), Form, a, b)
    PROVE  \E c \in Form : Parsed(Head(s), size, a, c) /\ Path(Tail(s), Forms(size), Form, c, b)
  BY PathTail, FormsFact DEF Forms

LEMMA NextShift ==
    ASSUME NEW s \in Seq(Byte), s # <<>>, NEW a, NEW b, Path(s, Shifts, ModSet, a, b)
    PROVE  \E c \in ModSet : Shifted(Head(s), a, c) /\ Path(Tail(s), Shifts, ModSet, c, b)
  BY PathTail, ShiftsFact DEF Shifts

LEMMA FormGrows ==
    ASSUME NEW s \in Seq(Byte), NEW x \in Byte, NEW size, NEW a, NEW b, NEW c \in Form,
           Path(s, Forms(size), Form, a, b), Parsed(x, size, b, c)
    PROVE  Path(Append(s, x), Forms(size), Form, a, c)
<1>1. b \in Form BY PathTyped
<1>2. <<x, b, c>> \in Forms(size) BY <1>1, FormsFact
<1> QED BY <1>2, PathGrows

LEMMA ShiftGrows ==
    ASSUME NEW s \in Seq(Byte), NEW x \in Byte, NEW a, NEW b, NEW c \in ModSet,
           Path(s, Shifts, ModSet, a, b), Shifted(x, b, c)
    PROVE  Path(Append(s, x), Shifts, ModSet, a, c)
<1>1. b \in ModSet BY PathTyped
<1>2. <<x, b, c>> \in Shifts BY <1>1, ShiftsFact
<1> QED BY <1>2, PathGrows

\* The bytes sent at a time
LEMMA SentOne ==
    ASSUME NEW T, NEW s \in Seq(T), NEW x \in T
    PROVE  s \o <<x>> = Append(s, x) /\ s \o <<>> = s
OBVIOUS

LEMMA SentSum ==
    ASSUME NEW T, NEW s \in Seq(T), NEW t \in Seq(T), NEW x \in T
    PROVE  s \o Append(t, x) = Append(s \o t, x)
<1> DEFINE u == s \o Append(t, x) v == Append(s \o t, x)
<1>1. u \in Seq(T) /\ v \in Seq(T) /\ Len(u) = Len(s) + Len(t) + 1 /\ Len(v) = Len(s) + Len(t) + 1 OBVIOUS
<1>2. \A i \in 1 .. Len(s) + Len(t) + 1 : u[i] = v[i] OBVIOUS
<1> HIDE DEF u, v
<1>3. u = v BY <1>1, <1>2
<1> QED BY <1>3 DEF u, v

LEMMA Sent ==
    ASSUME NEW T, NEW s \in Seq(T), NEW x \in T, NEW y \in T, NEW z \in T
    PROVE  /\ s \o <<x>> = Append(s, x)
           /\ s \o <<x, y>> = Append(Append(s, x), y)
           /\ s \o (<<x>> \o <<>> \o <<y>>) = Append(Append(s, x), y)
           /\ s \o (<<x>> \o <<y>> \o <<z>>) = Append(Append(Append(s, x), y), z)
<1>1. PICK one : one = <<x>> OBVIOUS
<1>2. one \in Seq(T) /\ s \o one = Append(s, x) /\ Append(one, y) = <<x, y>>
  <2>1. one \in Seq(T) BY <1>1
  <2>2. s \o one = Append(s, x) BY <1>1, SentOne
  <2>3. Append(one, y) = <<x, y>>
    <3>1. PICK u, v : u = Append(one, y) /\ v = <<x, y>> OBVIOUS
    <3>2. u \in Seq(T) /\ Len(u) = 2 /\ u[1] = x /\ u[2] = y BY <3>1, <1>1
    <3>3. v \in Seq(T) /\ Len(v) = 2 /\ v[1] = x /\ v[2] = y BY <3>1
    <3>4. \A i \in 1 .. 2 : u[i] = v[i] BY <3>2, <3>3
    <3>5. u = v BY <3>2, <3>3, <3>4
    <3> QED BY <3>1, <3>5
  <2> QED BY <2>1, <2>2, <2>3
<1>3. one \o <<>> = one /\ one \o <<y>> = Append(one, y) BY <1>2, SentOne
<1>4. s \o Append(one, y) = Append(s \o one, y) BY <1>2, SentSum
<1>5. PICK two : two = Append(one, y) OBVIOUS
<1>6. two \in Seq(T) BY <1>2, <1>5
<1>7. two \o <<z>> = Append(two, z) BY <1>6, SentOne
<1>8. s \o Append(two, z) = Append(s \o two, z) BY <1>6, SentSum
<1> QED BY <1>1, <1>2, <1>3, <1>4, <1>5, <1>7, <1>8
-----------------------------------------------------------------------------
(* The devices *)

LEMMA BytesKept ==
    ASSUME BytesFormed, UNCHANGED <<port, ps2, held>>
    PROVE  BytesFormed'
BY DEF BytesFormed, Owes, LeftRead, PacketSize

LEMMA ModsKept ==
    ASSUME ModsTrue, UNCHANGED <<port, handler, modifiers, lastChar, held, activeVt>>
    PROVE  ModsTrue'
BY DEF ModsTrue, ModsRead

LEMMA InputKept ==
    ASSUME InputInv, UNCHANGED <<probe, port, ps2, handler, modifiers, lastChar, held, activeVt, strayed, doubled>>
    PROVE  InputInv'
  BY BytesKept, ModsKept DEF InputInv, Ps2TypeOK, PacketBegun, PacketSize, Unpublished

\* What is held once a key has moved
Moved(h, key, pressed) ==
    [h EXCEPT !.keys = IF pressed THEN @ \union {key} ELSE @ \ {key},
              !.caps = IF pressed /\ key = "caps" THEN ~@ ELSE @]
LEMMA HeldKey ==
    ASSUME NEW h \in HeldType, NEW key \in AllKeys, NEW pressed \in BOOLEAN, 
           pressed => key \notin h.keys, ~pressed => key \in h.keys,
           NEW g, g = Moved(h, key, pressed)
    PROVE  /\ g \in HeldType /\ g.left = h.left
           /\ HeldModifiers(g) \in ModSet
           /\ pressed \/ Modifier(key) \notin HeldModifiers(g) \ {"caps"} =>
                 HeldModifiers(g) = Applied(Modifier(key), pressed, HeldModifiers(h))
<1>1. h.keys \subseteq AllKeys /\ h.caps \in BOOLEAN BY DEF HeldType
<1>2. CASE pressed
  BY <1>2, <1>1, PressHeld, HeldFact DEF Moved, HeldType
<1>3. CASE ~pressed
  <2>1. key \in h.keys /\ pressed = FALSE BY <1>3
  <2>2. g = [h EXCEPT !.keys = @ \ {key}, !.caps = @] BY <1>3 DEF Moved
  <2>3. g \in HeldType /\ g.left = h.left /\ g.keys = h.keys \ {key} /\ g.caps = h.caps BY <2>2 DEF HeldType
  <2>4. Modifier(key) \notin HeldModifiers(g) \ {"caps"} =>
            HeldModifiers(g) = Applied(Modifier(key), FALSE, HeldModifiers(h))
    BY <1>1, <2>1, <2>3, ReleaseHeld
  <2>5. HeldModifiers(g) \in ModSet
    BY <2>3, HeldFact DEF HeldType
  <2> QED BY <2>1, <2>3, <2>4, <2>5
<1> QED BY <1>2, <1>3

LEMMA KeyMovesKeeps == ASSUME InputInv, NEW key \in Keys, KeyMoves(key) PROVE InputInv'
<1>0. key \in AllKeys /\ held \in HeldType /\ port \in Seq(Byte) BY Ps2Assumption DEF InputInv, Ps2TypeOK
<1>1. PICK pressed \in BOOLEAN : pressed = (key \notin held.keys) OBVIOUS
<1>2. PICK g : g = Moved(held, key, pressed) OBVIOUS
<1>3. PICK byte : byte = [kind |-> "key", code |-> ScanCode(key), pressed |-> pressed, mods |-> HeldModifiers(g)]
  OBVIOUS
<1>4. PICK prefix : prefix = [kind |-> "prefix"] OBVIOUS
<1>5. /\ held' = g
      /\ doubled' = (doubled \/ (~pressed /\ Modifier(key) \in HeldModifiers(g) \ {"caps"}))
      /\ port' = port \o (IF Extended(key) THEN <<prefix, byte>> ELSE <<byte>>)
      /\ UNCHANGED <<probe, ps2, handler, modifiers, lastChar, strayed, activeVt>>
  BY <1>4, <1>1, <1>2, <1>3 DEF KeyMoves, Sends, vtVars, Moved
<1>6. /\ g \in HeldType /\ g.left = held.left /\ HeldModifiers(g) \in ModSet
      /\ pressed \/ Modifier(key) \notin HeldModifiers(g) \ {"caps"} =>
            HeldModifiers(g) = Applied(Modifier(key), pressed, HeldModifiers(held))
  BY <1>1, <1>0, <1>2, HeldKey
<1>7. ScanCode(key) \in KeyCode /\ CodeModifier(ScanCode(key)) = Modifier(key)
      /\ (Extended(key) => ScanCode(key) \in {"ctrl", "up"})
  BY <1>0, KeyFact
<1>8. byte \in Byte /\ byte.kind = "key" /\ byte.code = ScanCode(key) /\ byte.pressed = pressed
      /\ byte.mods = HeldModifiers(g)
  BY <1>3, <1>6, <1>7 DEF Byte
<1>9. prefix \in Byte /\ prefix.kind = "prefix" BY <1>4 DEF Byte
<1>10. port' = IF Extended(key) THEN Append(Append(port, prefix), byte) ELSE Append(port, byte)
  BY <1>0, <1>5, <1>8, <1>9, Sent
<1>11. Ps2TypeOK'
  BY <1>0, <1>8, <1>9, <1>10, <1>5, <1>6 DEF InputInv, Ps2TypeOK
<1>12. PacketBegun' BY <1>5 DEF InputInv, PacketBegun, PacketSize
<1>13. Unpublished'
  BY <1>0, <1>8, <1>9, <1>10, <1>5, <1>6 DEF InputInv, Unpublished
<1>14. BytesFormed'
  <2>1. PICK a, size, left : a = <<Owes, LeftRead>> /\ size = PacketSize /\ left = held.left OBVIOUS
  <2>2. Path(port, Forms(size), Form, a, <<"nothing", left>>) BY <2>1 DEF InputInv, BytesFormed
  <2>3. left \in BOOLEAN BY <2>1, <1>0 DEF HeldType
  <2>4. /\ <<"nothing", left>> \in Form /\ <<"nothing", left>>[1] = "nothing" /\ <<"nothing", left>>[2] = left
        /\ <<"code", left>> \in Form /\ <<"code", left>>[1] = "code" /\ <<"code", left>>[2] = left
    BY <2>3, FormFact
  <2>5. Path(port', Forms(size), Form, a, <<"nothing", left>>)
    <3>1. CASE Extended(key)
      <4>1. Parsed(prefix, size, <<"nothing", left>>, <<"code", left>>) BY <2>4, <1>9 DEF Parsed
      <4>2. Path(Append(port, prefix), Forms(size), Form, a, <<"code", left>>)
        BY <2>2, <2>4, <4>1, <1>0, <1>9, FormGrows
      <4>3. Parsed(byte, size, <<"code", left>>, <<"nothing", left>>) BY <2>4, <3>1, <1>7, <1>8 DEF Parsed
      <4>4. Append(port, prefix) \in Seq(Byte) BY <1>0, <1>9
      <4>5. Path(Append(Append(port, prefix), byte), Forms(size), Form, a, <<"nothing", left>>)
        BY <2>4, <4>2, <4>3, <4>4, <1>8, FormGrows
      <4> QED BY <4>5, <3>1, <1>10
    <3>2. CASE ~Extended(key)
      BY <2>4, <1>8, <2>2, <1>0, FormGrows, <3>2, <1>10 DEF Parsed
    <3> QED BY <3>1, <3>2
  <2>6. a = <<Owes, LeftRead>>' /\ size = PacketSize' BY <2>1, <1>5 DEF Owes, LeftRead, PacketSize
  <2>7. left = held'.left BY <2>1, <1>5, <1>6
  <2> QED BY <2>5, <2>6, <2>7 DEF BytesFormed
<1>15. (strayed \/ doubled \/ ModsTrue)'
  <2> SUFFICES ASSUME ~strayed', ~doubled' PROVE ModsTrue' OBVIOUS
  <2>1. ~strayed /\ ~doubled /\ (pressed \/ Modifier(key) \notin HeldModifiers(g) \ {"caps"}) BY <1>5
  <2>2. ModsTrue BY <2>1 DEF InputInv
  <2>3. PICK a, m, n : a = ModsRead /\ m = HeldModifiers(held) /\ n = HeldModifiers(g) OBVIOUS
  <2>4. Path(port, Shifts, ModSet, a, m) BY <2>2, <2>3 DEF ModsTrue
  <2>5. m \in ModSet BY <2>4, <1>0, PathTyped
  <2>6. n \in ModSet /\ n = Applied(Modifier(key), pressed, m) BY <2>1, <2>3, <1>6
  <2>7. Shifted(byte, m, n) BY <2>3, <2>6, <1>7, <1>8 DEF Shifted
  <2>8. Shifted(prefix, m, m) BY <1>9 DEF Shifted
  <2>9. Path(Append(port, byte), Shifts, ModSet, a, n) BY <2>4, <2>6, <2>7, <1>0, <1>8, ShiftGrows
  <2>10. Path(Append(port, prefix), Shifts, ModSet, a, m) BY <2>4, <2>5, <2>8, <1>0, <1>9, ShiftGrows
  <2>11. Append(port, prefix) \in Seq(Byte) BY <1>0, <1>9
  <2>12. Path(Append(Append(port, prefix), byte), Shifts, ModSet, a, n)
    BY <2>6, <2>7, <2>10, <2>11, <1>8, ShiftGrows
  <2>13. Path(port', Shifts, ModSet, a, n) BY <2>9, <2>12, <1>10
  <2>14. a = ModsRead' /\ n = HeldModifiers(held)' BY <2>3, <1>5 DEF ModsRead, HeldModifiers
  <2>15. Path(port, Shifts, ModSet, ModsRead, HeldModifiers(held))' BY <2>13, <2>14
  <2>16. UNCHANGED <<handler, modifiers, lastChar, activeVt>> BY <1>5
  <2> QED BY <2>2, <2>15, <2>16 DEF ModsTrue
<1> QED BY <1>11, <1>12, <1>13, <1>14, <1>15 DEF InputInv

LEMMA MouseMovesKeeps ==
    ASSUME InputInv, NEW left \in BOOLEAN, NEW moved \in BOOLEAN, MouseMoves(left, moved) PROVE InputInv'
<1>0. /\ held \in HeldType /\ port \in Seq(Byte) /\ ps2.mouse /\ ps2.wheel \in BOOLEAN
      /\ UNCHANGED <<probe, ps2, handler, modifiers, lastChar, strayed, doubled, activeVt>>
  BY DEF InputInv, Ps2TypeOK, MouseMoves, ps2HistoryVars, vtVars
<1>1. held' \in HeldType /\ held'.left = left /\ held'.keys = held.keys /\ held'.caps = held.caps
  BY <1>0 DEF MouseMoves, HeldType
<1>2. PICK x, y, z : /\ x = [kind |-> "header", left |-> left] /\ y = [kind |-> "motion", moved |-> FALSE]
                     /\ z = [kind |-> "motion", moved |-> moved]
  OBVIOUS
<1>3. /\ x \in Byte /\ x.kind = "header" /\ x.left = left
      /\ y \in Byte /\ y.kind = "motion" /\ z \in Byte /\ z.kind = "motion"
  BY <1>2 DEF Byte, MouseByte
<1>4. port' = port \o (<<x>> \o (IF ps2.wheel THEN <<y>> ELSE <<>>) \o <<z>>) BY <1>2 DEF MouseMoves, Sends
<1>5. port' = IF ps2.wheel THEN Append(Append(Append(port, x), y), z) ELSE Append(Append(port, x), z)
  BY <1>0, <1>3, <1>4, Sent
<1>6. /\ Append(port, x) \in Seq(Byte) /\ Append(Append(port, x), y) \in Seq(Byte)
      /\ Append(Append(port, x), z) \in Seq(Byte) /\ Append(Append(Append(port, x), y), z) \in Seq(Byte)
  BY <1>0, <1>3
<1>7. Ps2TypeOK'
  BY <1>5, <1>6, <1>0, <1>1 DEF InputInv, Ps2TypeOK
<1>8. PacketBegun' BY <1>0 DEF InputInv, PacketBegun, PacketSize
<1>9. Unpublished' BY <1>0 DEF InputInv, Unpublished
<1>10. BytesFormed'
  <2>1. PICK a, size, l : a = <<Owes, LeftRead>> /\ size = PacketSize /\ l = held.left OBVIOUS
  <2>2. Path(port, Forms(size), Form, a, <<"nothing", l>>) BY <2>1 DEF InputInv, BytesFormed
  <2>3. l \in BOOLEAN BY <2>1, <1>0 DEF HeldType
  <2>4. /\ <<"nothing", l>>[1] = "nothing"
        /\ <<"nothing", left>> \in Form
        /\ <<"one", left>> \in Form /\ <<"one", left>>[1] = "one" /\ <<"one", left>>[2] = left
        /\ <<"two", left>> \in Form /\ <<"two", left>>[1] = "two" /\ <<"two", left>>[2] = left
    BY <2>3, FormFact
  <2>5. Path(port', Forms(size), Form, a, <<"nothing", left>>)
    <3>1. Parsed(z, size, <<"one", left>>, <<"nothing", left>>) BY <2>4, <1>3 DEF Parsed
    <3>2. CASE ps2.wheel
      <4>1. size = 3 BY <3>2, <2>1 DEF PacketSize
      <4>2. Parsed(x, size, <<"nothing", l>>, <<"two", left>>) BY <4>1, <2>4, <1>3 DEF Parsed
      <4>3. Path(Append(port, x), Forms(size), Form, a, <<"two", left>>)
        BY <4>2, <2>2, <2>4, <1>0, <1>3, FormGrows
      <4>4. Parsed(y, size, <<"two", left>>, <<"one", left>>) BY <2>4, <1>3 DEF Parsed
      <4>5. Path(Append(Append(port, x), y), Forms(size), Form, a, <<"one", left>>)
        BY <4>3, <4>4, <2>4, <1>3, <1>6, FormGrows
      <4>6. Path(Append(Append(Append(port, x), y), z), Forms(size), Form, a, <<"nothing", left>>)
        BY <4>5, <3>1, <2>4, <1>3, <1>6, FormGrows
      <4> QED BY <4>6, <3>2, <1>5
    <3>3. CASE ~ps2.wheel
      <4>1. size = 2 BY <3>3, <2>1 DEF PacketSize
      <4>2. Parsed(x, size, <<"nothing", l>>, <<"one", left>>) BY <4>1, <2>4, <1>3 DEF Parsed
      <4>3. Path(Append(port, x), Forms(size), Form, a, <<"one", left>>)
        BY <4>2, <2>2, <2>4, <1>0, <1>3, FormGrows
      <4>4. Path(Append(Append(port, x), z), Forms(size), Form, a, <<"nothing", left>>)
        BY <4>3, <3>1, <2>4, <1>3, <1>6, FormGrows
      <4> QED BY <4>4, <3>3, <1>5
    <3> QED BY <3>2, <3>3
  <2>6. a = <<Owes, LeftRead>>' /\ size = PacketSize' BY <2>1, <1>0 DEF Owes, LeftRead, PacketSize
  <2> QED BY <2>5, <2>6, <1>1 DEF BytesFormed
<1>11. (strayed \/ doubled \/ ModsTrue)'
  <2> SUFFICES ASSUME ~strayed', ~doubled' PROVE ModsTrue' OBVIOUS
  <2>1. ModsTrue BY <1>0 DEF InputInv
  <2>2. PICK a, m : a = ModsRead /\ m = HeldModifiers(held) OBVIOUS
  <2>3. Path(port, Shifts, ModSet, a, m) BY <2>1, <2>2 DEF ModsTrue
  <2>4. m \in ModSet BY <2>3, <1>0, PathTyped
  <2>5. Shifted(x, m, m) /\ Shifted(y, m, m) /\ Shifted(z, m, m) BY <1>3 DEF Shifted
  <2>6. Path(Append(port, x), Shifts, ModSet, a, m) BY <2>3, <2>4, <2>5, <1>0, <1>3, ShiftGrows
  <2>7. Path(Append(Append(port, x), y), Shifts, ModSet, a, m) BY <2>4, <2>5, <2>6, <1>3, <1>6, ShiftGrows
  <2>8. Path(Append(Append(port, x), z), Shifts, ModSet, a, m) BY <2>4, <2>5, <2>6, <1>3, <1>6, ShiftGrows
  <2>9. Path(Append(Append(Append(port, x), y), z), Shifts, ModSet, a, m) BY <2>4, <2>5, <2>7, <1>3, <1>6, ShiftGrows
  <2>10. Path(port', Shifts, ModSet, a, m) BY <2>8, <2>9, <1>5
  <2>11. a = ModsRead' BY <2>2, <1>0 DEF ModsRead
  <2>12. m = HeldModifiers(held)' BY <2>2, <1>1 DEF HeldModifiers
  <2>13. Path(port, Shifts, ModSet, ModsRead, HeldModifiers(held))' BY <2>10, <2>11, <2>12
  <2> QED BY <2>1, <2>13, <1>0 DEF ModsTrue
<1> QED BY <1>7, <1>8, <1>9, <1>10, <1>11 DEF InputInv

-----------------------------------------------------------------------------
(* The probe *)

LEMMA ProbeGoes ==
    ASSUME InputInv, UNCHANGED <<port, ps2, handler, modifiers, lastChar, held, activeVt, strayed, doubled>>,
           \/ probe' = "done"
           \/ probe' = "register" /\ probe # "done"
           \/ probe' # "done" /\ probe \notin {"register", "done"}
    PROVE  InputInv'
  BY BytesKept, ModsKept DEF InputInv, Ps2TypeOK, PacketBegun, PacketSize, Unpublished

LEMMA ProbeKeeps ==
    ASSUME InputInv, \/ \E ok \in BOOLEAN : InitController(ok) \/ InitKeyboard(ok)
                     \/ Published
    PROVE  InputInv'
  BY ProbeGoes DEF InitController, ps2HistoryVars, vtVars, InitKeyboard, Published

LEMMA MouseFlushKeeps == ASSUME InputInv, NEW available \in BOOLEAN, MouseFlush(available) PROVE InputInv'
<1>1. /\ probe = "flush" /\ probe' \in {"mouse", "register"}
      /\ UNCHANGED <<ps2, handler, modifiers, lastChar, held, activeVt, doubled>>
      /\ strayed => strayed'
  BY DEF MouseFlush, vtVars
<1>2. CASE ~available \/ port = <<>>
  BY <1>2, <1>1, ProbeGoes DEF MouseFlush, InputInv, Ps2TypeOK
<1>3. CASE available /\ port # <<>>
  <2>1. port' = <<>> /\ strayed' /\ strayed' \in BOOLEAN BY <1>3 DEF MouseFlush
  <2>2. Ps2TypeOK' BY <2>1, <1>1 DEF InputInv, Ps2TypeOK
  <2>3. PacketBegun' BY <1>1 DEF InputInv, PacketBegun, PacketSize
  <2>4. Unpublished' BY <1>1, <2>1 DEF InputInv, Unpublished
  <2>5. BytesFormed'
    <3>1. ~ps2.extended /\ ps2.packet = <<>> /\ ps2.left = held.left BY <1>1 DEF InputInv, Unpublished
    <3>2. Owes' = "nothing" /\ LeftRead' = held'.left BY <3>1, <1>1 DEF Owes, LeftRead
    <3>3. held'.left \in BOOLEAN BY <2>2 DEF Ps2TypeOK, HeldType
    <3> QED BY <3>2, <3>3, <2>1, FormFact, PathEmpty DEF BytesFormed
  <2> QED BY <2>1, <2>2, <2>3, <2>4, <2>5 DEF InputInv
<1> QED BY <1>2, <1>3

\* What is left of the bytes of keys when the first is taken for an answer
LEMMA FirstTaken ==
    ASSUME NEW s \in Seq(Byte), s # <<>>, NEW size, NEW left \in BOOLEAN,
           \A i \in DOMAIN s : s[i].kind \in {"prefix", "key"},
           Path(s, Forms(size), Form, <<"nothing", left>>, <<"nothing", left>>)
    PROVE  Path(Tail(s), Forms(size), Form, <<"nothing", left>>, <<"nothing", left>>)
<1>1. PICK c \in Form : /\ Parsed(Head(s), size, <<"nothing", left>>, c)
                        /\ Path(Tail(s), Forms(size), Form, c, <<"nothing", left>>)
  BY NextForm
<1>2. Head(s).kind \in {"prefix", "key"} OBVIOUS
<1>3. /\ <<"nothing", left>>[1] = "nothing" /\ <<"nothing", left>>[2] = left /\ <<"nothing", left>> \in Form
      /\ <<"code", left>>[1] = "code" /\ <<"code", left>>[2] = left
  BY FormFact
<1>4. c = <<"nothing", left>> \/ c = <<"code", left>> BY <1>1, <1>2, <1>3 DEF Parsed
<1>5. CASE c = <<"code", left>>
  <2>1. Tail(s) \in Seq(Byte) OBVIOUS
  <2>2. Tail(s) # <<>>
    <3> SUFFICES ASSUME Tail(s) = <<>> PROVE FALSE OBVIOUS
    <3>1. Path(<<>>, Forms(size), Form, c, <<"nothing", left>>) BY <1>1
    <3>2. c = <<"nothing", left>> BY <3>1, PathEmpty, Zenon
    <3> QED BY <3>2, <1>3, <1>5
  <2>3. PICK d \in Form : /\ Parsed(Head(Tail(s)), size, c, d)
                          /\ Path(Tail(Tail(s)), Forms(size), Form, d, <<"nothing", left>>)
    BY <2>1, <2>2, <1>1, NextForm
  <2>4. Parsed(Head(Tail(s)), size, <<"nothing", left>>, d) BY <2>3, <1>3, <1>5 DEF Parsed
  <2>5. Head(Tail(s)) \in Byte
    BY <2>1, <2>2
  <2>6. <<Head(Tail(s)), <<"nothing", left>>, d>> \in Forms(size) BY <2>4, <2>5, <1>3, FormsFact
  <2> QED BY <2>1, <2>2, <2>3, <2>6, <1>3, PathBefore
<1> QED BY <1>1, <1>4, <1>5

LEMMA InitMouseKeeps ==
    ASSUME InputInv, NEW ok \in BOOLEAN, NEW wheel \in BOOLEAN, InitMouse(ok, wheel) PROVE InputInv'
<1>1. /\ probe = "mouse" /\ probe' = "register" /\ (ok => port = <<>>) /\ (wheel => ok)
      /\ port' = (IF port = <<>> THEN port ELSE Tail(port))
      /\ ps2' = [ps2 EXCEPT !.mouse = ok, !.wheel = wheel]
      /\ strayed' = (strayed \/ port # <<>>)
      /\ UNCHANGED <<handler, modifiers, lastChar, held, activeVt, doubled>>
  BY DEF InitMouse, vtVars
<1>2. /\ handler = HandlerIdle /\ ~ps2.extended /\ ps2.packet = <<>> /\ ~ps2.mouse /\ ~ps2.wheel
      /\ ps2.left = held.left /\ held.left \in BOOLEAN /\ port \in Seq(Byte)
      /\ \A i \in DOMAIN port : port[i].kind \in {"prefix", "key"}
  BY <1>1 DEF InputInv, Unpublished, Ps2TypeOK, HeldType
<1>3. /\ ps2' \in [extended : BOOLEAN, packet : Seq(MouseByte), left : BOOLEAN, wheel : BOOLEAN, mouse : BOOLEAN]
      /\ ~ps2'.extended /\ ps2'.packet = <<>> /\ ps2'.left = ps2.left /\ ps2'.mouse = ok /\ ps2'.wheel = wheel
  BY <1>1, <1>2 DEF InputInv, Ps2TypeOK
<1>4. port' \in Seq(Byte) /\ strayed' \in BOOLEAN BY <1>1, <1>2
<1>5. Ps2TypeOK' BY <1>1, <1>3, <1>4 DEF InputInv, Ps2TypeOK
<1>6. PacketBegun' BY <1>3 DEF PacketBegun
<1>7. Unpublished'
  <2>1. \A i \in DOMAIN port' : port'[i].kind \in {"prefix", "key"}
    BY <1>1, <1>2
  <2> QED BY <2>1, <1>1, <1>2, <1>3 DEF Unpublished
<1>8. BytesFormed'
  <2>0. <<"nothing", held.left>> \in Form BY <1>2, FormFact
  <2>1. Owes = "nothing" /\ LeftRead = held.left BY <1>2 DEF Owes, LeftRead
  <2>2. Owes' = "nothing" /\ LeftRead' = held'.left BY <1>1, <1>2, <1>3 DEF Owes, LeftRead
  <2>3. PICK size, left : size = PacketSize' /\ left = held.left OBVIOUS
  <2>4. Path(port', Forms(size), Form, <<"nothing", left>>, <<"nothing", left>>)
    <3>1. CASE port = <<>> BY <3>1, <2>0, <2>3, <1>1, PathEmpty
    <3>2. CASE port # <<>>
      <4>1. ~ok /\ ~wheel BY <3>2, <1>1
      <4>2. PacketSize' = PacketSize BY <4>1, <1>2, <1>3 DEF PacketSize
      <4>3. Path(port, Forms(size), Form, <<"nothing", left>>, <<"nothing", left>>)
        BY <4>2, <2>1, <2>3 DEF InputInv, BytesFormed
      <4> QED BY <4>3, <3>2, <2>3, <1>1, <1>2, FirstTaken
    <3> QED BY <3>1, <3>2
  <2> QED BY <2>2, <2>3, <2>4, <1>1 DEF BytesFormed
<1>9. (strayed \/ doubled \/ ModsTrue)'
  BY <1>1, ModsKept DEF InputInv
<1> QED BY <1>5, <1>6, <1>7, <1>8, <1>9 DEF InputInv

-----------------------------------------------------------------------------
(* The handler *)

LEMMA HandlingFact ==
    /\ \A h \in Handling : /\ h.at \in {"idle", "loop", "listener", "receive"}
                           /\ h.at \in {"listener", "receive"} => h.event \in KeyEvent
                           /\ h.at = "receive" => h.v \in Vt
                           /\ h.at = "idle" => h = HandlerIdle
    /\ HandlerIdle \in Handling /\ HandlerIdle.at = "idle"
    /\ [at |-> "loop"] \in Handling /\ [at |-> "loop"].at = "loop"
    /\ \A e \in KeyEvent : /\ [at |-> "listener", event |-> e] \in Handling
                           /\ \A v \in Vt : [at |-> "receive", event |-> e, v |-> v] \in Handling
BY DEF Handling, HandlerIdle

\* The handler starts or ends, and has no event in hand.
LEMMA HandlerTurns ==
    ASSUME InputInv, UNCHANGED <<probe, port, ps2, modifiers, lastChar, held, activeVt, strayed, doubled>>,
           handler.at \in {"idle", "loop"}, handler' \in {HandlerIdle, [at |-> "loop"]},
           handler' # HandlerIdle => probe = "done"
    PROVE  InputInv'
  BY HandlingFact, BytesKept DEF InputInv, Ps2TypeOK, PacketBegun, PacketSize, Unpublished, ModsRead,
     ModsTrue

\* A byte is read: the bytes that are left, whatever it said
LEMMA ByteRead ==
    ASSUME InputInv, handler.at = "loop", port # <<>>, PendingData
    PROVE  /\ Head(port) \in Byte /\ port' \in Seq(Byte) /\ probe = "done"
           /\ \E c \in Form : /\ Parsed(Head(port), PacketSize, <<Owes, LeftRead>>, c)
                            /\ Path(port', Forms(PacketSize), Form, c, <<"nothing", held.left>>)
           /\ ~strayed /\ ~doubled =>
                 \E c \in ModSet : /\ Shifted(Head(port), modifiers[activeVt], c)
                                  /\ Path(port', Shifts, ModSet, c, HeldModifiers(held))
           /\ ~ps2.mouse => /\ Head(port).kind \in {"prefix", "key"}
                            /\ \A i \in DOMAIN port' : port'[i].kind \in {"prefix", "key"}
<1>1. port \in Seq(Byte) /\ port' = Tail(port) BY DEF InputInv, Ps2TypeOK, PendingData
<1>2. Head(port) \in Byte /\ port' \in Seq(Byte) BY <1>1
<1>3. probe = "done" BY HandlingFact DEF InputInv, Unpublished
<1>4. \E c \in Form : /\ Parsed(Head(port), PacketSize, <<Owes, LeftRead>>, c)
                     /\ Path(port', Forms(PacketSize), Form, c, <<"nothing", held.left>>)
  BY <1>1, NextForm DEF InputInv, BytesFormed
<1>5. ASSUME ~strayed, ~doubled
      PROVE  \E c \in ModSet : /\ Shifted(Head(port), modifiers[activeVt], c)
                              /\ Path(port', Shifts, ModSet, c, HeldModifiers(held))
  BY <1>5, <1>1, NextShift DEF InputInv, ModsTrue, ModsRead
<1>6. ASSUME ~ps2.mouse
      PROVE  /\ Head(port).kind \in {"prefix", "key"}
             /\ \A i \in DOMAIN port' : port'[i].kind \in {"prefix", "key"}
  BY <1>6, <1>1 DEF InputInv, Unpublished
<1> QED BY <1>2, <1>3, <1>4, <1>5, <1>6

LEMMA FormRead ==
    /\ <<Owes, LeftRead>>[1] = Owes /\ <<Owes, LeftRead>>[2] = LeftRead
    /\ Owes = "nothing" => ~ps2.extended /\ ps2.packet = <<>>
    /\ Owes = "code" => ps2.extended
    /\ Owes \in {"one", "two"} => ~ps2.extended /\ ps2.packet # <<>>
    /\ Owes = "one" => Len(ps2.packet) = PacketSize - 1
    /\ Owes = "two" => Len(ps2.packet) # PacketSize - 1
BY DEF Owes

LEMMA KeyboardDataKeeps == ASSUME InputInv, KeyboardData PROVE InputInv'
<1>0. PICK x, code : x = Head(port) /\ code = EvdevCode(x.code, ps2.extended) OBVIOUS
<1>1. /\ handler.at = "loop" /\ port # <<>> /\ x.kind \in {"prefix", "key"} /\ PendingData
      /\ UNCHANGED <<probe, modifiers, lastChar, held, activeVt, strayed, doubled>>
  BY <1>0 DEF KeyboardData, ps2HistoryVars, vtVars
<1>2. /\ x \in Byte /\ port' \in Seq(Byte) /\ probe = "done"
      /\ ~ps2.mouse => \A i \in DOMAIN port' : port'[i].kind \in {"prefix", "key"}
      /\ ps2.extended \in BOOLEAN
  BY <1>0, <1>1, ByteRead DEF InputInv, Ps2TypeOK
<1>3. PICK c \in Form : /\ Parsed(x, PacketSize, <<Owes, LeftRead>>, c)
                       /\ Path(port', Forms(PacketSize), Form, c, <<"nothing", held.left>>)
  BY <1>0, <1>1, ByteRead
<1>4. ps2.packet = <<>> /\ LeftRead = ps2.left
  BY <1>1, <1>3, FormRead DEF Parsed, InputInv, PacketBegun, LeftRead
\* What the driver makes of it
<1>5. ps2' = [ps2 EXCEPT !.extended = (x.kind = "prefix")]
  BY <1>0 DEF KeyboardData, AfterCode
<1>6. /\ ps2' \in [extended : BOOLEAN, packet : Seq(MouseByte), left : BOOLEAN, wheel : BOOLEAN, mouse : BOOLEAN]
      /\ ps2'.packet = <<>> /\ ps2'.left = ps2.left /\ ps2'.mouse = ps2.mouse /\ ps2'.wheel = ps2.wheel
      /\ ps2'.extended <=> x.kind = "prefix"
  BY <1>4, <1>5 DEF InputInv, Ps2TypeOK
<1>7. Owes' = c[1] /\ LeftRead' = c[2] /\ PacketSize' = PacketSize /\ c = <<c[1], c[2]>>
  BY <1>3, FormRead, <1>4, <1>6, <1>1 DEF Parsed, Owes, LeftRead, PacketSize
<1>8. BytesFormed'
  BY <1>1, <1>3, <1>7 DEF BytesFormed
<1>9. PacketBegun' BY <1>6 DEF PacketBegun
\* What the terminal is to be told
<1>10. CASE x.kind = "prefix" \/ code = "none"
  <2>1. handler' = handler BY <1>10, <1>0 DEF KeyboardData
  <2>2. Ps2TypeOK' BY <2>1, <1>1, <1>2, <1>6 DEF InputInv, Ps2TypeOK
  <2>3. Unpublished' BY <1>1, <1>2, <1>6 DEF InputInv, Unpublished
  <2>4. ASSUME ~strayed', ~doubled' PROVE ModsTrue'
    <3>1. ~strayed /\ ~doubled BY <2>4, <1>1
    <3>2. PICK d \in ModSet : /\ Shifted(x, modifiers[activeVt], d)
                             /\ Path(port', Shifts, ModSet, d, HeldModifiers(held))
      BY <3>1, <1>0, <1>1, ByteRead
    <3>3. d = modifiers[activeVt]
      <4>1. CASE x.kind = "prefix" BY <4>1, <3>2 DEF Shifted
      <4>2. CASE x.kind = "key"
        <5>1. /\ x.code \in KeyCode /\ x.pressed \in BOOLEAN
              /\ ps2.extended => x.code \in {"ctrl", "up"}
          BY <4>2, <1>2, <1>3, ByteFact, FormRead DEF Parsed
        <5>2. code = "none" BY <4>2, <1>10
        <5>3. CodeModifier(x.code) = "none" BY <5>1, <5>2, <1>0, <1>2, CodeFact
        <5>4. d = Applied("none", x.pressed, modifiers[activeVt]) BY <5>3, <4>2, <3>2 DEF Shifted
        <5> QED BY <5>1, <5>4 DEF Applied
      <4> QED BY <4>1, <4>2, <1>1
    <3>4. ModsTrue BY <3>1 DEF InputInv
    <3>5. ModsRead' = d BY <3>3, <2>1, <1>1 DEF ModsRead
    <3>6. Path(port, Shifts, ModSet, ModsRead, HeldModifiers(held))' BY <3>2, <3>5, <1>1
    <3>7. UNCHANGED <<handler, modifiers, lastChar, activeVt>> BY <2>1, <1>1
    <3> QED BY <3>4, <3>6, <3>7 DEF ModsTrue
  <2> QED BY <2>2, <2>3, <2>4, <1>8, <1>9 DEF InputInv
<1>11. CASE x.kind = "key" /\ code # "none"
  <2>1. PICK e : e = [type |-> "key", code |-> code, pressed |-> x.pressed, mods |-> x.mods] OBVIOUS
  <2>2. handler' = [at |-> "listener", event |-> e] BY <2>1, <1>0, <1>11 DEF KeyboardData
  <2>3. /\ x.code \in KeyCode /\ x.pressed \in BOOLEAN /\ x.mods \in ModSet
        /\ ps2.extended => x.code \in {"ctrl", "up"}
    BY <1>2, <1>3, <1>11, ByteFact, FormRead DEF Parsed
  <2>4. code \in AllKeys /\ Modifier(code) = CodeModifier(x.code) BY <2>3, <1>0, <1>2, <1>11, CodeFact
  <2>5. e \in KeyEvent /\ e.code = code /\ e.pressed = x.pressed /\ e.mods = x.mods
    BY <2>1, <2>3, <2>4 DEF KeyEvent
  <2>6. handler' \in Handling /\ handler'.at = "listener" /\ handler'.event = e BY <2>2, <2>5, HandlingFact
  <2>7. Ps2TypeOK' BY <2>6, <1>1, <1>2, <1>6 DEF InputInv, Ps2TypeOK
  <2>8. Unpublished' BY <1>1, <1>2, <1>6 DEF InputInv, Unpublished
  <2>9. ASSUME ~strayed', ~doubled' PROVE ModsTrue'
    <3>1. ~strayed /\ ~doubled BY <2>9, <1>1
    <3>2. PICK d \in ModSet : /\ Shifted(x, modifiers[activeVt], d)
                             /\ Path(port', Shifts, ModSet, d, HeldModifiers(held))
      BY <3>1, <1>0, <1>1, ByteRead
    <3>3. d = e.mods /\ e.mods = Applied(Modifier(e.code), e.pressed, modifiers[activeVt])
      BY <3>2, <2>4, <2>5, <1>11 DEF Shifted
    <3>4. ModsTrue BY <3>1 DEF InputInv
    <3>5. ModsRead' = d BY <3>3, <2>6 DEF ModsRead
    <3>6. Path(port, Shifts, ModSet, ModsRead, HeldModifiers(held))' BY <3>2, <3>5, <1>1
    <3>7. UNCHANGED <<modifiers, lastChar, activeVt>> BY <1>1
    <3> QED BY <3>3, <3>4, <3>6, <3>7, <2>6 DEF ModsTrue
  <2> QED BY <2>7, <2>8, <2>9, <1>8, <1>9 DEF InputInv
<1> QED BY <1>1, <1>10, <1>11

LEMMA InterruptKeeps == ASSUME InputInv, Ps2Interrupt PROVE InputInv'
BY HandlerTurns, HandlingFact DEF Ps2Interrupt, ps2HistoryVars, vtVars

LEMMA HandlerDoneKeeps == ASSUME InputInv, HandlerDone PROVE InputInv'
BY HandlerTurns, HandlingFact DEF HandlerDone, ps2HistoryVars, vtVars

LEMMA ListenerPicksKeeps == ASSUME InputInv, activeVt \in Vt, ListenerPicks PROVE InputInv'
<1>1. /\ handler.at = "listener" /\ handler' = [at |-> "receive", event |-> handler.event, v |-> activeVt]
      /\ UNCHANGED <<probe, port, ps2, modifiers, lastChar, held, activeVt, strayed, doubled>>
  BY DEF ListenerPicks, ps2HistoryVars, vtVars
<1>2. /\ handler' \in Handling /\ handler'.at = "receive" /\ handler'.event = handler.event /\ handler'.v = activeVt
  BY <1>1, HandlingFact DEF InputInv, Ps2TypeOK
<1>3. UNCHANGED <<probe, port, ps2, modifiers, lastChar, held, activeVt, strayed, doubled>> BY <1>1
<1>4. Ps2TypeOK' BY <1>2, <1>3 DEF InputInv, Ps2TypeOK
<1>5. PacketBegun' BY <1>3 DEF InputInv, PacketBegun, PacketSize
<1>6. probe = "done" BY <1>1, HandlingFact DEF InputInv, Unpublished
<1>7. Unpublished' BY <1>3, <1>6 DEF InputInv, Unpublished
<1>8. BytesFormed' BY <1>3, BytesKept DEF InputInv
<1>9. ModsRead' = ModsRead BY <1>1, <1>2, <1>3 DEF ModsRead
<1>10. ModsTrue => ModsTrue'
  BY <1>1, <1>2, <1>3, <1>9 DEF ModsTrue
<1> QED BY <1>3, <1>4, <1>5, <1>7, <1>8, <1>10 DEF InputInv

\* An event is handled: the terminal that was picked follows the key.
LEMMA ReceiveInputKeeps == ASSUME InputInv, ReceiveInput PROVE InputInv'
<1>1. PICK e, v, m : e = handler.event /\ v = handler.v /\ m = Modifier(handler.event.code) OBVIOUS
<1>2. /\ handler.at = "receive" /\ handler' = [at |-> "loop"]
      /\ modifiers' = [modifiers EXCEPT ![v] = Applied(m, e.pressed, @)]
      /\ lastChar' = IF m = "none" /\ e.pressed
                     THEN [got   |-> TranslateKey(e.code, modifiers[v]),
                           meant |-> TranslateKey(e.code, e.mods)]
                     ELSE lastChar
      /\ UNCHANGED <<probe, port, ps2, held, activeVt, strayed, doubled>>
  BY <1>1 DEF ReceiveInput, Applied, ps2HistoryVars, vtVars
<1>3. /\ e \in KeyEvent /\ v \in Vt /\ e.pressed \in BOOLEAN /\ e.mods \in ModSet
      /\ modifiers \in [Vt -> ModSet] /\ modifiers[v] \in ModSet
  BY <1>1, <1>2, HandlingFact DEF InputInv, Ps2TypeOK, KeyEvent
<1>4. UNCHANGED <<probe, port, ps2, held, activeVt, strayed, doubled>> BY <1>2
<1>5. handler' \in Handling /\ handler'.at = "loop" BY <1>2, HandlingFact
<1>6. PICK a : a = Applied(m, e.pressed, modifiers[v]) OBVIOUS
<1>7. a \in ModSet /\ (m = "none" => a = modifiers[v]) BY <1>3, <1>6, AppliedType
<1>8. modifiers' \in [Vt -> ModSet] /\ modifiers'[v] = a /\ \A w \in Vt : w # v => modifiers'[w] = modifiers[w]
  BY <1>2, <1>6, <1>3, <1>7
<1>9. Ps2TypeOK' BY <1>4, <1>5, <1>8 DEF InputInv, Ps2TypeOK
<1>10. PacketBegun' BY <1>4 DEF InputInv, PacketBegun, PacketSize
<1>11. probe = "done" BY <1>2, HandlingFact DEF InputInv, Unpublished
<1>12. Unpublished' BY <1>4, <1>11 DEF InputInv, Unpublished
<1>13. BytesFormed' BY <1>4, BytesKept DEF InputInv
<1>14. ModsTrue => ModsTrue'
  BY <1>2, <1>1, <1>6, <1>4, <1>5, <1>8, <1>7 DEF ModsTrue, ModsRead
<1> QED BY <1>4, <1>9, <1>10, <1>12, <1>13, <1>14 DEF InputInv

\* Terminals are switched: the one that is left keeps what it remembers.
LEMMA SwitchKeeps == ASSUME InputInv, NEW t \in VtThread, SwitchStep(t), activeVt \in Vt, activeVt' \in Vt PROVE InputInv'
<1>1. /\ UNCHANGED <<probe, port, ps2, handler, modifiers, lastChar, held, doubled>>
      /\ strayed' = (strayed \/ (activeVt' # activeVt /\ (HeldModifiers(held) # {} \/ ~InputSettled)))
  BY DEF SwitchStep
<1>2. strayed' \in BOOLEAN /\ (strayed => strayed') BY <1>1
<1>3. UNCHANGED <<probe, port, ps2, handler, modifiers, lastChar, held, doubled>> BY <1>1
<1>4. Ps2TypeOK' BY <1>2, <1>3 DEF InputInv, Ps2TypeOK
<1>5. PacketBegun' BY <1>3 DEF InputInv, PacketBegun, PacketSize
<1>6. Unpublished' BY <1>3 DEF InputInv, Unpublished
<1>7. BytesFormed' BY <1>3, BytesKept DEF InputInv
<1>8. ASSUME ~strayed', ~doubled' PROVE ModsTrue'
  <2>1. ModsTrue BY <1>2, <1>3, <1>8 DEF InputInv
  <2>2. CASE activeVt' = activeVt BY <2>1, <2>2, <1>3, ModsKept
  <2>3. CASE activeVt' # activeVt
    <3>1. HeldModifiers(held) = {} /\ handler = HandlerIdle /\ port = <<>> BY <2>3, <1>1, <1>8 DEF InputSettled
    <3>2. handler.at = "idle" BY <3>1, HandlingFact
    <3>3. modifiers[activeVt] = {}
      BY <2>1, <3>1, <3>2, PathEmpty DEF ModsTrue, ModsRead
    <3>4. \A v \in Vt : modifiers[v] = {} BY <2>1, <3>3 DEF ModsTrue
    <3>5. ModsRead' = {} /\ HeldModifiers(held)' = {} BY <3>1, <3>2, <3>4, <1>3 DEF ModsRead, HeldModifiers
    <3>6. Path(<<>>, Shifts, ModSet, {}, {}) BY PathEmpty DEF ModSet
    <3>7. Path(port, Shifts, ModSet, ModsRead, HeldModifiers(held))' BY <3>1, <3>5, <3>6, <1>3
    <3> QED BY <2>1, <3>2, <3>4, <3>7, <1>3 DEF ModsTrue
  <2> QED BY <2>2, <2>3
<1> QED BY <1>4, <1>5, <1>6, <1>7, <1>8 DEF InputInv

LEMMA MouseDataKeeps == ASSUME InputInv, MouseData PROVE InputInv'
<1>0. PICK x, packet : x = Head(port) /\ packet = Append(ps2.packet, x) OBVIOUS
<1>1. /\ handler.at = "loop" /\ port # <<>> /\ x.kind \in {"header", "motion"} /\ PendingData
      /\ UNCHANGED <<probe, handler, modifiers, lastChar, held, activeVt, strayed, doubled>>
  BY <1>0 DEF MouseData, ps2HistoryVars, vtVars
<1>2. /\ x \in Byte /\ port' \in Seq(Byte) /\ probe = "done" /\ ps2.mouse
  BY <1>0, <1>1, ByteRead
<1>3. PICK c \in Form : /\ Parsed(x, PacketSize, <<Owes, LeftRead>>, c)
                       /\ Path(port', Forms(PacketSize), Form, c, <<"nothing", held.left>>)
  BY <1>0, <1>1, ByteRead
<1>4. /\ ps2 \in [extended : BOOLEAN, packet : Seq(MouseByte), left : BOOLEAN, wheel : BOOLEAN, mouse : BOOLEAN]
      /\ ps2.packet \in Seq(MouseByte) /\ x \in MouseByte /\ packet \in Seq(MouseByte)
      /\ Len(packet) = Len(ps2.packet) + 1 /\ Len(ps2.packet) \in Nat /\ PacketSize \in {2, 3}
  BY <1>0, <1>1, <1>2, ByteFact DEF InputInv, Ps2TypeOK, PacketSize
<1>5. ~ps2.extended
  BY <1>1, <1>3, FormRead DEF Parsed
\* The packet so far, and what the rest begins with
<1>6. /\ \/ /\ Len(packet) # PacketSize /\ packet[1].kind = "header" /\ Len(packet) < PacketSize
            /\ packet[1].left = c[2] /\ c[1] = (IF Len(packet) = PacketSize - 1 THEN "one" ELSE "two")
         \/ /\ Len(packet) = PacketSize /\ packet[1].kind = "header" /\ packet[1].left = c[2] /\ c[1] = "nothing"
            /\ packet[1] \in MouseByte
      /\ c = <<c[1], c[2]>>
  <2>1. CASE x.kind = "header"
    BY <2>1, <1>3, FormRead, <1>0, FormFact, <1>4 DEF Parsed
  <2>2. CASE x.kind = "motion"
    <3>1. \/ Owes = "two" /\ c = <<"one", LeftRead>>
          \/ Owes = "one" /\ c = <<"nothing", LeftRead>>
      BY <2>2, <1>3, FormRead DEF Parsed
    <3>2. ps2.packet # <<>> BY <3>1, FormRead
    <3>3. ps2.packet[1].kind = "header" /\ Len(ps2.packet) < PacketSize /\ LeftRead = ps2.packet[1].left
      BY <3>2 DEF InputInv, PacketBegun, LeftRead
    <3>4. packet[1] = ps2.packet[1] /\ Len(ps2.packet) >= 1 BY <3>2, <1>0, <1>4
    <3>5. c = <<c[1], c[2]>> /\ packet[1] \in MouseByte BY <1>4, FormFact
    <3>6. CASE Owes = "two"
      BY <3>1, <3>6, FormRead, <3>3, <3>4, <1>4, <3>5
    <3>7. CASE Owes = "one"
      BY <3>1, <3>7, FormRead, <1>4, <3>3, <3>4, <3>5
    <3> QED BY <3>1, <3>6, <3>7
  <2> QED BY <2>1, <2>2, <1>1
<1>7. /\ ps2' \in [extended : BOOLEAN, packet : Seq(MouseByte), left : BOOLEAN, wheel : BOOLEAN, mouse : BOOLEAN]
      /\ ~ps2'.extended /\ ps2'.mouse /\ PacketSize' = PacketSize /\ Owes' = c[1] /\ LeftRead' = c[2]
      /\ PacketBegun'
  <2>1. CASE Len(packet) # PacketSize
    <3>1. ps2' = [ps2 EXCEPT !.packet = packet] BY <2>1, <1>0 DEF MouseData
    <3>2. /\ ps2' \in [extended : BOOLEAN, packet : Seq(MouseByte), left : BOOLEAN, wheel : BOOLEAN, mouse : BOOLEAN]
          /\ ps2'.extended = ps2.extended /\ ps2'.mouse = ps2.mouse /\ ps2'.wheel = ps2.wheel /\ ps2'.packet = packet
      BY <3>1, <1>4
    <3>3. packet # <<>> BY <1>4
    <3>4. PacketSize' = PacketSize BY <3>2 DEF PacketSize
    <3>5. Owes' = c[1] /\ LeftRead' = c[2] BY <2>1, <3>2, <3>3, <3>4, <1>5, <1>6 DEF Owes, LeftRead
    <3>6. PacketBegun' BY <2>1, <3>2, <3>4, <1>5, <1>6 DEF PacketBegun
    <3> QED BY <3>2, <3>4, <3>5, <3>6, <1>2, <1>5
  <2>2. CASE Len(packet) = PacketSize
    <3>1. packet[1].kind = "header" /\ packet[1].left \in BOOLEAN /\ packet[1].left = c[2] /\ c[1] = "nothing"
      BY <2>2, <1>6, ByteFact
    <3>2. ps2' = [ps2 EXCEPT !.packet = <<>>, !.left = packet[1].left] BY <2>2, <3>1, <1>0 DEF MouseData
    <3>3. /\ ps2' \in [extended : BOOLEAN, packet : Seq(MouseByte), left : BOOLEAN, wheel : BOOLEAN, mouse : BOOLEAN]
          /\ ps2'.extended = ps2.extended /\ ps2'.mouse = ps2.mouse /\ ps2'.wheel = ps2.wheel
          /\ ps2'.packet = <<>> /\ ps2'.left = packet[1].left
      <4>1. PICK l \in BOOLEAN : l = packet[1].left BY <3>1
      <4>2. ps2' = [ps2 EXCEPT !.packet = <<>>, !.left = l] BY <4>1, <3>2
      <4>3. <<>> \in Seq(MouseByte) OBVIOUS
      <4> QED BY <4>1, <4>2, <4>3, <1>4
    <3>4. PacketSize' = PacketSize BY <3>3 DEF PacketSize
    <3>5. Owes' = c[1] /\ LeftRead' = c[2] BY <3>1, <3>3, <1>5 DEF Owes, LeftRead
    <3>6. PacketBegun' BY <3>3 DEF PacketBegun
    <3> QED BY <3>3, <3>4, <3>5, <3>6, <1>2, <1>5
  <2> QED BY <2>1, <2>2
<1>8. Ps2TypeOK' BY <1>1, <1>2, <1>7 DEF InputInv, Ps2TypeOK
<1>9. Unpublished' BY <1>1, <1>2, <1>7 DEF Unpublished
<1>10. BytesFormed'
  BY <1>1, <1>6, <1>3, <1>7 DEF BytesFormed
<1>11. ASSUME ~strayed', ~doubled' PROVE ModsTrue'
  BY <1>11, <1>1, <1>0, ByteRead DEF Shifted, InputInv, ModsRead, ModsTrue
<1> QED BY <1>7, <1>8, <1>9, <1>10, <1>11 DEF InputInv

-----------------------------------------------------------------------------

LEMMA InputStart == Ps2Init /\ activeVt \in Vt => InputInv
<1> SUFFICES ASSUME Ps2Init, activeVt \in Vt PROVE InputInv OBVIOUS
<1>1. /\ port = <<>> /\ handler = HandlerIdle /\ handler.at = "idle" /\ modifiers = [v \in Vt |-> {}]
      /\ ~ps2.extended /\ ps2.packet = <<>> /\ ps2.left = held.left /\ held.left \in BOOLEAN
      /\ held.keys = {} /\ held.caps = FALSE /\ held \in HeldType
      /\ ps2 \in [extended : BOOLEAN, packet : Seq(MouseByte), left : BOOLEAN, wheel : BOOLEAN, mouse : BOOLEAN]
  BY DEF Ps2Init, HandlerIdle, HeldType
<1>2. Ps2TypeOK
  <2>1. modifiers \in [Vt -> ModSet] BY <1>1 DEF ModSet
  <2>2. port \in Seq(Byte) /\ handler \in Handling BY <1>1, HandlingFact
  <2>3. strayed \in BOOLEAN /\ doubled \in BOOLEAN BY DEF Ps2Init
  <2> QED BY <2>1, <2>2, <2>3, <1>1 DEF Ps2TypeOK
<1>3. PacketBegun BY <1>1 DEF PacketBegun
<1>4. Unpublished BY <1>1 DEF Unpublished, Ps2Init
<1>5. BytesFormed
  BY <1>1, FormFact, PathEmpty DEF Owes, LeftRead, BytesFormed
<1>6. ModsTrue
  <2>1. HeldModifiers(held) = {} BY <1>1 DEF HeldModifiers
  <2>2. ModsRead = {} BY <1>1 DEF ModsRead
  <2>3. Path(port, Shifts, ModSet, ModsRead, HeldModifiers(held)) BY <2>1, <2>2, <1>1, PathEmpty DEF ModSet
  <2> QED BY <2>3, <1>1 DEF ModsTrue, Ps2Init
<1> QED BY <1>2, <1>3, <1>4, <1>5, <1>6 DEF InputInv

LEMMA InputStep ==
    ASSUME InputInv, [Ps2Next]_<<vtVars, ps2Vars>>, activeVt \in Vt, activeVt' \in Vt PROVE InputInv'
<1>1. CASE UNCHANGED <<vtVars, ps2Vars>> BY <1>1, InputKept DEF vtVars, ps2Vars
<1>2. ASSUME NEW device \in {"keyboard", "mouse"}, NEW n \in {1, QueueCapacity}, EvdevRead(device, n) PROVE InputInv'
  BY <1>2, InputKept DEF EvdevRead, ps2HistoryVars, vtVars
<1>3. CASE \E key \in Keys : KeyMoves(key) BY <1>3, KeyMovesKeeps
<1>4. CASE \E left, moved \in BOOLEAN : MouseMoves(left, moved) BY <1>4, MouseMovesKeeps
<1>5. CASE \E ok \in BOOLEAN : InitController(ok) \/ InitKeyboard(ok) \/ MouseFlush(ok)
  BY <1>5, ProbeKeeps, MouseFlushKeeps
<1>6. CASE \E ok, wheel \in BOOLEAN : InitMouse(ok, wheel) BY <1>6, InitMouseKeeps
<1>7. CASE Published \/ Ps2Interrupt BY <1>7, ProbeKeeps, InterruptKeeps
<1>8. CASE KeyboardData \/ MouseData \/ HandlerDone \/ ListenerPicks \/ ReceiveInput
  BY <1>8, KeyboardDataKeeps, MouseDataKeeps, HandlerDoneKeeps, ListenerPicksKeeps, ReceiveInputKeeps
<1>9. CASE \E t \in VtThread : SwitchStep(t) BY <1>9, SwitchKeeps
<1> QED BY <1>1, <1>2, <1>3, <1>4, <1>5, <1>6, <1>7, <1>8, <1>9 DEF Ps2Next

LEMMA InputHolds == InputInv => InputTrue
<1> SUFFICES ASSUME InputInv PROVE InputTrue OBVIOUS
<1>1. strayed \/ doubled \/ lastChar.got = lastChar.meant BY DEF InputInv, ModsTrue
<1>2. ASSUME InputSettled, probe = "done"
      PROVE  ~ps2.extended /\ ps2.packet = <<>> /\ ps2.left = held.left
  BY <1>2, PathEmpty, FormRead DEF InputSettled, InputInv, BytesFormed, LeftRead
<1>3. ASSUME InputSettled, ~strayed, ~doubled, NEW v \in Vt PROVE modifiers[v] \subseteq HeldModifiers(held)
  BY <1>3, HandlingFact, PathEmpty DEF InputInv, InputSettled, ModsTrue, ModsRead
<1> QED BY <1>1, <1>2, <1>3 DEF InputTrue

\* Whatever step is taken, the terminals do what VtScreen lets them do.
LEMMA VtOnly == [Ps2Next]_<<vtVars, ps2Vars>> => [VtNext]_vtVars
<1>1. ASSUME NEW t \in VtThread, SwitchStep(t) PROVE VtNext BY <1>1 DEF SwitchStep, VtNext
<1>2. CASE UNCHANGED <<vtVars, ps2Vars>> BY <1>2
<1>3. ASSUME Ps2Next, ~\E t \in VtThread : SwitchStep(t) PROVE UNCHANGED vtVars
  BY <1>3 DEF Ps2Next, KeyMoves, MouseMoves, InitController, InitKeyboard, MouseFlush, InitMouse, Published,
       Ps2Interrupt, KeyboardData, MouseData, HandlerDone, ListenerPicks, ReceiveInput, EvdevRead
<1> QED BY <1>1, <1>2, <1>3

\* What is typed is what was meant, and what is remembered is what is held, for
\* every number of terminals and switching threads, any keys and any number of
\* bytes: what the probe, the interrupt handler and receive_input_event (i8042,
\* aether-terminal) do between them keeps InputTrue.
THEOREM Typed == Ps2Spec => []InputTrue
<1>1. VtInit /\ Ps2Init => ScreenInv /\ InputInv
  BY ScreenInit, InputStart DEF ScreenInv, VtTypeOK
<1>2. ScreenInv /\ InputInv /\ [Ps2Next]_<<vtVars, ps2Vars>> => (ScreenInv /\ InputInv)'
  BY VtOnly, ScreenStep, InputStep DEF ScreenInv, VtTypeOK
<1> QED BY <1>1, <1>2, InputHolds, PTL DEF Ps2Spec

-----------------------------------------------------------------------------
(* Device announcements                                                    *)

Group == {KernelGroup, UserGroup}
Message == [id : Nat, groups : SUBSET Group, port : Nat]
Open == BOOLEAN
NlSocket == [open : Open, port : Nat, groups : SUBSET Group, peer : Nat, queue : Seq(Message)]
\* What a call that announces a device goes on with
Follows(x) == x = UeIdle \/ (x.at = "entries" /\ x.device \in UeDevice)
\* The message a call sends, or replays, is one that was sent.
WasSent(m) == m.id \in DOMAIN ueSent /\ m = ueSent[m.id]
UeCallOK(x) ==
    /\ x.at \in {"idle", "push", "collect", "send", "sysfs", "entries", "bind", "replay", "deliver"}
    /\ x.at \in {"push", "collect", "send"} => Follows(x.then)
    /\ x.at = "sysfs" => x.device \in UeDevice
    /\ x.at = "push" => x.groups \in SUBSET Group /\ x.port \in Nat
    /\ x.at \in {"collect", "send"} => WasSent(x.m)
    /\ x.at = "send" => x.todo \in SUBSET UeSocket /\ x.to \in UeSocket \cup {NoUeSocket}
    /\ x.at \in {"bind", "replay", "deliver"} => x.nlSock \in UeSocket /\ x.groups \in SUBSET Group
    /\ x.at = "bind" => x.port \in Nat
    /\ x.at = "deliver" => x.todo \in Seq(Message) /\ \A j \in DOMAIN x.todo : WasSent(x.todo[j])
UeTypeOK ==
    /\ nlSock \in [UeSocket -> NlSocket]
    /\ history \in Seq(Message) /\ ueSent \in Seq(Message)
    /\ heard \in [UeSocket -> SUBSET Nat]
    /\ DOMAIN ueCall = UeThread /\ ueCall = [t \in UeThread |-> ueCall[t]]
    /\ \A t \in UeThread : UeCallOK(ueCall[t])
\* Messages are numbered as they are sent, and the history has the last ones.
HistoryExact ==
    /\ \A i \in DOMAIN ueSent : ueSent[i].id = i
    /\ Len(history) = IF Len(ueSent) < MaxHistory THEN Len(ueSent) ELSE MaxHistory
    /\ \A j \in DOMAIN history : history[j] = ueSent[Len(ueSent) - Len(history) + j]
\* The call is about to bring the message to the socket.
Comes(x, s, i) ==
    \/ x.at = "collect" /\ x.m.id = i
    \/ x.at = "send" /\ x.m.id = i /\ (s \in x.todo \/ s = x.to)
    \/ x.at = "replay" /\ x.nlSock = s /\ ueSent[i].groups \cap x.groups # {}
    \/ /\ x.at = "deliver" /\ x.nlSock = s /\ ueSent[i].groups \cap x.groups # {}
       /\ \E j \in DOMAIN x.todo : x.todo[j].id = i
Recent(i) == i \in DOMAIN ueSent /\ i > Len(ueSent) - MaxHistory
HeardOrComing ==
    \A s \in UeSocket : \A i \in DOMAIN ueSent :
        nlSock[s].open /\ Recent(i) /\ ueSent[i].groups \cap nlSock[s].groups # {} =>
            i \in heard[s] \/ \E t \in UeThread : Comes(ueCall[t], s, i)
UeInv == UeTypeOK /\ HistoryExact /\ HeardOrComing

-----------------------------------------------------------------------------
(* Ports *)

\* A port is found: fewer than there are sockets are in use.
LEMMA PortFound ==
    ASSUME UeTypeOK, NEW s \in UeSocket
    PROVE  Allocated(s) \in Nat
<1> DEFINE n == Cardinality(UeSocket)
           Free == {number \in 1..(n + 1) : ~InUse(s, number)}
<1>1. IsFiniteSet(UeSocket) /\ n \in Nat BY UeventsAssumption, FS_CardinalityType
<1>2. Free # {}
  <2> SUFFICES ASSUME Free = {} PROVE FALSE OBVIOUS
  <2>1. \A number \in 1..(n + 1) : \E r \in UeSocket : nlSock[r].port = number
    BY DEF InUse, LiveSockets
  <2> DEFINE f == [number \in 1..(n + 1) |-> CHOOSE r \in UeSocket : nlSock[r].port = number]
  <2>2. \A number \in 1..(n + 1) : f[number] \in UeSocket /\ nlSock[f[number]].port = number
    <3> TAKE number \in 1..(n + 1)
    <3>1. \E r \in UeSocket : nlSock[r].port = number BY <2>1
    <3>2. f[number] = CHOOSE r \in UeSocket : nlSock[r].port = number OBVIOUS
    <3> HIDE DEF f
    <3> QED BY <3>1, <3>2
  <2>3. f \in Injection(1..(n + 1), UeSocket)
    <3>1. f \in [1..(n + 1) -> UeSocket] BY <2>2
    <3> HIDE DEF f
    <3> QED BY <3>1, <2>2 DEF Injection, IsInjective
  <2>4. Cardinality(1..(n + 1)) <= n
    <3> HIDE DEF f
    <3> QED BY <2>3, <1>1, FS_Injection, Zenon
  <2>5. Cardinality(1..(n + 1)) = n + 1 BY <1>1, FS_Interval
  <2> QED BY <1>1, <2>4, <2>5
<1>3. PICK number \in Free : \A low \in Free : ~(low < number)
  <2>1. IsWellFoundedOn(OpToRel(<, Nat), Nat) BY NatLessThanWellFounded, Zenon
  <2>2. Free \subseteq Nat BY <1>1
  <2> HIDE DEF Free
  <2>3. PICK x \in Free : \A y \in Free : ~ (<<y, x>> \in OpToRel(<, Nat)) BY <1>2, <2>1, <2>2, WFMin, Zenon
  <2> QED BY <2>2, <2>3 DEF OpToRel
<1>4. /\ number \in 1..(n + 1) /\ ~InUse(s, number)
      /\ \A low \in 1..(number - 1) : InUse(s, low)
  BY <1>1, <1>3
<1>5. Allocated(s) \in 1..(n + 1)
  <2> DEFINE P(p) == ~InUse(s, p) /\ \A low \in 1..(p - 1) : InUse(s, low)
  <2>1. number \in 1..(n + 1) /\ P(number) BY <1>4
  <2>2. Allocated(s) = CHOOSE p \in 1..(n + 1) : P(p) BY DEF Allocated
  <2> HIDE DEF P
  <2> QED BY <2>1, <2>2, Zenon
<1> QED BY <1>1, <1>5

LEMMA PortEnsured ==
    ASSUME UeTypeOK, NEW s \in UeSocket
    PROVE  EnsuredPort(s) \in Nat
BY PortFound DEF EnsuredPort, UeTypeOK, NlSocket

-----------------------------------------------------------------------------
(* Steps *)

\* A step of one thread that sends no new message.  A socket that is open after
\* it is one to which the message was owed already, or is owed by the thread
\* now; what the thread owed, it has brought or owes still.
LEMMA CallStep ==
    ASSUME UeInv, NEW t \in UeThread, NEW x, UeGo(t, x), UeCallOK(x),
           ueSent' = ueSent, history' = history,
           nlSock' \in [UeSocket -> NlSocket], heard' \in [UeSocket -> SUBSET Nat],
           \A s \in UeSocket : \A i \in DOMAIN ueSent :
               nlSock'[s].open /\ Recent(i) /\ ueSent[i].groups \cap nlSock'[s].groups # {} =>
                   \/ /\ nlSock[s].open /\ ueSent[i].groups \cap nlSock[s].groups # {}
                      /\ heard[s] \subseteq heard'[s]
                   \/ Comes(x, s, i),
           \A s \in UeSocket : \A i \in DOMAIN ueSent :
               nlSock'[s].open /\ Recent(i) /\ ueSent[i].groups \cap nlSock'[s].groups # {} /\ Comes(ueCall[t], s, i) =>
                   Comes(x, s, i) \/ i \in heard'[s]
    PROVE  UeInv'
<1>1. /\ DOMAIN ueCall' = UeThread /\ ueCall' = [u \in UeThread |-> ueCall'[u]]
      /\ ueCall'[t] = x /\ \A u \in UeThread : u # t => ueCall'[u] = ueCall[u]
  BY DEF UeInv, UeTypeOK, UeGo
<1>2. UeTypeOK'
  BY <1>1 DEF UeInv, UeTypeOK, UeCallOK, WasSent
<1>3. HistoryExact' BY DEF UeInv, HistoryExact
<1>4. HeardOrComing'
  <2> SUFFICES ASSUME NEW s \in UeSocket, NEW i \in DOMAIN ueSent, nlSock'[s].open, Recent(i),
                      ueSent[i].groups \cap nlSock'[s].groups # {}
               PROVE  i \in heard'[s] \/ \E u \in UeThread : Comes(ueCall'[u], s, i)
    BY DEF HeardOrComing, Comes, Recent
  <2>1. CASE Comes(x, s, i) BY <2>1, <1>1
  <2>2. CASE ~Comes(x, s, i)
    BY <2>2, <1>1 DEF UeInv, HeardOrComing
  <2> QED BY <2>1, <2>2
<1> QED BY <1>2, <1>3, <1>4 DEF UeInv

\* A socket may be changed but for its groups, and messages heard.
LEMMA SameCall ==
    ASSUME UeInv, NEW t \in UeThread, ueCall' = ueCall, ueSent' = ueSent, history' = history,
           nlSock' \in [UeSocket -> NlSocket], heard' \in [UeSocket -> SUBSET Nat],
           \A s \in UeSocket : nlSock'[s].open =>
               \/ nlSock'[s].groups = {}
               \/ /\ nlSock[s].open /\ nlSock'[s].groups \subseteq nlSock[s].groups
                  /\ heard[s] \subseteq heard'[s]
    PROVE  UeInv'
<1> DEFINE x == ueCall[t]
<1>1. UeGo(t, x) /\ UeCallOK(x) BY DEF UeInv, UeTypeOK, UeGo
<1> HIDE DEF x
<1>2. \A s \in UeSocket : \A i \in DOMAIN ueSent :
          nlSock'[s].open /\ Recent(i) /\ ueSent[i].groups \cap nlSock'[s].groups # {} =>
              /\ nlSock[s].open /\ ueSent[i].groups \cap nlSock[s].groups # {}
              /\ heard[s] \subseteq heard'[s]
  OBVIOUS
<1>3. \A s \in UeSocket : \A i \in DOMAIN ueSent : Comes(ueCall[t], s, i) => Comes(x, s, i)
  BY DEF x
<1> QED BY <1>1, <1>2, <1>3, CallStep

\* A step that leaves the sockets alone and whose thread owes nothing.
LEMMA FreeStep ==
    ASSUME UeInv, NEW t \in UeThread, NEW x, UeGo(t, x), UeCallOK(x),
           UNCHANGED <<ueSent, history, nlSock, heard>>,
           \A s \in UeSocket : \A i \in DOMAIN ueSent : ~Comes(ueCall[t], s, i)
    PROVE  UeInv'
  BY CallStep DEF UeInv, UeTypeOK

LEMMA IdleOwesNothing == \A s, i : ~Comes(UeIdle, s, i)
BY DEF Comes, UeIdle

LEMMA RegisterNodesKeeps ==
    ASSUME UeInv, NEW t \in UeThread, NEW d \in UeDevice, RegisterNodes(t, d)
    PROVE  UeInv'
<1> DEFINE x == [at |-> "sysfs", device |-> d]
<1>1. UeGo(t, x) /\ UeCallOK(x) BY DEF RegisterNodes, UeCallOK
<1>2. ueCall[t] = UeIdle /\ UNCHANGED <<ueSent, history, nlSock, heard>> BY DEF RegisterNodes, UeStarts
<1> HIDE DEF x
<1> QED BY <1>1, <1>2, IdleOwesNothing, FreeStep

LEMMA RegisterSysfsKeeps ==
    ASSUME UeInv, NEW t \in UeThread, RegisterSysfs(t)
    PROVE  UeInv'
<1> DEFINE d == ueCall[t].device
<1>0. ueCall[t].at = "sysfs" /\ d \in UeDevice
  BY DEF RegisterSysfs, UeInv, UeTypeOK, UeCallOK
<1> DEFINE then == [at |-> "entries", device |-> d]
           x == Publishing(then)
<1>1. Follows(then) BY <1>0 DEF Follows
<1>2. UeGo(t, x) BY <1>0 DEF RegisterSysfs
<1> HIDE DEF then
<1>3. UeCallOK(x) BY <1>1 DEF Publishing, UeCallOK, Group
<1>4. UNCHANGED <<ueSent, history, nlSock, heard>> BY DEF RegisterSysfs
<1>5. \A s, i : ~Comes(ueCall[t], s, i) BY <1>0 DEF Comes
<1> HIDE DEF x
<1> QED BY <1>2, <1>3, <1>4, <1>5, FreeStep

LEMMA RegisterEntriesKeeps ==
    ASSUME UeInv, NEW t \in UeThread, RegisterEntries(t)
    PROVE  UeInv'
  BY FreeStep DEF RegisterEntries, UeCallOK, UeIdle, Comes

LEMMA WriteUeventKeeps ==
    ASSUME UeInv, NEW t \in UeThread, NEW d \in UeDevice, WriteUevent(t, d)
    PROVE  UeInv'
<1> DEFINE x == Publishing(UeIdle)
<1>1. UeGo(t, x) /\ UNCHANGED <<ueSent, history, nlSock, heard>> /\ ueCall[t] = UeIdle
  BY DEF WriteUevent, UeStarts
<1>2. UeCallOK(x) BY DEF Publishing, UeCallOK, Group, Follows
<1> HIDE DEF x
<1> QED BY <1>1, <1>2, IdleOwesNothing, FreeStep

LEMMA BindCheckKeeps ==
    ASSUME UeInv, NEW t \in UeThread, NEW s \in UeSocket, NEW number \in UePorts \cup {0},
           NEW groups \in {{}, {KernelGroup}}, BindCheck(t, s, number, groups)
    PROVE  UeInv'
<1> DEFINE found == IF number = 0 THEN Allocated(s) ELSE number
           x == [at |-> "bind", nlSock |-> s, port |-> found, groups |-> groups]
<1>0. found \in Nat BY PortFound, UeventsAssumption DEF UeInv
<1>1. UeGo(t, x) /\ UNCHANGED <<ueSent, history, nlSock, heard>> /\ ueCall[t] = UeIdle
  BY DEF BindCheck, On, UeStarts
<1> HIDE DEF found
<1>2. UeCallOK(x) BY <1>0 DEF UeCallOK, Group
<1> HIDE DEF x
<1> QED BY <1>1, <1>2, IdleOwesNothing, FreeStep

LEMMA CollectKeeps ==
    ASSUME UeInv, NEW t \in UeThread, Collect(t)
    PROVE  UeInv'
<1> DEFINE x == Sending(ueCall[t], LiveSockets, NoUeSocket)
<1>0. ueCall[t].at = "collect" /\ WasSent(ueCall[t].m) /\ Follows(ueCall[t].then)
  BY DEF Collect, UeInv, UeTypeOK, UeCallOK
<1>1. /\ x.at = "send" /\ x.m = ueCall[t].m /\ x.then = ueCall[t].then
      /\ x.todo = LiveSockets /\ x.to = NoUeSocket
  BY DEF Sending
<1>2. UeGo(t, x) /\ UNCHANGED <<ueSent, history, nlSock, heard>> BY DEF Collect
<1> HIDE DEF x
<1>3. UeCallOK(x) BY <1>0, <1>1 DEF UeCallOK, LiveSockets
<1>4. \A s \in UeSocket : \A i \in DOMAIN ueSent :
          nlSock[s].open /\ Comes(ueCall[t], s, i) => Comes(x, s, i)
  BY <1>0, <1>1 DEF Comes, LiveSockets
<1>5. nlSock' \in [UeSocket -> NlSocket] /\ heard' \in [UeSocket -> SUBSET Nat] BY <1>2 DEF UeInv, UeTypeOK
<1> QED BY <1>2, <1>3, <1>4, <1>5, CallStep

LEMMA SendLookKeeps ==
    ASSUME UeInv, NEW t \in UeThread, NEW r \in UeSocket, SendLook(t, r)
    PROVE  UeInv'
<1> DEFINE wanted == nlSock[r].groups \cap ueCall[t].m.groups # {}
           to == IF wanted THEN r ELSE NoUeSocket
           x == Sending(ueCall[t], ueCall[t].todo \ {r}, to)
<1>0. /\ ueCall[t].at = "send" /\ WasSent(ueCall[t].m) /\ Follows(ueCall[t].then)
      /\ ueCall[t].todo \in SUBSET UeSocket /\ ueCall[t].to = NoUeSocket
  BY DEF SendLook, UeInv, UeTypeOK, UeCallOK
<1>1. /\ x.at = "send" /\ x.m = ueCall[t].m /\ x.then = ueCall[t].then
      /\ x.todo = ueCall[t].todo \ {r} /\ x.to = to
  BY DEF Sending
<1>2. UeGo(t, x) /\ UNCHANGED <<ueSent, history, nlSock, heard>> BY DEF SendLook
<1> HIDE DEF x
<1>3. UeCallOK(x) BY <1>0, <1>1 DEF UeCallOK
<1>4. ASSUME NEW s \in UeSocket, NEW i \in DOMAIN ueSent, ueSent[i].groups \cap nlSock[s].groups # {},
             Comes(ueCall[t], s, i)
      PROVE  Comes(x, s, i)
  BY <1>0, <1>4, UeventsAssumption, <1>1 DEF Comes, WasSent
<1>5. nlSock' \in [UeSocket -> NlSocket] /\ heard' \in [UeSocket -> SUBSET Nat] BY <1>2 DEF UeInv, UeTypeOK
<1> QED BY <1>2, <1>3, <1>4, <1>5, CallStep

\* A message that is queued, or refused
LEMMA EnqueuedFact ==
    ASSUME UeTypeOK, NEW s \in UeSocket, NEW m \in Message, Enqueued(s, m)
    PROVE  /\ nlSock' \in [UeSocket -> NlSocket] /\ heard' \in [UeSocket -> SUBSET Nat]
           /\ \A r \in UeSocket : /\ nlSock'[r].open = nlSock[r].open /\ nlSock'[r].groups = nlSock[r].groups
                                  /\ heard[r] \subseteq heard'[r]
           /\ m.id \in heard'[s]
<1> DEFINE q == IF Len(nlSock[s].queue) < RcvSlots THEN Append(nlSock[s].queue, m) ELSE nlSock[s].queue
<1>1. nlSock[s] \in NlSocket /\ nlSock[s].queue \in Seq(Message) BY DEF UeTypeOK, NlSocket
<1>2. q \in Seq(Message) BY <1>1
<1>3. nlSock' = [nlSock EXCEPT ![s].queue = q] BY DEF Enqueued
<1> HIDE DEF q
<1>4. nlSock' \in [UeSocket -> NlSocket] BY <1>2, <1>3 DEF UeTypeOK, NlSocket
<1>5. \A r \in UeSocket : nlSock'[r].open = nlSock[r].open /\ nlSock'[r].groups = nlSock[r].groups
  BY <1>1, <1>3 DEF UeTypeOK, NlSocket
<1>6. /\ heard' \in [UeSocket -> SUBSET Nat] /\ m.id \in heard'[s]
      /\ \A r \in UeSocket : heard[r] \subseteq heard'[r]
  BY DEF Enqueued, UeTypeOK, Message
<1> QED BY <1>4, <1>5, <1>6

LEMMA SendEnqueueKeeps ==
    ASSUME UeInv, NEW t \in UeThread, SendEnqueue(t)
    PROVE  UeInv'
<1> DEFINE x == Sending(ueCall[t], ueCall[t].todo, NoUeSocket)
           to == ueCall[t].to
           m == ueCall[t].m
<1>0. /\ ueCall[t].at = "send" /\ WasSent(m) /\ Follows(ueCall[t].then)
      /\ ueCall[t].todo \in SUBSET UeSocket /\ to \in UeSocket /\ m \in Message
  BY DEF SendEnqueue, UeInv, UeTypeOK, UeCallOK, WasSent
<1>1. /\ x.at = "send" /\ x.m = m /\ x.then = ueCall[t].then
      /\ x.todo = ueCall[t].todo /\ x.to = NoUeSocket
  BY DEF Sending
<1>2. /\ UeGo(t, x) /\ UNCHANGED <<ueSent, history>>
      /\ IF nlSock[to].open THEN Enqueued(to, m) ELSE UNCHANGED <<nlSock, heard>>
  BY DEF SendEnqueue
<1> HIDE DEF x
<1>3. UeCallOK(x) BY <1>0, <1>1 DEF UeCallOK
<1>4. /\ nlSock' \in [UeSocket -> NlSocket] /\ heard' \in [UeSocket -> SUBSET Nat]
      /\ \A r \in UeSocket : /\ nlSock'[r].open = nlSock[r].open /\ nlSock'[r].groups = nlSock[r].groups
                             /\ heard[r] \subseteq heard'[r]
      /\ nlSock'[to].open => m.id \in heard'[to]
  BY <1>0, <1>2, EnqueuedFact DEF UeInv, UeTypeOK
<1>5. \A s \in UeSocket : \A i \in DOMAIN ueSent :
          nlSock'[s].open /\ Comes(ueCall[t], s, i) => Comes(x, s, i) \/ i \in heard'[s]
  BY <1>0, <1>1, <1>4 DEF Comes
<1>6. \A s \in UeSocket : \A i \in DOMAIN ueSent :
          nlSock'[s].open /\ ueSent[i].groups \cap nlSock'[s].groups # {} =>
              /\ nlSock[s].open /\ ueSent[i].groups \cap nlSock[s].groups # {} /\ heard[s] \subseteq heard'[s]
  BY <1>4
<1> HIDE DEF to, m
<1> QED BY <1>2, <1>3, <1>4, <1>5, <1>6, CallStep

LEMMA SendDoneKeeps ==
    ASSUME UeInv, NEW t \in UeThread, SendDone(t)
    PROVE  UeInv'
<1> DEFINE x == ueCall[t].then
<1>0. ueCall[t].at = "send" /\ Follows(x) BY DEF SendDone, UeInv, UeTypeOK, UeCallOK
<1>1. UeGo(t, x) /\ UNCHANGED <<ueSent, history, nlSock, heard>> BY DEF SendDone
<1>2. UeCallOK(x) BY <1>0 DEF Follows, UeCallOK, UeIdle
<1>3. \A s \in UeSocket : \A i \in DOMAIN ueSent : ~Comes(ueCall[t], s, i)
  BY <1>0, UeventsAssumption DEF SendDone, Comes
<1> HIDE DEF x
<1> QED BY <1>1, <1>2, <1>3, FreeStep

LEMMA PushKeeps ==
    ASSUME UeInv, NEW t \in UeThread, Push(t)
    PROVE  UeInv'
<1> DEFINE c == ueCall[t]
<1>a. PICK n : n = Len(ueSent) OBVIOUS
<1>b. PICK m : m = [id |-> n + 1, groups |-> c.groups, port |-> c.port] OBVIOUS
<1>c. PICK x : x = [at |-> "collect", m |-> m, then |-> c.then] OBVIOUS
<1>0. /\ c.at = "push" /\ c.groups \in SUBSET Group /\ c.port \in Nat /\ Follows(c.then)
      /\ n \in Nat /\ ueSent \in Seq(Message) /\ history \in Seq(Message)
  BY <1>a DEF Push, UeInv, UeTypeOK, UeCallOK
<1>1. /\ history' = Pushed(history, m) /\ ueSent' = Append(ueSent, m) /\ UeGo(t, x)
      /\ UNCHANGED <<nlSock, heard>>
  BY <1>a, <1>b, <1>c DEF Push
<1>2. m \in Message /\ m.id = n + 1 BY <1>0, <1>b DEF Message
<1>3. x.at = "collect" /\ x.m = m /\ x.then = c.then BY <1>c
<1> HIDE DEF c
<1>4. /\ ueSent' \in Seq(Message) /\ Len(ueSent') = n + 1 /\ ueSent'[n + 1] = m
      /\ DOMAIN ueSent = 1..n /\ DOMAIN ueSent' = 1..(n + 1)
      /\ \A i \in 1..n : ueSent'[i] = ueSent[i]
  BY <1>a, <1>0, <1>1, <1>2
<1>5. /\ DOMAIN ueCall' = UeThread /\ ueCall' = [u \in UeThread |-> ueCall'[u]]
      /\ ueCall'[t] = x /\ \A u \in UeThread : u # t => ueCall'[u] = ueCall[u]
  BY <1>1 DEF UeInv, UeTypeOK, UeGo
<1>d. PICK k : k = Len(history) OBVIOUS
<1>6. k \in Nat /\ k = (IF n < MaxHistory THEN n ELSE MaxHistory) /\ MaxHistory \in Nat \ {0}
  BY <1>0, <1>a, <1>d, UeventsAssumption DEF UeInv, HistoryExact
<1>e. DOMAIN history = 1..k BY <1>0, <1>d
<1>f. \A j \in 1..k : history[j] = ueSent[n - k + j] BY <1>e, <1>a, <1>d DEF UeInv, HistoryExact
<1>g. \A i \in 1..n : ueSent[i].id = i BY <1>4 DEF UeInv, HistoryExact
<1>7. /\ history' \in Seq(Message)
      /\ Len(history') = IF n + 1 < MaxHistory THEN n + 1 ELSE MaxHistory
      /\ \A j \in DOMAIN history' : history'[j] = ueSent'[n + 1 - Len(history') + j]
  <2>1. CASE k < MaxHistory
    <3>1. history' = Append(history, m) BY <2>1, <1>1, <1>6, <1>d DEF Pushed
    <3>2. history' \in Seq(Message) /\ Len(history') = k + 1 /\ DOMAIN history' = 1..(k + 1)
          /\ history'[k + 1] = m /\ \A j \in 1..k : history'[j] = history[j]
      BY <3>1, <1>0, <1>2, <1>d
    <3>3. k = n BY <2>1, <1>0, <1>6
    <3>4. ASSUME NEW j \in 1..(k + 1) PROVE history'[j] = ueSent'[n + 1 - (k + 1) + j]
      <4>1. CASE j = k + 1
        BY <4>1, <3>3, <1>0, <3>2, <1>4
      <4>2. CASE j \in 1..k
        <5>1. n - k + j = j /\ n + 1 - (k + 1) + j = j /\ j \in 1..n BY <4>2, <3>3, <1>0
        <5>2. history'[j] = ueSent[j] BY <5>1, <4>2, <3>2, <1>f
        <5> QED BY <5>1, <5>2, <1>4
      <4> QED BY <4>1, <4>2, <1>6
    <3> QED BY <2>1, <3>2, <3>3, <3>4, <1>6
  <2>2. CASE k >= MaxHistory
    <3>0. k = MaxHistory /\ n >= k /\ k > 0 BY <2>2, <1>0, <1>6
    <3>1. history' = Append(Tail(history), m) BY <2>2, <1>1, <1>6, <1>d DEF Pushed
    <3>2. Tail(history) \in Seq(Message) /\ Len(Tail(history)) = k - 1
          /\ \A j \in 1..(k - 1) : Tail(history)[j] = history[j + 1]
      <4>1. history # <<>> /\ Tail(history) \in Seq(Message) /\ Len(Tail(history)) = Len(history) - 1
        BY <3>0, <1>0, <1>d
      <4>2. \A j \in 1..Len(Tail(history)) : Tail(history)[j] = history[j + 1] BY <4>1, <1>0
      <4> QED BY <4>1, <4>2, <1>d
    <3>3. history' \in Seq(Message) /\ Len(history') = k /\ DOMAIN history' = 1..k
          /\ history'[k] = m /\ \A j \in 1..(k - 1) : history'[j] = history[j + 1]
      BY <3>1, <3>2, <3>0, <1>2, <1>6
    <3>4. ASSUME NEW j \in 1..k PROVE history'[j] = ueSent'[n + 1 - k + j]
      <4>1. CASE j = k
        BY <4>1, <1>0, <1>6, <3>3, <1>4
      <4>2. CASE j \in 1..(k - 1)
        <5>1. history'[j] = history[j + 1] /\ j + 1 \in 1..k BY <4>2, <3>3, <1>6
        <5>2. history[j + 1] = ueSent[n - k + (j + 1)] BY <5>1, <1>f
        <5>3. n - k + (j + 1) = n + 1 - k + j /\ n + 1 - k + j \in 1..n BY <4>2, <3>0, <1>0, <1>6
        <5> QED BY <5>1, <5>2, <5>3, <1>4
      <4> QED BY <4>1, <4>2, <3>0, <1>6
    <3>5. Len(history') = IF n + 1 < MaxHistory THEN n + 1 ELSE MaxHistory BY <3>0, <3>3, <1>0, <1>6
    <3> QED BY <3>3, <3>4, <3>5
  <2> QED BY <2>1, <2>2, <1>6
<1>8. HistoryExact'
  <2>1. \A i \in 1..(n + 1) : ueSent'[i].id = i BY <1>0, <1>2, <1>4, <1>g
  <2>2. \A i \in DOMAIN ueSent' : ueSent'[i].id = i BY <2>1, <1>4
  <2>3. Len(history') = IF Len(ueSent') < MaxHistory THEN Len(ueSent') ELSE MaxHistory BY <1>4, <1>7
  <2>4. \A j \in DOMAIN history' : history'[j] = ueSent'[Len(ueSent') - Len(history') + j]
    BY <1>4, <1>7, <1>0
  <2> QED BY <2>2, <2>3, <2>4 DEF HistoryExact
<1>9. \A y : WasSent(y) => WasSent(y)' BY <1>0, <1>4 DEF WasSent
<1>10. UeTypeOK'
  <2>1. UeCallOK(x)'
    BY <1>0, <1>2, <1>4, <1>3 DEF WasSent, UeCallOK
  <2>2. \A u \in UeThread : u # t => UeCallOK(ueCall[u])'
    BY <1>5, <1>9 DEF UeInv, UeTypeOK, UeCallOK
  <2> QED BY <1>1, <1>4, <1>5, <1>7, <2>1, <2>2 DEF UeInv, UeTypeOK
<1>11. HeardOrComing'
  <2> SUFFICES ASSUME NEW s \in UeSocket, NEW i \in 1..(n + 1), nlSock[s].open, Recent(i)',
                      ueSent'[i].groups \cap nlSock[s].groups # {}
               PROVE  i \in heard[s] \/ \E u \in UeThread : Comes(ueCall[u], s, i)'
    BY <1>1, <1>4 DEF HeardOrComing
  <2>1. CASE i = n + 1
    BY <2>1, <1>2, <1>3, <1>5 DEF Comes
  <2>2. CASE i \in 1..n
    <3>1. Recent(i) /\ ueSent'[i] = ueSent[i] BY <2>2, <1>0, <1>4, <1>6 DEF Recent
    <3>2. CASE i \in heard[s] BY <3>2
    <3>3. CASE i \notin heard[s]
      <4>1. PICK u \in UeThread : Comes(ueCall[u], s, i)
        BY <3>1, <3>3, <2>2, <1>4 DEF UeInv, HeardOrComing
      <4>2. u # t BY <4>1, <1>0 DEF Comes, c
      <4> QED BY <4>1, <4>2, <3>1, <1>5 DEF Comes
    <3> QED BY <3>2, <3>3
  <2> QED BY <2>1, <2>2, <1>0
<1> QED BY <1>8, <1>10, <1>11 DEF UeInv

LEMMA NlCreateKeeps ==
    ASSUME UeInv, NEW t \in UeThread, NEW s \in UeSocket, NlCreate(t, s)
    PROVE  UeInv'
<1> DEFINE new == [ClosedSocket EXCEPT !.open = TRUE]
<1>0. new \in NlSocket /\ new.groups = {}
  <2>1. FALSE \in Open /\ TRUE \in Open /\ <<>> \in Seq(Message) BY DEF Open
  <2>2. ClosedSocket \in NlSocket /\ ClosedSocket.groups = {} BY <2>1 DEF NlSocket, ClosedSocket
  <2> QED BY <2>1, <2>2 DEF NlSocket
<1> HIDE DEF new
<1>1. /\ nlSock' = [nlSock EXCEPT ![s] = new] /\ heard' = [heard EXCEPT ![s] = {}]
      /\ UNCHANGED <<ueCall, ueSent, history>>
  BY DEF NlCreate, new
<1>2. nlSock' \in [UeSocket -> NlSocket] /\ heard' \in [UeSocket -> SUBSET Nat]
  BY <1>0, <1>1 DEF UeInv, UeTypeOK
<1>3. /\ nlSock'[s].groups = {}
      /\ \A r \in UeSocket : r # s => nlSock'[r] = nlSock[r] /\ heard'[r] = heard[r]
  BY <1>0, <1>1 DEF UeInv, UeTypeOK
<1> QED BY <1>1, <1>2, <1>3, SameCall

LEMMA NlDropKeeps ==
    ASSUME UeInv, NEW t \in UeThread, NEW s \in UeSocket, NlDrop(t, s)
    PROVE  UeInv'
  BY SameCall DEF Open, NlSocket, ClosedSocket, NlDrop, UeInv, UeTypeOK

LEMMA AddMembershipKeeps ==
    ASSUME UeInv, NEW t \in UeThread, NEW s \in UeSocket, NEW g \in Group, AddMembership(t, s, g)
    PROVE  UeInv'
<1> DEFINE x == [at |-> "replay", nlSock |-> s, groups |-> {g} \ nlSock[s].groups]
<1>1. /\ ueCall[t] = UeIdle /\ nlSock[s].open /\ UeGo(t, x) /\ UNCHANGED <<ueSent, history, heard>>
      /\ nlSock' = [nlSock EXCEPT ![s].groups = @ \cup {g}]
  BY DEF AddMembership, On, UeStarts
<1>2. UeCallOK(x) /\ x.at = "replay" /\ x.nlSock = s /\ x.groups = {g} \ nlSock[s].groups
  BY DEF UeCallOK
<1> HIDE DEF x
<1>3. /\ nlSock' \in [UeSocket -> NlSocket]
      /\ nlSock'[s].groups = nlSock[s].groups \cup {g}
      /\ \A r \in UeSocket : r # s => nlSock'[r] = nlSock[r]
  BY <1>1 DEF UeInv, UeTypeOK, NlSocket
<1>4. heard' \in [UeSocket -> SUBSET Nat] BY <1>1 DEF UeInv, UeTypeOK
<1>5. ASSUME NEW r \in UeSocket, NEW i \in DOMAIN ueSent, nlSock'[r].open,
             ueSent[i].groups \cap nlSock'[r].groups # {}
      PROVE  \/ nlSock[r].open /\ ueSent[i].groups \cap nlSock[r].groups # {} /\ heard[r] \subseteq heard'[r]
             \/ Comes(x, r, i)
  BY <1>1, <1>3, <1>5, <1>2 DEF Comes
<1> QED BY <1>1, <1>2, <1>3, <1>4, <1>5, IdleOwesNothing, CallStep

LEMMA DropMembershipKeeps ==
    ASSUME UeInv, NEW t \in UeThread, NEW s \in UeSocket, NEW g \in Group, DropMembership(t, s, g)
    PROVE  UeInv'
  BY SameCall DEF DropMembership, On, UeInv, UeTypeOK, NlSocket

LEMMA NlBindKeeps ==
    ASSUME UeInv, NEW t \in UeThread, NlBind(t)
    PROVE  UeInv'
<1> DEFINE c == ueCall[t]
           s == c.nlSock
           x == [at |-> "replay", nlSock |-> s, groups |-> c.groups]
<1>0. c.at = "bind" /\ s \in UeSocket /\ c.groups \in SUBSET Group /\ c.port \in Nat
  BY DEF NlBind, UeInv, UeTypeOK, UeCallOK
<1>1. /\ UeGo(t, x) /\ UNCHANGED <<ueSent, history, heard>>
      /\ nlSock' = [nlSock EXCEPT ![s].port = c.port, ![s].groups = c.groups]
  BY DEF NlBind
<1>2. UeCallOK(x) /\ x.at = "replay" /\ x.nlSock = s /\ x.groups = c.groups
  BY <1>0 DEF UeCallOK
<1>3. \A r \in UeSocket : \A i \in DOMAIN ueSent : ~Comes(ueCall[t], r, i)
  BY <1>0 DEF Comes
<1> HIDE DEF x, c, s
<1>4. /\ nlSock' \in [UeSocket -> NlSocket]
      /\ nlSock'[s].groups = c.groups
      /\ \A r \in UeSocket : r # s => nlSock'[r] = nlSock[r]
  BY <1>0, <1>1 DEF UeInv, UeTypeOK, NlSocket
<1>5. heard' \in [UeSocket -> SUBSET Nat] BY <1>1 DEF UeInv, UeTypeOK
<1>6. ASSUME NEW r \in UeSocket, NEW i \in DOMAIN ueSent, nlSock'[r].open,
             ueSent[i].groups \cap nlSock'[r].groups # {}
      PROVE  \/ nlSock[r].open /\ ueSent[i].groups \cap nlSock[r].groups # {} /\ heard[r] \subseteq heard'[r]
             \/ Comes(x, r, i)
  BY <1>1, <1>4, <1>6, <1>2 DEF Comes
<1> QED BY <1>1, <1>2, <1>3, <1>4, <1>5, <1>6, CallStep

LEMMA ReplayKeeps ==
    ASSUME UeInv, NEW t \in UeThread, Replay(t)
    PROVE  UeInv'
<1> DEFINE c == ueCall[t]
           x == [at |-> "deliver", nlSock |-> c.nlSock, groups |-> c.groups, todo |-> history]
<1>0. c.at = "replay" /\ c.nlSock \in UeSocket /\ c.groups \in SUBSET Group
  BY DEF Replay, UeInv, UeTypeOK, UeCallOK
<1>1. UeGo(t, x) /\ UNCHANGED <<ueSent, history, nlSock, heard>> BY DEF Replay
<1>2. x.at = "deliver" /\ x.nlSock = c.nlSock /\ x.groups = c.groups /\ x.todo = history OBVIOUS
<1> HIDE DEF x
<1> DEFINE n == Len(ueSent)
           k == Len(history)
<1>3. /\ n \in Nat /\ k \in Nat /\ k = (IF n < MaxHistory THEN n ELSE MaxHistory) /\ MaxHistory \in Nat \ {0}
      /\ DOMAIN history = 1..k /\ DOMAIN ueSent = 1..n /\ history \in Seq(Message)
      /\ \A j \in 1..k : history[j] = ueSent[n - k + j]
      /\ \A i \in 1..n : ueSent[i].id = i
  BY UeventsAssumption DEF UeInv, UeTypeOK, HistoryExact
<1>4. \A j \in 1..k : WasSent(history[j])
  <2> TAKE j \in 1..k
  <2>1. n - k + j \in 1..n BY <1>3
  <2> QED BY <2>1, <1>3 DEF WasSent
<1>5. UeCallOK(x) BY <1>0, <1>2, <1>3, <1>4 DEF UeCallOK
<1>6. ASSUME NEW s \in UeSocket, NEW i \in DOMAIN ueSent, Recent(i), Comes(c, s, i)
      PROVE  Comes(x, s, i)
  <2>1. i - (n - k) \in 1..k BY <1>3, <1>6 DEF Recent
  <2>2. n - k + (i - (n - k)) = i BY <1>3
  <2>3. history[i - (n - k)].id = i BY <2>1, <2>2, <1>3
  <2> QED BY <2>1, <2>3, <1>0, <1>2, <1>3, <1>6 DEF Comes
<1>7. nlSock' \in [UeSocket -> NlSocket] /\ heard' \in [UeSocket -> SUBSET Nat] BY <1>1 DEF UeInv, UeTypeOK
<1> HIDE DEF n, k
<1> QED BY <1>1, <1>5, <1>6, <1>7, CallStep

LEMMA DeliverKeeps ==
    ASSUME UeInv, NEW t \in UeThread, Deliver(t)
    PROVE  UeInv'
<1> DEFINE c == ueCall[t]
<1>0. /\ c.at = "deliver" /\ c.nlSock \in UeSocket /\ c.groups \in SUBSET Group
      /\ c.todo \in Seq(Message) /\ \A j \in DOMAIN c.todo : WasSent(c.todo[j])
  BY DEF Deliver, UeInv, UeTypeOK, UeCallOK
<1>1. CASE c.todo = <<>>
  BY <1>1, <1>0, FreeStep DEF Deliver, UeCallOK, UeIdle, Comes
<1>2. CASE c.todo # <<>>
  <2> DEFINE rest == Tail(c.todo)
             m == Head(c.todo)
             wanted == m.groups \cap c.groups # {}
             x == [at |-> "deliver", nlSock |-> c.nlSock, groups |-> c.groups, todo |-> rest]
  <2>1. /\ UeGo(t, x) /\ UNCHANGED <<ueSent, history>>
        /\ IF wanted THEN Enqueued(c.nlSock, m) ELSE UNCHANGED <<nlSock, heard>>
    BY <1>2 DEF Deliver
  <2>2. /\ Len(c.todo) \in Nat \ {0} /\ DOMAIN c.todo = 1..Len(c.todo) /\ m = c.todo[1]
        /\ rest \in Seq(Message) /\ Len(rest) = Len(c.todo) - 1 /\ DOMAIN rest = 1..Len(rest)
        /\ \A j \in 1..Len(rest) : rest[j] = c.todo[j + 1]
        /\ m \in Message /\ WasSent(m)
    BY <1>0, <1>2
  <2>3. x.at = "deliver" /\ x.nlSock = c.nlSock /\ x.groups = c.groups /\ x.todo = rest OBVIOUS
  <2> HIDE DEF x, rest, m
  <2>4. \A j \in 1..Len(rest) : WasSent(rest[j])
    <3> TAKE j \in 1..Len(rest)
    <3>1. j + 1 \in DOMAIN c.todo BY <2>2
    <3> QED BY <3>1, <2>2, <1>0
  <2>5. UeCallOK(x) BY <1>0, <2>2, <2>3, <2>4 DEF UeCallOK
  <2>6. /\ nlSock' \in [UeSocket -> NlSocket] /\ heard' \in [UeSocket -> SUBSET Nat]
        /\ \A r \in UeSocket : /\ nlSock'[r].open = nlSock[r].open /\ nlSock'[r].groups = nlSock[r].groups
                               /\ heard[r] \subseteq heard'[r]
        /\ wanted => m.id \in heard'[c.nlSock]
    BY <1>0, <2>1, <2>2, EnqueuedFact DEF UeInv, UeTypeOK
  <2>7. ASSUME NEW s \in UeSocket, NEW i \in DOMAIN ueSent, Comes(c, s, i)
        PROVE  Comes(x, s, i) \/ i \in heard'[s]
    <3>1. s = c.nlSock /\ ueSent[i].groups \cap c.groups # {} BY <2>7, <1>0 DEF Comes
    <3>2. PICK j \in 1..Len(c.todo) : c.todo[j].id = i BY <2>7, <2>2, <1>0 DEF Comes
    <3>3. CASE j = 1
      BY <3>2, <3>3, <2>2, <3>1, <2>6 DEF WasSent
    <3>4. CASE j > 1
      <4>1. j - 1 \in 1..Len(rest) /\ rest[j - 1] = c.todo[j] BY <3>2, <3>4, <2>2
      <4> QED BY <4>1, <3>1, <3>2, <2>2, <2>3 DEF Comes
    <3> QED BY <3>3, <3>4, <2>2
  <2> HIDE DEF wanted
  <2> QED BY <2>1, <2>5, <2>6, <2>7, CallStep, SMTT(40)
<1> QED BY <1>1, <1>2

LEMMA NlConnectKeeps ==
    ASSUME UeInv, NEW t \in UeThread, NEW s \in UeSocket, NEW number \in UePorts, NlConnect(t, s, number)
    PROVE  UeInv'
<1>0. EnsuredPort(s) \in Nat /\ number \in Nat BY PortEnsured, UeventsAssumption DEF UeInv
<1>1. /\ nlSock[s].open /\ UNCHANGED <<ueCall, ueSent, history, heard>>
      /\ nlSock' = [nlSock EXCEPT ![s].peer = number, ![s].port = EnsuredPort(s)]
  BY DEF NlConnect, On
<1>2. /\ nlSock' \in [UeSocket -> NlSocket]
      /\ nlSock'[s].groups = nlSock[s].groups
      /\ \A r \in UeSocket : r # s => nlSock'[r] = nlSock[r]
  BY <1>0, <1>1 DEF UeInv, UeTypeOK, NlSocket
<1>3. heard' \in [UeSocket -> SUBSET Nat] BY <1>1 DEF UeInv, UeTypeOK
<1> QED BY <1>1, <1>2, <1>3, SameCall

LEMMA SendGroupsKeeps ==
    ASSUME UeInv, NEW t \in UeThread, NEW s \in UeSocket, SendGroups(t, s)
    PROVE  UeInv'
<1> DEFINE number == EnsuredPort(s)
           x == [at |-> "push", groups |-> {UserGroup}, port |-> number, then |-> UeIdle]
<1>0. number \in Nat BY PortEnsured DEF UeInv
<1>1. /\ ueCall[t] = UeIdle /\ nlSock[s].open /\ UeGo(t, x) /\ UNCHANGED <<ueSent, history, heard>>
      /\ nlSock' = [nlSock EXCEPT ![s].port = number]
  BY DEF SendGroups, On, UeStarts
<1> HIDE DEF number
<1>2. UeCallOK(x) BY <1>0 DEF UeCallOK, Group, Follows
<1> HIDE DEF x
<1>3. /\ nlSock' \in [UeSocket -> NlSocket]
      /\ \A r \in UeSocket : nlSock'[r].groups = nlSock[r].groups /\ (nlSock'[r].open => nlSock[r].open)
  BY <1>0, <1>1 DEF UeInv, UeTypeOK, NlSocket
<1>4. heard' \in [UeSocket -> SUBSET Nat] BY <1>1 DEF UeInv, UeTypeOK
<1>5. \A r \in UeSocket : \A i \in DOMAIN ueSent :
          nlSock'[r].open /\ ueSent[i].groups \cap nlSock'[r].groups # {} =>
              /\ nlSock[r].open /\ ueSent[i].groups \cap nlSock[r].groups # {} /\ heard[r] \subseteq heard'[r]
  BY <1>1, <1>3
<1> QED BY <1>1, <1>2, <1>3, <1>4, <1>5, IdleOwesNothing, CallStep

LEMMA SendPortKeeps ==
    ASSUME UeInv, NEW t \in UeThread, NEW s \in UeSocket, SendPort(t, s)
    PROVE  UeInv'
<1> DEFINE number == EnsuredPort(s)
           m == [id |-> 0, groups |-> {}, port |-> number]
<1>0. number \in Nat BY PortEnsured DEF UeInv
<1>1. PICK r \in UeSocket \ {s} : nlSock' = [nlSock EXCEPT ![s].port = number,
             ![r].queue = IF Len(@) < RcvSlots THEN Append(@, m) ELSE @]
  BY DEF SendPort, LookupPort, LiveSockets
<1>2. UNCHANGED <<ueCall, ueSent, history, heard>> BY DEF SendPort
<1>3. m \in Message BY <1>0 DEF Message
<1> HIDE DEF number, m
<1> DEFINE q == IF Len(nlSock[r].queue) < RcvSlots THEN Append(nlSock[r].queue, m) ELSE nlSock[r].queue
<1>4. nlSock[r].queue \in Seq(Message) BY DEF UeInv, UeTypeOK, NlSocket
<1>5. q \in Seq(Message) BY <1>3, <1>4
<1>6. nlSock' = [nlSock EXCEPT ![s].port = number, ![r].queue = q] BY <1>1 DEF UeInv, UeTypeOK
<1> HIDE DEF q
<1>7. /\ nlSock' \in [UeSocket -> NlSocket]
      /\ \A u \in UeSocket : nlSock'[u].groups = nlSock[u].groups /\ (nlSock'[u].open => nlSock[u].open)
  BY <1>0, <1>5, <1>6 DEF UeInv, UeTypeOK, NlSocket
<1>8. heard' \in [UeSocket -> SUBSET Nat] BY <1>2 DEF UeInv, UeTypeOK
<1> QED BY <1>2, <1>7, <1>8, SameCall

LEMMA RecvFromKeeps ==
    ASSUME UeInv, NEW t \in UeThread, NEW s \in UeSocket, RecvFrom(t, s)
    PROVE  UeInv'
<1> DEFINE q == Tail(nlSock[s].queue)
<1>1. nlSock[s].queue \in Seq(Message) /\ nlSock[s].queue # <<>>
  BY DEF RecvFrom, UeInv, UeTypeOK, NlSocket
<1>2. q \in Seq(Message) BY <1>1
<1>3. nlSock' = [nlSock EXCEPT ![s].queue = q] /\ UNCHANGED <<ueCall, ueSent, history, heard>>
  BY DEF RecvFrom
<1> HIDE DEF q
<1>4. /\ nlSock' \in [UeSocket -> NlSocket]
      /\ \A u \in UeSocket : nlSock'[u].groups = nlSock[u].groups /\ (nlSock'[u].open => nlSock[u].open)
  BY <1>2, <1>3 DEF UeInv, UeTypeOK, NlSocket
<1>5. heard' \in [UeSocket -> SUBSET Nat] BY <1>3 DEF UeInv, UeTypeOK
<1> QED BY <1>3, <1>4, <1>5, SameCall

-----------------------------------------------------------------------------
(* The theorem *)

LEMMA UeStart == UeInit => UeInv
<1> SUFFICES ASSUME UeInit PROVE UeInv OBVIOUS
<1>1. ClosedSocket \in NlSocket /\ ~ClosedSocket.open
  BY DEF Open, NlSocket, ClosedSocket
<1>2. UeCallOK(UeIdle) BY DEF UeCallOK, UeIdle
<1>3. UeTypeOK BY <1>1, <1>2 DEF UeInit, UeTypeOK
<1>4. DOMAIN ueSent = {} /\ Len(ueSent) = 0 /\ Len(history) = 0 /\ DOMAIN history = {} BY DEF UeInit
<1>5. HistoryExact BY <1>4, UeventsAssumption DEF HistoryExact
<1>6. HeardOrComing BY <1>4 DEF HeardOrComing
<1> QED BY <1>3, <1>5, <1>6 DEF UeInv

LEMMA UeStep == UeInv /\ [UeNext]_ueVars => UeInv'
<1> SUFFICES ASSUME UeInv, [UeNext]_ueVars PROVE UeInv' OBVIOUS
<1>1. CASE UNCHANGED ueVars
  <2>1. UNCHANGED <<nlSock, history, ueCall, ueSent, heard>> BY <1>1 DEF ueVars
  <2>2. UeTypeOK' BY <2>1 DEF UeInv, UeTypeOK, UeCallOK, WasSent
  <2>3. HistoryExact' BY <2>1 DEF UeInv, HistoryExact
  <2>4. HeardOrComing' BY <2>1 DEF UeInv, HeardOrComing, Comes, Recent
  <2> QED BY <2>2, <2>3, <2>4 DEF UeInv
<1>2. CASE UeNext
  <2>1. PICK t \in UeThread :
          \/ Push(t) \/ Collect(t) \/ SendEnqueue(t) \/ SendDone(t)
          \/ RegisterSysfs(t) \/ RegisterEntries(t) \/ NlBind(t) \/ Replay(t) \/ Deliver(t)
          \/ \E d \in UeDevice : RegisterNodes(t, d) \/ WriteUevent(t, d)
          \/ \E s \in UeSocket :
               \/ SendLook(t, s) \/ NlCreate(t, s) \/ NlDrop(t, s)
               \/ \E g \in Group : AddMembership(t, s, g) \/ DropMembership(t, s, g)
               \/ \E number \in UePorts \cup {0}, gs \in {{}, {KernelGroup}} : BindCheck(t, s, number, gs)
               \/ \E number \in UePorts : NlConnect(t, s, number)
               \/ SendGroups(t, s) \/ SendPort(t, s) \/ RecvFrom(t, s)
    BY <1>2, Zenon DEF UeNext, Group
  <2>2. ASSUME NEW s \in UeSocket, SendLook(t, s) \/ NlCreate(t, s) \/ NlDrop(t, s) PROVE UeInv'
    BY <2>2, SendLookKeeps, NlCreateKeeps, NlDropKeeps, Zenon
  <2>3. ASSUME NEW s \in UeSocket, NEW g \in Group, AddMembership(t, s, g) \/ DropMembership(t, s, g)
        PROVE  UeInv'
    BY <2>3, AddMembershipKeeps, DropMembershipKeeps, Zenon
  <2>4. ASSUME NEW s \in UeSocket, NEW number \in UePorts \cup {0}, NEW gs \in {{}, {KernelGroup}},
               BindCheck(t, s, number, gs)
        PROVE  UeInv'
    BY <2>4, BindCheckKeeps, Zenon
  <2>5. ASSUME NEW s \in UeSocket, NEW number \in UePorts, NlConnect(t, s, number) PROVE UeInv'
    BY <2>5, NlConnectKeeps, Zenon
  <2>6. ASSUME NEW s \in UeSocket, SendGroups(t, s) \/ SendPort(t, s) \/ RecvFrom(t, s) PROVE UeInv'
    BY <2>6, SendGroupsKeeps, SendPortKeeps, RecvFromKeeps, Zenon
  <2>7. ASSUME NEW d \in UeDevice, RegisterNodes(t, d) \/ WriteUevent(t, d) PROVE UeInv'
    BY <2>7, RegisterNodesKeeps, WriteUeventKeeps, Zenon
  <2>8. ASSUME \/ Push(t) \/ Collect(t) \/ SendEnqueue(t) \/ SendDone(t)
               \/ RegisterSysfs(t) \/ RegisterEntries(t)
        PROVE  UeInv'
    BY <2>8, PushKeeps, CollectKeeps, SendEnqueueKeeps, SendDoneKeeps, RegisterSysfsKeeps,
       RegisterEntriesKeeps, Zenon
  <2>9. ASSUME NlBind(t) \/ Replay(t) \/ Deliver(t) PROVE UeInv'
    BY <2>9, NlBindKeeps, ReplayKeeps, DeliverKeeps, Zenon
  <2> QED BY <2>1, <2>2, <2>3, <2>4, <2>5, <2>6, <2>7, <2>8, <2>9, Zenon
<1> QED BY <1>1, <1>2

\* What is owed to a socket on which no call is under way, by a message that no
\* call sends, it has heard.
LEMMA UeHeard == UeInv => UeventsHeard
  BY DEF UeventsHeard, Comes, Busy, UeInv, HeardOrComing, LiveSockets, Recent

\* A socket of a message's group hears of it, whether it joined before, after or
\* while the message was sent (broadcast_message, deliver_historical_messages).
THEOREM Announced == UeSpec => []UeventsHeard
<1>1. UeSpec => []UeInv BY UeStart, UeStep, PTL DEF UeSpec
<1> QED BY <1>1, UeHeard, PTL
=============================================================================
