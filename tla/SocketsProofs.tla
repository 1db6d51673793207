---------------------------- MODULE SocketsProofs ----------------------------
(***************************************************************************)
(* Proofs about Epoll: for any threads, writers, descriptors and batch     *)
(* sizes no event is lost between a file that becomes ready, an epoll_ctl  *)
(* that registers the interest and an epoll_wait that examines a batch,    *)
(* and nobody sleeps while events are stored (Events).                     *)
(*                                                                         *)
(* And about UnixSocket, which shares no state with it: for any sockets,   *)
(* threads, addresses, buffer sizes and backlogs the two ends of every     *)
(* connection agree, a receive queue holds what was sent, in order, and a  *)
(* bound address leads to its socket (Connections).                        *)
(***************************************************************************)
EXTENDS Epoll, UnixSocket, FiniteSetTheorems, WellFoundedInduction, TLAPS

-----------------------------------------------------------------------------
(* The inductive invariant *)

\* Where a thread is inside epoll_ctl, inside EpollInstance::wait, between the
\* listener's registration and the end of epoll_ctl, and asleep.
CtlPc == {"register", "poll", "mark", "insert", "insert_notify"}
WaitPc == {"take", "examine", "requeue", "requeue_notify"}
ListenPc == {"poll", "mark", "insert", "insert_notify"}
AsleepPc == {"registered", "sleeping"}
InsertPc == {"insert", "insert_notify"}
\* Who is inside epoll_ctl or EpollInstance::wait has the lock.
LockExact == \A t \in Thread : epoll_lock = t <=> pc[t] \in CtlPc \cup WaitPc
CallsExact ==
    \A t \in Thread :
      /\ pc[t] \in CtlPc => ctl[t] \in [fd : Fd, mode : Mode] /\ ctl[t].fd \notin DOMAIN interests
      /\ batch[t] # <<>> <=> pc[t] = "examine"
      /\ pc[t] \in AsleepPc => t \in registered
WritersExact == \A w \in Writer : writer[w].pc # "idle" => writer[w].fd \in Fd
Enabled(f) == f \in DOMAIN interests /\ ~interests[f].disabled
Joining(f) == \E t \in Thread : pc[t] \in ListenPc /\ ctl[t].fd = f
\* Who has an interest listens, and who is about to have one has begun to.
Listened == \A f \in Fd : f \in listening <=> Enabled(f) \/ Joining(f)
\* epoll_ctl has looked at the file since it listens.
Looked ==
    \A t \in Thread : pc[t] \in InsertPc /\ ctl[t].fd \in level =>
        ctl[t].fd \in events \/ OnItsWay(ctl[t].fd)
EpollInv ==
    /\ TypeOK /\ LockExact /\ CallsExact /\ WritersExact /\ Listened /\ Looked
    /\ NoLostEvent /\ EventsQueued /\ NoSleeperOnEvents

-----------------------------------------------------------------------------
(* take_ready *)

\* The entries with an event among the first k.
LEMMA LiveInFinite ==
    ASSUME NEW k \in Nat
    PROVE  IsFiniteSet(LiveIn(k)) /\ Cardinality(LiveIn(k)) \in Nat /\ LiveIn(k) \subseteq 1..k
<1>1. LiveIn(k) \subseteq 1..k BY DEF LiveIn
<1>2. IsFiniteSet(1..k) BY FS_Interval
<1>3. IsFiniteSet(LiveIn(k)) BY <1>1, <1>2, FS_Subset
<1> QED BY <1>1, <1>3, FS_CardinalityType

\* What is popped is a part of the queue.
LEMMA PoppedFact ==
    ASSUME TypeOK, NEW n
    PROVE  Popped(n) \in 0..Len(queue)
<1> DEFINE enough == {k \in 0..Len(queue) : Cardinality(LiveIn(k)) = n}
<1>0. Len(queue) \in Nat BY DEF TypeOK
<1>1. CASE enough = {} BY <1>0, <1>1 DEF Popped
<1>2. CASE enough # {}
  <2>1. IsWellFoundedOn(OpToRel(<, Nat), Nat) BY NatLessThanWellFounded, Zenon
  <2>2. enough \subseteq Nat BY <1>0
  <2>3. Popped(n) = CHOOSE k \in enough : \A m \in enough : k <= m BY <1>2 DEF Popped
  <2>a. enough \subseteq 0..Len(queue) OBVIOUS
  <2> HIDE DEF enough
  <2>4. PICK x \in enough : \A y \in enough : ~ (<<y, x>> \in OpToRel(<, Nat)) BY <1>2, <2>1, <2>2, WFMin, Zenon
  <2>b. \A y \in enough : ~(y < x) BY <2>2, <2>4 DEF OpToRel
  <2>5. \A y \in enough : x <= y BY <2>2, <2>b
  <2>6. Popped(n) \in enough BY <2>3, <2>5
  <2> QED BY <2>6, <2>a
<1> QED BY <1>1, <1>2

\* The entries of a queue are counted in order.
LEMMA LiveCount ==
    ASSUME NEW j \in Nat, NEW k \in Nat, j <= k
    PROVE  /\ Cardinality(LiveIn(j)) <= Cardinality(LiveIn(k))
           /\ j < k /\ k \in LiveIn(k) => Cardinality(LiveIn(j)) < Cardinality(LiveIn(k))
  BY LiveInFinite, FS_Subset DEF LiveIn

\* Every count up to the last is reached at an entry with an event.
LEMMA NthLive ==
    ASSUME NEW p \in Nat, NEW m \in 1..Cardinality(LiveIn(p))
    PROVE  \E i \in LiveIn(p) : Cardinality(LiveIn(i)) = m
<1> DEFINE reached == {k \in 0..p : Cardinality(LiveIn(k)) >= m}
<1>0. \A k \in Nat : Cardinality(LiveIn(k)) \in Nat /\ IsFiniteSet(LiveIn(k)) BY LiveInFinite
<1>1. p \in reached BY <1>0
<1>2. PICK k \in reached : \A j \in reached : ~(j < k)
  <2>1. IsWellFoundedOn(OpToRel(<, Nat), Nat) BY NatLessThanWellFounded, Zenon
  <2>2. reached \subseteq Nat /\ reached # {} BY <1>1
  <2> HIDE DEF reached
  <2>3. PICK x \in reached : \A y \in reached : ~ (<<y, x>> \in OpToRel(<, Nat)) BY <2>1, <2>2, WFMin, Zenon
  <2> QED BY <2>2, <2>3 DEF OpToRel
<1>3. k \in 0..p /\ Cardinality(LiveIn(k)) >= m OBVIOUS
<1>4. k # 0
  BY FS_EmptySet, <1>3 DEF LiveIn
<1>5. k - 1 \in Nat /\ k - 1 \in 0..p /\ k \in Nat BY <1>3, <1>4
<1>6. Cardinality(LiveIn(k - 1)) < m BY <1>0, <1>2, <1>5
<1>7. LiveIn(k) = IF Live(k) THEN LiveIn(k - 1) \cup {k} ELSE LiveIn(k - 1)
  BY <1>3, <1>4 DEF LiveIn
<1>8. IsFiniteSet(LiveIn(k - 1)) /\ Cardinality(LiveIn(k - 1)) \in Nat BY <1>0, <1>5
<1>9. Live(k) BY <1>3, <1>6, <1>7, <1>8
<1>10. Cardinality(LiveIn(k - 1) \cup {k}) \in {Cardinality(LiveIn(k - 1)), Cardinality(LiveIn(k - 1)) + 1}
  BY <1>8, FS_AddElement
<1>11. Cardinality(LiveIn(k)) = m BY <1>3, <1>6, <1>7, <1>8, <1>9, <1>10
<1>12. k \in LiveIn(p) BY <1>3, <1>4, <1>9 DEF LiveIn
<1> QED BY <1>11, <1>12

\* What is taken: watched descriptors, and every one whose entry was popped and
\* that has an event.
LEMMA TakenFact ==
    ASSUME TypeOK, NEW n
    PROVE  /\ Taken(n) \in Seq(Fd)
           /\ \A i \in 1..Popped(n) : queue[i] \in events =>
                 \E m \in 1..Len(Taken(n)) : Taken(n)[m] = queue[i]
<1>0. PICK p : p = Popped(n) OBVIOUS
<1>1. p \in 0..Len(queue) /\ p \in Nat /\ Len(queue) \in Nat /\ queue \in Seq(Fd)
  BY <1>0, PoppedFact DEF TypeOK
<1> DEFINE nth(m) == CHOOSE i \in LiveIn(p) : Cardinality(LiveIn(i)) = m
           c == Cardinality(LiveIn(p))
<1>2. Taken(n) = [m \in 1..c |-> queue[nth(m)]] BY <1>0 DEF Taken
<1>3. \A m \in 1..c : nth(m) \in LiveIn(p) /\ Cardinality(LiveIn(nth(m))) = m
  <2> TAKE m \in 1..c
  <2>1. \E i \in LiveIn(p) : Cardinality(LiveIn(i)) = m BY <1>1, NthLive
  <2> QED BY <2>1
<1>4. LiveIn(p) \subseteq 1..p /\ c \in Nat BY <1>1, LiveInFinite
<1> HIDE DEF nth, c
<1>5. \A m \in 1..c : queue[nth(m)] \in Fd
  <2> TAKE m \in 1..c
  <2>1. nth(m) \in 1..Len(queue) BY <1>1, <1>3, <1>4
  <2> QED BY <2>1, <1>1
<1>6. Taken(n) \in Seq(Fd) /\ Len(Taken(n)) = c BY <1>2, <1>4, <1>5
<1>7. ASSUME NEW i \in 1..p, queue[i] \in events PROVE \E m \in 1..c : Taken(n)[m] = queue[i]
  <2> DEFINE same == {j \in 1..i : queue[j] = queue[i]}
  <2>1. PICK j \in same : \A l \in same : ~(l < j)
    <3>1. IsWellFoundedOn(OpToRel(<, Nat), Nat) BY NatLessThanWellFounded, Zenon
    <3>2. same \subseteq Nat /\ same # {} BY <1>1
    <3> HIDE DEF same
    <3>3. PICK x \in same : \A y \in same : ~ (<<y, x>> \in OpToRel(<, Nat)) BY <3>1, <3>2, WFMin, Zenon
    <3> QED BY <3>2, <3>3 DEF OpToRel
  <2>2. j \in 1..p /\ j \in Nat /\ queue[j] = queue[i] /\ \A l \in 1..(j - 1) : queue[l] # queue[j]
    BY <1>1, <2>1
  <2>3. j \in LiveIn(p) /\ j \in LiveIn(j) BY <2>2, <1>7 DEF LiveIn, Live
  <2> DEFINE m == Cardinality(LiveIn(j))
  <2>4. m \in 1..c
    BY <2>2, <1>1, <1>4, LiveInFinite, LiveCount, <2>3, FS_EmptySet DEF c
  <2>5. nth(m) = j
    <3>1. nth(m) \in LiveIn(p) /\ Cardinality(LiveIn(nth(m))) = m /\ nth(m) \in 1..p BY <2>4, <1>3, <1>4
    <3>2. nth(m) \in LiveIn(nth(m)) BY <3>1, <1>1 DEF LiveIn
    <3>3. CASE nth(m) < j
      BY <3>1, <3>3, <2>2, <2>3, LiveCount, <2>4, <1>4
    <3>4. CASE j < nth(m)
      BY <3>1, <3>2, <3>4, <2>2, LiveCount, <2>4, <1>4
    <3> QED BY <3>1, <3>3, <3>4, <2>2
  <2> HIDE DEF m
  <2> QED BY <2>2, <2>4, <2>5, <1>2
<1> QED BY <1>0, <1>6, <1>7

-----------------------------------------------------------------------------
(* Steps *)

\* Goto moves one thread.
LEMMA Went ==
    ASSUME TypeOK, NEW t \in Thread, NEW where \in PC, Goto(t, where)
    PROVE  /\ pc' \in [Thread -> PC] /\ pc'[t] = where
           /\ \A u \in Thread : u # t => pc'[u] = pc[u]
BY DEF TypeOK, Goto

\* A thread goes on without a look at files, interests or events.
LEMMA Quiet ==
    ASSUME EpollInv, TypeOK', LockExact', CallsExact', NoSleeperOnEvents',
           UNCHANGED <<level, unseen, writer, listening, interests, events, queue, batch, requeue>>,
           \A u \in Thread : /\ pc'[u] \in ListenPc <=> pc[u] \in ListenPc
                             /\ pc'[u] \in InsertPc <=> pc[u] \in InsertPc
                             /\ pc[u] \in ListenPc => ctl'[u] = ctl[u]
    PROVE  EpollInv'
<1>0. InsertPc \subseteq ListenPc BY DEF InsertPc, ListenPc
<1>1. WritersExact' BY DEF EpollInv, WritersExact
<1>2. \A f : OnItsWay(f)' <=> OnItsWay(f) BY DEF OnItsWay
<1>3. \A f : Joining(f)' <=> Joining(f) BY DEF Joining
<1>4. \A f : (Enabled(f)' <=> Enabled(f)) /\ (Reportable(f)' <=> Reportable(f)) BY DEF Enabled, Reportable
<1>5. Listened' BY <1>3, <1>4 DEF EpollInv, Listened
<1>6. Looked' BY <1>0, <1>2 DEF EpollInv, Looked
<1>7. NoLostEvent' BY <1>2, <1>4 DEF EpollInv, NoLostEvent, InBatch
<1>8. EventsQueued' BY DEF EpollInv, EventsQueued
<1> QED BY <1>1, <1>5, <1>6, <1>7, <1>8 DEF EpollInv

\* epoll_ctl(ADD) takes the lock.
LEMMA CtlAddKeeps ==
    ASSUME EpollInv, NEW t \in Thread, NEW f \in Fd, NEW mode \in Mode, CtlAdd(t, f, mode)
    PROVE  EpollInv'
<1> DEFINE call == [fd |-> f, mode |-> mode]
<1>0. call \in [fd : Fd, mode : Mode] /\ call.fd = f OBVIOUS
<1>1. /\ pc[t] = "user" /\ epoll_lock = None /\ f \notin DOMAIN interests /\ epoll_lock' = t
      /\ ctl' = [ctl EXCEPT ![t] = call] /\ Goto(t, "register")
      /\ UNCHANGED <<fileVars, listening, interests, readyVars, waitVars, sleepVars>>
  BY DEF CtlAdd
<1> HIDE DEF call
<1>2. /\ pc' \in [Thread -> PC] /\ pc'[t] = "register" /\ \A u \in Thread : u # t => pc'[u] = pc[u]
  BY <1>1, Went DEF EpollInv, PC
<1>3. /\ ctl' \in [Thread -> [fd : Fd, mode : Mode] \cup {None}]
      /\ ctl'[t] = call /\ \A u \in Thread : u # t => ctl'[u] = ctl[u]
  BY <1>0, <1>1 DEF EpollInv, TypeOK
<1>4. TypeOK' BY <1>1, <1>2, <1>3 DEF EpollInv, TypeOK, fileVars, readyVars, waitVars, sleepVars
<1>5. LockExact' BY <1>1, <1>2, NoneAssumption DEF EpollInv, LockExact, CtlPc, WaitPc
<1>6. CallsExact'
  BY <1>0, <1>1, <1>2, <1>3 DEF EpollInv, CallsExact, waitVars, sleepVars, CtlPc, AsleepPc
<1>7. NoSleeperOnEvents'
  BY <1>1, <1>2 DEF EpollInv, NoSleeperOnEvents, Notifying, fileVars, readyVars, sleepVars
<1>8. \A u \in Thread : /\ pc'[u] \in ListenPc <=> pc[u] \in ListenPc
                        /\ pc'[u] \in InsertPc <=> pc[u] \in InsertPc
                        /\ pc[u] \in ListenPc => ctl'[u] = ctl[u]
  BY <1>1, <1>2, <1>3 DEF ListenPc, InsertPc
<1> QED BY <1>1, <1>4, <1>5, <1>6, <1>7, <1>8, Quiet DEF fileVars, readyVars, waitVars

\* A thread outside epoll_ctl goes on.
LEMMA Passing ==
    ASSUME EpollInv, NEW t \in Thread, NEW where \in PC, Goto(t, where),
           UNCHANGED <<level, unseen, writer, listening, interests, events, queue, batch, requeue, ctl>>,
           result' \in [Thread -> SUBSET Fd],
           pc[t] \notin CtlPc \cup {"examine"}, where \notin CtlPc \cup {"examine"},
           epoll_lock' \in Thread \cup {None},
           IF where \in WaitPc THEN (pc[t] \in WaitPc \/ epoll_lock = None) /\ epoll_lock' = t
           ELSE epoll_lock' = IF pc[t] \in WaitPc THEN None ELSE epoll_lock,
           max_events' \in [Thread -> 0..MaxEvents], last_look' \subseteq Thread,
           registered' \subseteq Thread, woken' \subseteq Thread,
           \A u \in Thread : pc'[u] \in AsleepPc => u \in registered',
           NoSleeperOnEvents'
    PROVE  EpollInv'
<1>2. /\ pc' \in [Thread -> PC] /\ pc'[t] = where /\ \A u \in Thread : u # t => pc'[u] = pc[u]
  BY Went DEF EpollInv
<1>4. TypeOK' BY <1>2 DEF EpollInv, TypeOK
<1>5. LockExact'
  BY <1>2, NoneAssumption DEF EpollInv, LockExact
<1>6. CallsExact'
  BY <1>2 DEF EpollInv, CallsExact, AsleepPc
<1>8. \A u \in Thread : /\ pc'[u] \in ListenPc <=> pc[u] \in ListenPc
                        /\ pc'[u] \in InsertPc <=> pc[u] \in InsertPc
                        /\ pc[u] \in ListenPc => ctl'[u] = ctl[u]
  BY <1>2 DEF CtlPc, ListenPc, InsertPc
<1> QED BY <1>4, <1>5, <1>6, <1>8, Quiet

\* Steps of a wait outside the lock.
LEMMA EpollWaitKeeps ==
    ASSUME EpollInv, NEW t \in Thread, NEW n \in 1..MaxEvents, EpollWait(t, n)
    PROVE  EpollInv'
<1>1. /\ pc[t] = "user" /\ Goto(t, "wait")
      /\ max_events' = [max_events EXCEPT ![t] = n]
      /\ UNCHANGED <<level, unseen, writer, listening, interests, events, queue, batch, requeue, ctl, epoll_lock, last_look, result, registered, woken>>
  BY DEF EpollWait, fileVars, readyVars, waitVars, sleepVars, NotifyWaiters
<1>2. "wait" \in PC BY DEF PC
<1>3. /\ pc'[t] = "wait" /\ \A u \in Thread : u # t => pc'[u] = pc[u] BY <1>1, <1>2, Went DEF EpollInv
<1>4. \A u \in Thread : pc'[u] \in AsleepPc => u \in registered'
  BY <1>1, <1>3 DEF EpollInv, CallsExact, AsleepPc
<1>5. NoSleeperOnEvents'
  BY <1>1, <1>3 DEF EpollInv, NoSleeperOnEvents, Notifying
<1>6. /\ epoll_lock' \in Thread \cup {None} /\ max_events' \in [Thread -> 0..MaxEvents] /\ last_look' \subseteq Thread
      /\ registered' \subseteq Thread /\ woken' \subseteq Thread /\ result' \in [Thread -> SUBSET Fd]
  BY <1>1, MaxEventsAssumption DEF EpollInv, TypeOK
<1> QED BY <1>1, <1>2, <1>4, <1>5, <1>6, Passing DEF CtlPc, WaitPc

LEMMA GiveUpKeeps ==
    ASSUME EpollInv, NEW t \in Thread, GiveUp(t)
    PROVE  EpollInv'
<1>1. /\ pc[t] = "block" /\ Goto(t, "return")
      /\ TRUE
      /\ UNCHANGED <<level, unseen, writer, listening, interests, events, queue, batch, requeue, ctl, epoll_lock, max_events, last_look, result, registered, woken>>
  BY DEF GiveUp, fileVars, readyVars, waitVars, sleepVars, NotifyWaiters
<1>2. "return" \in PC BY DEF PC
<1>3. /\ pc'[t] = "return" /\ \A u \in Thread : u # t => pc'[u] = pc[u] BY <1>1, <1>2, Went DEF EpollInv
<1>4. \A u \in Thread : pc'[u] \in AsleepPc => u \in registered'
  BY <1>1, <1>3 DEF EpollInv, CallsExact, AsleepPc
<1>5. NoSleeperOnEvents'
  BY <1>1, <1>3 DEF EpollInv, NoSleeperOnEvents, Notifying
<1>6. /\ epoll_lock' \in Thread \cup {None} /\ max_events' \in [Thread -> 0..MaxEvents] /\ last_look' \subseteq Thread
      /\ registered' \subseteq Thread /\ woken' \subseteq Thread /\ result' \in [Thread -> SUBSET Fd]
  BY <1>1, MaxEventsAssumption DEF EpollInv, TypeOK
<1> QED BY <1>1, <1>2, <1>4, <1>5, <1>6, Passing DEF CtlPc, WaitPc

LEMMA ReturnKeeps ==
    ASSUME EpollInv, NEW t \in Thread, Return(t)
    PROVE  EpollInv'
<1>1. /\ pc[t] = "return" /\ Goto(t, "user")
      /\ result' = [result EXCEPT ![t] = {}] /\ max_events' = [max_events EXCEPT ![t] = 0] /\ last_look' = last_look \ {t}
      /\ UNCHANGED <<level, unseen, writer, listening, interests, events, queue, batch, requeue, ctl, epoll_lock, registered, woken>>
  BY DEF Return, fileVars, readyVars, waitVars, sleepVars, NotifyWaiters
<1>2. "user" \in PC BY DEF PC
<1>3. /\ pc'[t] = "user" /\ \A u \in Thread : u # t => pc'[u] = pc[u] BY <1>1, <1>2, Went DEF EpollInv
<1>4. \A u \in Thread : pc'[u] \in AsleepPc => u \in registered'
  BY <1>1, <1>3 DEF EpollInv, CallsExact, AsleepPc
<1>5. NoSleeperOnEvents'
  BY <1>1, <1>3 DEF EpollInv, NoSleeperOnEvents, Notifying
<1>6. /\ epoll_lock' \in Thread \cup {None} /\ max_events' \in [Thread -> 0..MaxEvents] /\ last_look' \subseteq Thread
      /\ registered' \subseteq Thread /\ woken' \subseteq Thread /\ result' \in [Thread -> SUBSET Fd]
  BY <1>1, MaxEventsAssumption DEF EpollInv, TypeOK
<1> QED BY <1>1, <1>2, <1>4, <1>5, <1>6, Passing DEF CtlPc, WaitPc

LEMMA RegisterKeeps ==
    ASSUME EpollInv, NEW t \in Thread, Register(t)
    PROVE  EpollInv'
<1>1. /\ pc[t] = "block" /\ epoll_lock = None /\ Goto(t, "registered")
      /\ registered' = registered \cup {t}
      /\ UNCHANGED <<level, unseen, writer, listening, interests, events, queue, batch, requeue, ctl, epoll_lock, max_events, last_look, result, woken>>
  BY DEF Register, fileVars, readyVars, waitVars, sleepVars, NotifyWaiters
<1>2. "registered" \in PC BY DEF PC
<1>3. /\ pc'[t] = "registered" /\ \A u \in Thread : u # t => pc'[u] = pc[u] BY <1>1, <1>2, Went DEF EpollInv
<1>4. \A u \in Thread : pc'[u] \in AsleepPc => u \in registered'
  BY <1>1, <1>3 DEF EpollInv, CallsExact, AsleepPc
<1>5. NoSleeperOnEvents'
  BY <1>1, <1>3 DEF EpollInv, NoSleeperOnEvents, Notifying
<1>6. /\ epoll_lock' \in Thread \cup {None} /\ max_events' \in [Thread -> 0..MaxEvents] /\ last_look' \subseteq Thread
      /\ registered' \subseteq Thread /\ woken' \subseteq Thread /\ result' \in [Thread -> SUBSET Fd]
  BY <1>1, MaxEventsAssumption DEF EpollInv, TypeOK
<1> QED BY <1>1, <1>2, <1>4, <1>5, <1>6, Passing DEF CtlPc, WaitPc

LEMMA ExpireKeeps ==
    ASSUME EpollInv, NEW t \in Thread, Expire(t)
    PROVE  EpollInv'
<1>1. /\ pc[t] = "sleeping" /\ Goto(t, "wait")
      /\ registered' = registered \ {t} /\ last_look' = last_look \cup {t}
      /\ UNCHANGED <<level, unseen, writer, listening, interests, events, queue, batch, requeue, ctl, epoll_lock, max_events, result, woken>>
  BY DEF Expire, fileVars, readyVars, waitVars, sleepVars, NotifyWaiters
<1>2. "wait" \in PC BY DEF PC
<1>3. /\ pc'[t] = "wait" /\ \A u \in Thread : u # t => pc'[u] = pc[u] BY <1>1, <1>2, Went DEF EpollInv
<1>4. \A u \in Thread : pc'[u] \in AsleepPc => u \in registered'
  BY <1>1, <1>3 DEF EpollInv, CallsExact, AsleepPc
<1>5. NoSleeperOnEvents'
  BY <1>1, <1>3 DEF EpollInv, NoSleeperOnEvents, Notifying
<1>6. /\ epoll_lock' \in Thread \cup {None} /\ max_events' \in [Thread -> 0..MaxEvents] /\ last_look' \subseteq Thread
      /\ registered' \subseteq Thread /\ woken' \subseteq Thread /\ result' \in [Thread -> SUBSET Fd]
  BY <1>1, MaxEventsAssumption DEF EpollInv, TypeOK
<1> QED BY <1>1, <1>2, <1>4, <1>5, <1>6, Passing DEF CtlPc, WaitPc

LEMMA InterruptKeeps ==
    ASSUME EpollInv, NEW t \in Thread, Interrupt(t)
    PROVE  EpollInv'
<1>1. /\ pc[t] = "sleeping" /\ Goto(t, "return")
      /\ registered' = registered \ {t}
      /\ UNCHANGED <<level, unseen, writer, listening, interests, events, queue, batch, requeue, ctl, epoll_lock, max_events, last_look, result, woken>>
  BY DEF Interrupt, fileVars, readyVars, waitVars, sleepVars, NotifyWaiters
<1>2. "return" \in PC BY DEF PC
<1>3. /\ pc'[t] = "return" /\ \A u \in Thread : u # t => pc'[u] = pc[u] BY <1>1, <1>2, Went DEF EpollInv
<1>4. \A u \in Thread : pc'[u] \in AsleepPc => u \in registered'
  BY <1>1, <1>3 DEF EpollInv, CallsExact, AsleepPc
<1>5. NoSleeperOnEvents'
  BY <1>1, <1>3 DEF EpollInv, NoSleeperOnEvents, Notifying
<1>6. /\ epoll_lock' \in Thread \cup {None} /\ max_events' \in [Thread -> 0..MaxEvents] /\ last_look' \subseteq Thread
      /\ registered' \subseteq Thread /\ woken' \subseteq Thread /\ result' \in [Thread -> SUBSET Fd]
  BY <1>1, MaxEventsAssumption DEF EpollInv, TypeOK
<1> QED BY <1>1, <1>2, <1>4, <1>5, <1>6, Passing DEF CtlPc, WaitPc

\* Sleepers are woken for what was put back.
LEMMA WaitRequeueNotifyKeeps ==
    ASSUME EpollInv, NEW t \in Thread, WaitRequeueNotify(t)
    PROVE  EpollInv'
<1>1. /\ pc[t] = "requeue_notify" /\ Goto(t, "requeue")
      /\ woken' = woken \cup registered
      /\ UNCHANGED <<level, unseen, writer, listening, interests, events, queue, batch, requeue, ctl, epoll_lock, max_events, last_look, result, registered>>
  BY DEF WaitRequeueNotify, fileVars, readyVars, waitVars, sleepVars, NotifyWaiters
<1>2. "requeue" \in PC BY DEF PC
<1>3. /\ pc'[t] = "requeue" /\ \A u \in Thread : u # t => pc'[u] = pc[u] BY <1>1, <1>2, Went DEF EpollInv
<1>4. \A u \in Thread : pc'[u] \in AsleepPc => u \in registered'
  BY <1>1, <1>3 DEF EpollInv, CallsExact, AsleepPc
<1>5. NoSleeperOnEvents'
  BY <1>1, <1>3 DEF EpollInv, NoSleeperOnEvents, Notifying, CallsExact, AsleepPc
<1>6. /\ epoll_lock' \in Thread \cup {None} /\ max_events' \in [Thread -> 0..MaxEvents] /\ last_look' \subseteq Thread
      /\ registered' \subseteq Thread /\ woken' \subseteq Thread /\ result' \in [Thread -> SUBSET Fd]
  BY <1>1, MaxEventsAssumption DEF EpollInv, TypeOK
<1>7. epoll_lock = t BY <1>1 DEF EpollInv, LockExact, WaitPc
<1> QED BY <1>1, <1>2, <1>4, <1>5, <1>6, <1>7, Passing DEF CtlPc, WaitPc

\* The lock is taken, and given back.
LEMMA WaitBeginKeeps ==
    ASSUME EpollInv, NEW t \in Thread, WaitBegin(t)
    PROVE  EpollInv'
<1> DEFINE where == IF events # {} THEN "take" ELSE IF t \in last_look THEN "return" ELSE "block"
<1>1. /\ pc[t] = "wait" /\ epoll_lock = None /\ Goto(t, where)
      /\ epoll_lock' = IF where = "take" THEN t ELSE None
      /\ UNCHANGED <<level, unseen, writer, listening, interests, events, queue, batch, requeue, ctl,
                     max_events, last_look, result, registered, woken>>
  BY DEF WaitBegin, fileVars, readyVars, waitVars, sleepVars
<1>2. where \in PC /\ where \in {"take", "return", "block"} BY DEF PC
<1> HIDE DEF where
<1>3. /\ pc'[t] = where /\ \A u \in Thread : u # t => pc'[u] = pc[u] BY <1>1, <1>2, Went DEF EpollInv
<1>4. \A u \in Thread : pc'[u] \in AsleepPc => u \in registered'
  BY <1>1, <1>2, <1>3 DEF EpollInv, CallsExact, AsleepPc
<1>5. NoSleeperOnEvents'
  BY <1>1, <1>2, <1>3 DEF EpollInv, NoSleeperOnEvents, Notifying
<1>6. /\ epoll_lock' \in Thread \cup {None} /\ max_events' \in [Thread -> 0..MaxEvents] /\ last_look' \subseteq Thread
      /\ registered' \subseteq Thread /\ woken' \subseteq Thread /\ result' \in [Thread -> SUBSET Fd]
  BY <1>1 DEF EpollInv, TypeOK
<1> QED BY <1>1, <1>2, <1>4, <1>5, <1>6, Passing DEF CtlPc, WaitPc

LEMMA WaitEndKeeps ==
    ASSUME EpollInv, NEW t \in Thread, WaitEnd(t)
    PROVE  EpollInv'
<1> DEFINE where == IF result[t] = {} /\ t \notin last_look THEN "block" ELSE "return"
<1>1. /\ pc[t] = "requeue" /\ Goto(t, where) /\ epoll_lock' = None
      /\ UNCHANGED <<level, unseen, writer, listening, interests, events, queue, batch, requeue, ctl,
                     max_events, last_look, result, registered, woken>>
  BY DEF WaitEnd, fileVars, readyVars, waitVars, sleepVars
<1>2. where \in PC /\ where \in {"return", "block"} BY DEF PC
<1> HIDE DEF where
<1>3. /\ pc'[t] = where /\ \A u \in Thread : u # t => pc'[u] = pc[u] BY <1>1, <1>2, Went DEF EpollInv
<1>4. \A u \in Thread : pc'[u] \in AsleepPc => u \in registered'
  BY <1>1, <1>2, <1>3 DEF EpollInv, CallsExact, AsleepPc
<1>5. NoSleeperOnEvents'
  BY <1>1, <1>2, <1>3 DEF EpollInv, NoSleeperOnEvents, Notifying
<1>6. /\ epoll_lock' \in Thread \cup {None} /\ max_events' \in [Thread -> 0..MaxEvents] /\ last_look' \subseteq Thread
      /\ registered' \subseteq Thread /\ woken' \subseteq Thread /\ result' \in [Thread -> SUBSET Fd]
  BY <1>1 DEF EpollInv, TypeOK
<1> QED BY <1>1, <1>2, <1>4, <1>5, <1>6, Passing DEF CtlPc, WaitPc

\* A thread goes to sleep only with no event stored.
LEMMA TrackKeeps ==
    ASSUME EpollInv, NEW t \in Thread, Track(t)
    PROVE  EpollInv'
<1> DEFINE where == IF events # {} THEN "wait" ELSE "sleeping"
<1>1. /\ pc[t] = "registered" /\ epoll_lock = None /\ Goto(t, where)
      /\ registered' = IF where = "wait" THEN registered \ {t} ELSE registered
      /\ UNCHANGED <<level, unseen, writer, listening, interests, events, queue, batch, requeue, ctl,
                     epoll_lock, max_events, last_look, result, woken>>
  BY DEF Track, fileVars, readyVars, waitVars, sleepVars
<1>2. where \in PC /\ where \in {"wait", "sleeping"} /\ (where = "sleeping" => events = {}) BY DEF PC
<1> HIDE DEF where
<1>3. /\ pc'[t] = where /\ \A u \in Thread : u # t => pc'[u] = pc[u] BY <1>1, <1>2, Went DEF EpollInv
<1>4. \A u \in Thread : pc'[u] \in AsleepPc => u \in registered'
  BY <1>1, <1>2, <1>3 DEF EpollInv, CallsExact, AsleepPc
<1>5. NoSleeperOnEvents'
  BY <1>1, <1>2, <1>3 DEF EpollInv, NoSleeperOnEvents, Notifying
<1>6. /\ epoll_lock' \in Thread \cup {None} /\ max_events' \in [Thread -> 0..MaxEvents] /\ last_look' \subseteq Thread
      /\ registered' \subseteq Thread /\ woken' \subseteq Thread /\ result' \in [Thread -> SUBSET Fd]
  BY <1>1 DEF EpollInv, TypeOK
<1> QED BY <1>1, <1>2, <1>4, <1>5, <1>6, Passing DEF CtlPc, WaitPc

\* A woken thread looks again.
LEMMA WakeKeeps ==
    ASSUME EpollInv, NEW t \in Thread, Wake(t)
    PROVE  EpollInv'
<1> DEFINE where == IF pc[t] = "sleeping" THEN "wait" ELSE pc[t]
<1>1. /\ t \in woken /\ woken' = woken \ {t} /\ Goto(t, where)
      /\ registered' = IF pc[t] = "sleeping" THEN registered \ {t} ELSE registered
      /\ UNCHANGED <<level, unseen, writer, listening, interests, events, queue, batch, requeue, ctl,
                     epoll_lock, max_events, last_look, result>>
  BY DEF Wake, fileVars, readyVars, waitVars, Goto, EpollInv, TypeOK
<1>2. where \in PC /\ where # "sleeping" BY DEF PC, EpollInv, TypeOK
<1>3. /\ pc' \in [Thread -> PC] /\ pc'[t] = where /\ \A u \in Thread : u # t => pc'[u] = pc[u]
  BY <1>1, <1>2, Went DEF EpollInv
<1>4. \A u \in Thread : /\ pc'[u] \in ListenPc <=> pc[u] \in ListenPc
                        /\ pc'[u] \in InsertPc <=> pc[u] \in InsertPc
                        /\ pc'[u] \in CtlPc <=> pc[u] \in CtlPc
                        /\ pc'[u] \in WaitPc <=> pc[u] \in WaitPc
                        /\ pc'[u] \in AsleepPc => pc[u] \in AsleepPc /\ u \in registered'
                        /\ pc'[u] = "examine" <=> pc[u] = "examine"
                        /\ pc'[u] \in {"insert_notify", "requeue_notify"} <=> pc[u] \in {"insert_notify", "requeue_notify"}
                        /\ pc'[u] = "sleeping" => pc[u] = "sleeping" /\ u # t
  BY <1>1, <1>3 DEF ListenPc, InsertPc, CtlPc, WaitPc, AsleepPc, EpollInv, CallsExact
<1>5. TypeOK' BY <1>1, <1>3 DEF EpollInv, TypeOK
<1>6. LockExact' BY <1>1, <1>4 DEF EpollInv, LockExact
<1>7. CallsExact' BY <1>1, <1>4 DEF EpollInv, CallsExact, AsleepPc
<1>8. NoSleeperOnEvents' BY <1>1, <1>4 DEF EpollInv, NoSleeperOnEvents, Notifying
<1> HIDE DEF where
<1> QED BY <1>1, <1>4, <1>5, <1>6, <1>7, <1>8, Quiet

-----------------------------------------------------------------------------
(* The watched files *)

\* A step of a writer, or a read, leaves the epoll's threads alone.
LEMMA Elsewhere ==
    ASSUME EpollInv, TypeOK', WritersExact', Looked', NoLostEvent', EventsQueued', NoSleeperOnEvents',
           UNCHANGED <<listening, interests, epoll_lock, pc, ctl, waitVars, registered>>
    PROVE  EpollInv'
  BY DEF EpollInv, LockExact, CallsExact, waitVars, Listened, Enabled, Joining

\* The file becomes ready; its writer is on the way to the listeners.
LEMMA MakeReadyKeeps ==
    ASSUME EpollInv, NEW w \in Writer, NEW f \in Fd, MakeReady(w, f)
    PROVE  EpollInv'
<1> DEFINE new == [pc |-> "changed", fd |-> f]
<1>0. new \in [pc : WriterPC, fd : Fd \cup {None}] /\ new.pc = "changed" /\ new.fd = f BY DEF WriterPC
<1>1. /\ writer[w].pc = "idle" /\ level' = level \cup {f} /\ unseen' = unseen \cup {f}
      /\ writer' = [writer EXCEPT ![w] = new]
      /\ UNCHANGED <<listening, interests, events, queue, epoll_lock, pc, ctl, max_events, last_look, batch,
                     result, requeue, registered, woken>>
  BY DEF MakeReady, readyVars, waitVars, sleepVars
<1> HIDE DEF new
<1>2. /\ writer' \in [Writer -> [pc : WriterPC, fd : Fd \cup {None}]] /\ writer'[w] = new
      /\ \A v \in Writer : v # w => writer'[v] = writer[v]
  BY <1>0, <1>1 DEF EpollInv, TypeOK
<1>3. TypeOK' BY <1>1, <1>2 DEF EpollInv, TypeOK
<1>4. WritersExact' BY <1>0, <1>2 DEF EpollInv, WritersExact
<1>5. OnItsWay(f)' BY <1>0, <1>2 DEF OnItsWay
<1>6. \A g : OnItsWay(g) => OnItsWay(g)' BY <1>1, <1>2 DEF OnItsWay
<1>7. \A g \in Fd : g # f => (Reportable(g)' <=> Reportable(g)) BY <1>1 DEF Reportable
<1>8. Looked' BY <1>1, <1>5, <1>6 DEF EpollInv, Looked
<1>9. NoLostEvent' BY <1>1, <1>5, <1>6, <1>7 DEF EpollInv, NoLostEvent, InBatch
<1>10. EventsQueued' BY <1>1 DEF EpollInv, EventsQueued
<1>11. NoSleeperOnEvents' BY <1>1, <1>2 DEF EpollInv, NoSleeperOnEvents, Notifying
<1> QED BY <1>1, <1>3, <1>4, <1>8, <1>9, <1>10, <1>11, Elsewhere DEF waitVars

\* A read takes the level away, and with it what could be reported.
LEMMA ConsumeKeeps ==
    ASSUME EpollInv, NEW t \in Thread, NEW f \in Fd, Consume(t, f)
    PROVE  EpollInv'
<1>1. /\ level' = level \ {f} /\ unseen' = unseen \ {f}
      /\ UNCHANGED <<writer, listening, interests, events, queue, epoll_lock, pc, ctl, max_events, last_look,
                     batch, result, requeue, registered, woken>>
  BY DEF Consume, readyVars, waitVars, sleepVars
<1>2. TypeOK' BY <1>1 DEF EpollInv, TypeOK
<1>3. WritersExact' /\ EventsQueued' BY <1>1 DEF EpollInv, WritersExact, EventsQueued
<1>4. \A g : OnItsWay(g)' <=> OnItsWay(g) BY <1>1 DEF OnItsWay
<1>5. \A g \in Fd : Reportable(g)' => Reportable(g) BY <1>1 DEF Reportable
<1>6. Looked' BY <1>1, <1>4 DEF EpollInv, Looked
<1>7. NoLostEvent' BY <1>1, <1>4, <1>5 DEF EpollInv, NoLostEvent, InBatch
<1>8. NoSleeperOnEvents' BY <1>1 DEF EpollInv, NoSleeperOnEvents, Notifying
<1> QED BY <1>1, <1>2, <1>3, <1>6, <1>7, <1>8, Elsewhere DEF waitVars

\* Nobody listens to a file: it has no interest, and no epoll_ctl has looked at it.
LEMMA CollectListenersKeeps ==
    ASSUME EpollInv, NEW w \in Writer, CollectListeners(w)
    PROVE  EpollInv'
<1> DEFINE f == writer[w].fd
           new == IF f \in listening THEN [writer[w] EXCEPT !.pc = "collected"] ELSE [pc |-> "idle", fd |-> None]
<1>0. writer[w] \in [pc : WriterPC, fd : Fd \cup {None}] /\ writer[w].pc = "changed" /\ f \in Fd
  BY DEF EpollInv, TypeOK, CollectListeners, WritersExact
<1>a. /\ new \in [pc : WriterPC, fd : Fd \cup {None}]
      /\ f \in listening => new.pc = "collected" /\ new.fd = f
      /\ f \notin listening => new.pc = "idle"
  BY <1>0 DEF WriterPC
<1>1. /\ writer' = [writer EXCEPT ![w] = new]
      /\ UNCHANGED <<level, unseen, listening, interests, events, queue, epoll_lock, pc, ctl, max_events, last_look,
                     batch, result, requeue, registered, woken>>
  BY DEF CollectListeners, readyVars, waitVars, sleepVars, EpollInv, TypeOK
<1> HIDE DEF new
<1>2. /\ writer' \in [Writer -> [pc : WriterPC, fd : Fd \cup {None}]] /\ writer'[w] = new
      /\ \A v \in Writer : v # w => writer'[v] = writer[v]
  BY <1>a, <1>1 DEF EpollInv, TypeOK
<1>3. TypeOK' BY <1>1, <1>2 DEF EpollInv, TypeOK
<1>4. WritersExact' BY <1>0, <1>a, <1>2 DEF EpollInv, WritersExact
<1>5. \A g \in Fd : g \in listening /\ OnItsWay(g) => OnItsWay(g)' BY <1>a, <1>1, <1>2 DEF OnItsWay
<1>6. \A g \in Fd : Reportable(g)' => Reportable(g) /\ g \in listening
  BY <1>1 DEF Reportable, EpollInv, Listened, Enabled
<1>7. Looked'
  <2> SUFFICES ASSUME NEW u \in Thread, pc[u] \in InsertPc, ctl[u].fd \in level
               PROVE  ctl[u].fd \in events \/ OnItsWay(ctl[u].fd)'
    BY <1>1 DEF Looked
  <2>1. ctl[u] \in [fd : Fd, mode : Mode] BY DEF EpollInv, CallsExact, InsertPc, CtlPc
  <2>2. ctl[u].fd \in listening BY <2>1 DEF EpollInv, Listened, Joining, InsertPc, ListenPc
  <2>3. ctl[u].fd \in events \/ OnItsWay(ctl[u].fd) BY DEF EpollInv, Looked
  <2> QED BY <2>1, <2>2, <2>3, <1>5, <1>1
<1>8. NoLostEvent' BY <1>1, <1>5, <1>6 DEF EpollInv, NoLostEvent, InBatch
<1>9. EventsQueued' BY <1>1 DEF EpollInv, EventsQueued
<1>10. NoSleeperOnEvents' BY <1>0, <1>1, <1>2 DEF EpollInv, NoSleeperOnEvents, Notifying
<1> QED BY <1>1, <1>3, <1>4, <1>7, <1>8, <1>9, <1>10, Elsewhere DEF waitVars

\* A descriptor that is marked is on the list and on the queue.
LEMMA Marked ==
    ASSUME EpollInv, NEW f \in Fd, MarkReady(f)
    PROVE  /\ events' \subseteq Fd /\ events' = events \cup {f} /\ queue' \in Seq(Fd)
           /\ EventsQueued'
<1>0. queue \in Seq(Fd) /\ Len(queue) \in Nat /\ events \subseteq Fd BY DEF EpollInv, TypeOK
<1>1. CASE f \in events
  BY <1>1, <1>0 DEF MarkReady, EpollInv, EventsQueued
<1>2. CASE f \notin events
  BY <1>2, <1>0 DEF MarkReady, EpollInv, EventsQueued
<1> QED BY <1>1, <1>2

\* The event is stored, and its writer is about to notify if it was the first.
LEMMA WakeTargetKeeps ==
    ASSUME EpollInv, NEW w \in Writer, WakeTarget(w)
    PROVE  EpollInv'
<1> DEFINE f == writer[w].fd
           new == IF f \notin events THEN [writer[w] EXCEPT !.pc = "notify"] ELSE [pc |-> "idle", fd |-> None]
<1>0. writer[w] \in [pc : WriterPC, fd : Fd \cup {None}] /\ writer[w].pc = "collected" /\ f \in Fd
  BY DEF EpollInv, TypeOK, WakeTarget, WritersExact
<1>a. /\ new \in [pc : WriterPC, fd : Fd \cup {None}]
      /\ f \notin events => new.pc = "notify" /\ new.fd = f
      /\ f \in events => new.pc = "idle"
  BY <1>0 DEF WriterPC
<1>1. /\ writer' = [writer EXCEPT ![w] = new] /\ MarkReady(f)
      /\ UNCHANGED <<level, unseen, listening, interests, epoll_lock, pc, ctl, max_events, last_look,
                     batch, result, requeue, registered, woken>>
  BY DEF WakeTarget, ShouldNotify, waitVars, sleepVars, EpollInv, TypeOK
<1>b. /\ events' \subseteq Fd /\ events' = events \cup {f} /\ queue' \in Seq(Fd) /\ EventsQueued'
  BY <1>0, <1>1, Marked
<1> HIDE DEF new
<1>2. /\ writer' \in [Writer -> [pc : WriterPC, fd : Fd \cup {None}]] /\ writer'[w] = new
      /\ \A v \in Writer : v # w => writer'[v] = writer[v]
  BY <1>a, <1>1 DEF EpollInv, TypeOK
<1>3. TypeOK' BY <1>1, <1>2, <1>b DEF EpollInv, TypeOK
<1>4. WritersExact' BY <1>0, <1>a, <1>2 DEF EpollInv, WritersExact
<1>5. \A g : OnItsWay(g) => OnItsWay(g)' \/ g \in events' BY <1>b, <1>2 DEF OnItsWay
<1>6. \A g : Reportable(g)' => Reportable(g) BY <1>1 DEF Reportable
<1>7. Looked' BY <1>1, <1>5, <1>b DEF EpollInv, Looked
<1>8. NoLostEvent' BY <1>1, <1>5, <1>6, <1>b DEF EpollInv, NoLostEvent, InBatch
<1>9. NoSleeperOnEvents'
  BY <1>a, <1>2, <1>0, <1>1, <1>b DEF Notifying, NoSleeperOnEvents, EpollInv
<1> QED BY <1>1, <1>3, <1>4, <1>7, <1>8, <1>9, <1>b, Elsewhere DEF waitVars

\* The sleepers are woken.
LEMMA NotifyEpollKeeps ==
    ASSUME EpollInv, NEW w \in Writer, NotifyEpoll(w)
    PROVE  EpollInv'
<1> DEFINE new == [pc |-> "idle", fd |-> None]
<1>0. new \in [pc : WriterPC, fd : Fd \cup {None}] /\ new.pc = "idle" BY DEF WriterPC
<1>1. /\ writer' = [writer EXCEPT ![w] = new] /\ woken' = woken \cup registered /\ writer[w].pc = "notify"
      /\ UNCHANGED <<level, unseen, listening, interests, events, queue, epoll_lock, pc, ctl, max_events, last_look,
                     batch, result, requeue, registered>>
  BY DEF NotifyEpoll, NotifyWaiters, readyVars, waitVars
<1> HIDE DEF new
<1>2. /\ writer' \in [Writer -> [pc : WriterPC, fd : Fd \cup {None}]] /\ writer'[w] = new
      /\ \A v \in Writer : v # w => writer'[v] = writer[v]
  BY <1>0, <1>1 DEF EpollInv, TypeOK
<1>3. TypeOK' BY <1>1, <1>2 DEF EpollInv, TypeOK
<1>4. WritersExact' BY <1>0, <1>2 DEF EpollInv, WritersExact
<1>5. \A g : OnItsWay(g) => OnItsWay(g)' BY <1>1, <1>2 DEF OnItsWay
<1>6. \A g : Reportable(g)' => Reportable(g) BY <1>1 DEF Reportable
<1>7. Looked' BY <1>1, <1>5 DEF EpollInv, Looked
<1>8. NoLostEvent' BY <1>1, <1>5, <1>6 DEF EpollInv, NoLostEvent, InBatch
<1>9. NoSleeperOnEvents' BY <1>1 DEF EpollInv, CallsExact, AsleepPc, NoSleeperOnEvents
<1>10. EventsQueued' BY <1>1 DEF EpollInv, EventsQueued
<1> QED BY <1>1, <1>3, <1>4, <1>7, <1>8, <1>9, <1>10, Elsewhere DEF waitVars

-----------------------------------------------------------------------------
(* epoll_ctl *)

\* The lock excludes.
LEMMA Alone ==
    ASSUME EpollInv
    PROVE  /\ epoll_lock = None => \A u \in Thread : pc[u] \notin CtlPc \cup WaitPc
           /\ \A t \in Thread : pc[t] \in CtlPc \cup WaitPc =>
                 epoll_lock = t /\ \A u \in Thread : u # t => pc[u] \notin CtlPc \cup WaitPc
BY NoneAssumption DEF EpollInv, LockExact

\* The interest goes, and its listener and its event with it.
LEMMA InterestGone ==
    ASSUME EpollInv, NEW f \in Fd, epoll_lock = None, interests' = Without(f),
           listening' = Unlistened(f), events' = events \ {f},
           UNCHANGED <<level, unseen, writer, queue, max_events, last_look, batch, result, requeue, registered, woken>>,
           pc' \in [Thread -> PC], ctl' \in [Thread -> [fd : Fd, mode : Mode] \cup {None}],
           epoll_lock' \in Thread \cup {None},
           \A u \in Thread : pc'[u] = pc[u] \/ (pc[u] = "user" /\ pc'[u] = "register" /\ ctl'[u] \in [fd : Fd, mode : Mode]
                                               /\ ctl'[u].fd = f),
           LockExact'
    PROVE  EpollInv'
<1>0. \A u \in Thread : pc[u] \notin CtlPc \cup WaitPc BY Alone
<1>1. /\ DOMAIN interests' = DOMAIN interests \ {f}
      /\ \A g \in DOMAIN interests \ {f} : interests'[g] = interests[g]
      /\ interests' \in [DOMAIN interests' -> Interest] /\ DOMAIN interests' \subseteq Fd
  BY DEF Without, EpollInv, TypeOK
<1>2. TypeOK' BY <1>1 DEF EpollInv, TypeOK, Unlistened
<1>3. \A g : /\ Enabled(g)' <=> Enabled(g) /\ g # f
             /\ Reportable(g)' => Reportable(g) /\ g # f
  BY <1>1 DEF Enabled, Reportable
<1>4. CallsExact'
  BY <1>0, <1>1 DEF CallsExact, EpollInv, AsleepPc
<1>5. \A u \in Thread : pc[u] \notin ListenPc /\ pc'[u] \notin ListenPc BY <1>0 DEF CtlPc, ListenPc
<1>6. \A g : ~Joining(g) /\ ~Joining(g)' BY <1>5 DEF Joining
<1>7. Listened' BY <1>3, <1>6 DEF EpollInv, Listened, Unlistened
<1>8. Looked' BY <1>5 DEF Looked, InsertPc, ListenPc
<1>9. \A g : OnItsWay(g)' <=> OnItsWay(g) BY DEF OnItsWay
<1>10. NoLostEvent' BY <1>3, <1>9 DEF EpollInv, NoLostEvent, InBatch
<1>11. EventsQueued' BY DEF EpollInv, EventsQueued
<1>12. \A u \in Thread : /\ pc'[u] = "sleeping" => pc[u] = "sleeping"
                         /\ pc[u] \notin {"insert_notify", "requeue_notify"}
  BY <1>0 DEF CtlPc, WaitPc
<1>13. NoSleeperOnEvents' BY <1>12 DEF EpollInv, NoSleeperOnEvents, Notifying
<1>14. WritersExact' BY DEF EpollInv, WritersExact
<1> QED BY <1>2, <1>4, <1>7, <1>8, <1>10, <1>11, <1>13, <1>14 DEF EpollInv

\* epoll_ctl(MOD), epoll_ctl(DEL).
LEMMA CtlModKeeps ==
    ASSUME EpollInv, NEW t \in Thread, NEW f \in Fd, NEW mode \in Mode, CtlMod(t, f, mode)
    PROVE  EpollInv'
<1> DEFINE call == [fd |-> f, mode |-> mode]
<1>0. call \in [fd : Fd, mode : Mode] /\ call.fd = f OBVIOUS
<1>1. /\ pc[t] = "user" /\ epoll_lock = None /\ epoll_lock' = t
      /\ interests' = Without(f) /\ listening' = Unlistened(f) /\ events' = events \ {f}
      /\ ctl' = [ctl EXCEPT ![t] = call] /\ Goto(t, "register")
      /\ UNCHANGED <<level, unseen, writer, queue, max_events, last_look, batch, result, requeue, registered, woken>>
  BY DEF CtlMod, fileVars, waitVars, sleepVars
<1> HIDE DEF call
<1>2. /\ pc' \in [Thread -> PC] /\ pc'[t] = "register" /\ \A u \in Thread : u # t => pc'[u] = pc[u]
  BY <1>1, Went DEF EpollInv, PC
<1>3. /\ ctl' \in [Thread -> [fd : Fd, mode : Mode] \cup {None}] /\ ctl'[t] = call
  BY <1>0, <1>1 DEF EpollInv, TypeOK
<1>4. LockExact' BY <1>1, <1>2, NoneAssumption DEF EpollInv, LockExact, CtlPc, WaitPc
<1>5. \A u \in Thread : pc'[u] = pc[u] \/ (pc[u] = "user" /\ pc'[u] = "register" /\ ctl'[u] \in [fd : Fd, mode : Mode]
                                             /\ ctl'[u].fd = f)
  BY <1>0, <1>1, <1>2, <1>3
<1> QED BY <1>1, <1>2, <1>3, <1>4, <1>5, InterestGone

LEMMA CtlDelKeeps ==
    ASSUME EpollInv, NEW t \in Thread, NEW f \in Fd, CtlDel(t, f)
    PROVE  EpollInv'
  BY InterestGone DEF CtlDel, fileVars, waitVars, sleepVars, EpollInv, TypeOK, LockExact

\* A step of epoll_ctl between the listener and the interest.
LEMMA CtlGoesOn ==
    ASSUME EpollInv, NEW t \in Thread, NEW where \in ListenPc, pc[t] \in CtlPc, Goto(t, where),
           UNCHANGED <<level, unseen, writer, interests, epoll_lock, ctl, max_events, last_look, batch,
                       result, requeue, registered, woken>>,
           listening' = listening \cup {ctl[t].fd},
           events \subseteq events', events' \subseteq Fd, queue' \in Seq(Fd), EventsQueued', NoSleeperOnEvents',
           where \in InsertPc => ctl[t].fd \notin level \/ ctl[t].fd \in events' \/ OnItsWay(ctl[t].fd)
    PROVE  EpollInv'
<1>0. where \in PC /\ where \in CtlPc /\ where \notin AsleepPc /\ where # "examine" /\ pc[t] \notin WaitPc /\ pc[t] # "examine"
  BY DEF ListenPc, PC, CtlPc, AsleepPc, WaitPc
<1>1. /\ pc' \in [Thread -> PC] /\ pc'[t] = where /\ \A u \in Thread : u # t => pc'[u] = pc[u]
  BY <1>0, Went DEF EpollInv
<1>2. \A u \in Thread : u # t => pc[u] \notin CtlPc \cup WaitPc BY Alone
<1>3. ctl[t] \in [fd : Fd, mode : Mode] /\ ctl[t].fd \in Fd BY DEF EpollInv, CallsExact
<1>4. TypeOK' BY <1>1, <1>3 DEF EpollInv, TypeOK
<1>5. LockExact' BY <1>0, <1>1 DEF EpollInv, LockExact
<1>6. CallsExact' BY <1>0, <1>1 DEF EpollInv, CallsExact
<1>7. WritersExact' BY DEF EpollInv, WritersExact
<1>8. \A g : Joining(g)' <=> g = ctl[t].fd BY <1>1, <1>2 DEF Joining, CtlPc, ListenPc
<1>9. \A g : Joining(g) => g = ctl[t].fd BY <1>2 DEF Joining, CtlPc, ListenPc
<1>10. \A g : (Enabled(g)' <=> Enabled(g)) /\ (Reportable(g)' <=> Reportable(g)) BY DEF Enabled, Reportable
<1>11. Listened' BY <1>3, <1>8, <1>9, <1>10 DEF EpollInv, Listened
<1>12. \A g : OnItsWay(g)' <=> OnItsWay(g) BY DEF OnItsWay
<1>13. Looked'
  BY <1>1, <1>2, <1>12 DEF InsertPc, CtlPc, Looked
<1>14. NoLostEvent' BY <1>10, <1>12 DEF EpollInv, NoLostEvent, InBatch
<1> QED BY <1>4, <1>5, <1>6, <1>7, <1>11, <1>13, <1>14 DEF EpollInv

LEMMA CtlRegisterKeeps ==
    ASSUME EpollInv, NEW t \in Thread, CtlRegister(t)
    PROVE  EpollInv'
<1>1. /\ pc[t] = "register" /\ Goto(t, "poll") /\ listening' = listening \cup {ctl[t].fd}
      /\ UNCHANGED <<level, unseen, writer, interests, events, queue, epoll_lock, ctl, max_events, last_look, batch,
                     result, requeue, registered, woken>>
  BY DEF CtlRegister, fileVars, readyVars, waitVars, sleepVars
<1>2. "poll" \in ListenPc /\ "poll" \in PC /\ "poll" \notin InsertPc /\ pc[t] \in CtlPc
  BY <1>1 DEF ListenPc, PC, InsertPc, CtlPc
<1>3. /\ pc'[t] = "poll" /\ \A u \in Thread : u # t => pc'[u] = pc[u] BY <1>1, <1>2, Went DEF EpollInv
<1>4. NoSleeperOnEvents' BY <1>1, <1>3 DEF EpollInv, NoSleeperOnEvents, Notifying
<1>5. events' \subseteq Fd /\ queue' \in Seq(Fd) /\ EventsQueued' BY <1>1 DEF EpollInv, TypeOK, EventsQueued
<1> QED BY <1>1, <1>2, <1>4, <1>5, CtlGoesOn

LEMMA CtlPollKeeps ==
    ASSUME EpollInv, NEW t \in Thread, CtlPoll(t)
    PROVE  EpollInv'
<1> DEFINE where == IF ctl[t].fd \in level THEN "mark" ELSE "insert"
<1>1. /\ pc[t] = "poll" /\ Goto(t, where)
      /\ UNCHANGED <<level, unseen, writer, listening, interests, events, queue, epoll_lock, ctl, max_events, last_look,
                     batch, result, requeue, registered, woken>>
  BY DEF CtlPoll, fileVars, readyVars, waitVars, sleepVars
<1>2. /\ where \in ListenPc /\ where \in PC /\ pc[t] \in CtlPc /\ where \in {"mark", "insert"}
      /\ where \in InsertPc => ctl[t].fd \notin level
  BY <1>1 DEF ListenPc, PC, InsertPc, CtlPc
<1> HIDE DEF where
<1>3. /\ pc'[t] = where /\ \A u \in Thread : u # t => pc'[u] = pc[u] BY <1>1, <1>2, Went DEF EpollInv
<1>4. NoSleeperOnEvents' BY <1>1, <1>2, <1>3 DEF EpollInv, NoSleeperOnEvents, Notifying
<1>5. events' \subseteq Fd /\ queue' \in Seq(Fd) /\ EventsQueued' BY <1>1 DEF EpollInv, TypeOK, EventsQueued
<1>6. listening' = listening \cup {ctl[t].fd}
  BY <1>2, <1>1 DEF EpollInv, CallsExact, Listened, Joining, ListenPc
<1> QED BY <1>1, <1>2, <1>4, <1>5, <1>6, CtlGoesOn

LEMMA CtlMarkKeeps ==
    ASSUME EpollInv, NEW t \in Thread, CtlMark(t)
    PROVE  EpollInv'
<1> DEFINE f == ctl[t].fd
           where == IF f \notin events THEN "insert_notify" ELSE "insert"
<1>1. /\ pc[t] = "mark" /\ Goto(t, where) /\ MarkReady(f)
      /\ UNCHANGED <<level, unseen, writer, listening, interests, epoll_lock, ctl, max_events, last_look,
                     batch, result, requeue, registered, woken>>
  BY DEF CtlMark, ShouldNotify, fileVars, waitVars, sleepVars
<1>2. /\ where \in ListenPc /\ where \in PC /\ pc[t] \in CtlPc
      /\ where = (IF f \notin events THEN "insert_notify" ELSE "insert")
  BY <1>1 DEF ListenPc, PC, CtlPc
<1> HIDE DEF where
<1>3. /\ pc'[t] = where /\ \A u \in Thread : u # t => pc'[u] = pc[u] BY <1>1, <1>2, Went DEF EpollInv
<1>4. f \in Fd BY <1>2 DEF EpollInv, CallsExact
<1>5. /\ events' \subseteq Fd /\ events' = events \cup {f} /\ queue' \in Seq(Fd) /\ EventsQueued'
  BY <1>1, <1>4, Marked
<1>6. NoSleeperOnEvents'
  BY <1>2, <1>3, <1>1, <1>5 DEF Notifying, NoSleeperOnEvents, EpollInv
<1>7. listening' = listening \cup {f}
  BY <1>1, <1>4 DEF EpollInv, Listened, Joining, ListenPc
<1> QED BY <1>1, <1>2, <1>5, <1>6, <1>7, CtlGoesOn

LEMMA CtlInsertKeeps ==
    ASSUME EpollInv, NEW t \in Thread, CtlInsert(t)
    PROVE  EpollInv'
<1> DEFINE f == ctl[t].fd
           new == [mode |-> ctl[t].mode, disabled |-> FALSE]
<1>0. /\ pc[t] \in InsertPc /\ pc[t] \in CtlPc /\ ctl[t] \in [fd : Fd, mode : Mode] /\ f \in Fd
      /\ ctl[t].mode \in Mode /\ f \notin DOMAIN interests
  BY DEF CtlInsert, InsertPc, CtlPc, EpollInv, CallsExact
<1>1. /\ woken' = (IF pc[t] = "insert_notify" THEN woken \cup registered ELSE woken)
      /\ interests' = [g \in DOMAIN interests \cup {f} |-> IF g = f THEN new ELSE interests[g]]
      /\ ctl' = [ctl EXCEPT ![t] = None] /\ epoll_lock' = None /\ Goto(t, "user")
      /\ UNCHANGED <<level, unseen, writer, listening, events, queue, max_events, last_look, batch, result,
                     requeue, registered>>
  BY DEF CtlInsert, NotifyWaiters, fileVars, readyVars, waitVars
<1>2. new \in Interest /\ ~new.disabled
  BY <1>0 DEF Interest
<1> HIDE DEF new
<1>3. /\ DOMAIN interests' = DOMAIN interests \cup {f} /\ interests'[f] = new
      /\ \A g \in DOMAIN interests : interests'[g] = interests[g]
      /\ interests' \in [DOMAIN interests' -> Interest] /\ DOMAIN interests' \subseteq Fd
  BY <1>0, <1>1, <1>2 DEF EpollInv, TypeOK
<1>4. /\ pc' \in [Thread -> PC] /\ pc'[t] = "user" /\ \A u \in Thread : u # t => pc'[u] = pc[u]
  BY <1>1, Went DEF EpollInv, PC
<1>5. \A u \in Thread : u # t => pc[u] \notin CtlPc \cup WaitPc BY <1>0, Alone
<1>6. ctl' \in [Thread -> [fd : Fd, mode : Mode] \cup {None}] BY <1>1 DEF EpollInv, TypeOK
<1>7. TypeOK' BY <1>1, <1>3, <1>4, <1>6 DEF EpollInv, TypeOK
<1>8. LockExact' BY <1>1, <1>4, <1>5, NoneAssumption DEF LockExact, CtlPc, WaitPc
<1>9. CallsExact'
  BY <1>0, <1>1, <1>4, <1>5 DEF EpollInv, CallsExact, CtlPc, AsleepPc, InsertPc
<1>10. WritersExact' BY <1>1 DEF EpollInv, WritersExact
<1>11. /\ \A g : Joining(g) <=> g = f
       /\ \A g : ~Joining(g)'
  BY <1>0, <1>4, <1>5 DEF Joining, CtlPc, ListenPc, InsertPc
<1>12. /\ \A g : Enabled(g)' <=> Enabled(g) \/ g = f
       /\ \A g : Reportable(g)' => Reportable(g) \/ (g = f /\ f \in level)
  BY <1>0, <1>1, <1>2, <1>3 DEF Enabled, Reportable
<1>13. Listened' BY <1>1, <1>11, <1>12 DEF EpollInv, Listened
<1>14. Looked' BY <1>4, <1>5 DEF Looked, InsertPc, CtlPc
<1>15. \A g : OnItsWay(g)' <=> OnItsWay(g) BY <1>1 DEF OnItsWay
<1>16. f \in level => f \in events \/ OnItsWay(f) BY <1>0 DEF EpollInv, Looked
<1>17. NoLostEvent' BY <1>1, <1>12, <1>15, <1>16 DEF EpollInv, NoLostEvent, InBatch
<1>18. EventsQueued' BY <1>1 DEF EpollInv, EventsQueued
<1>19. NoSleeperOnEvents'
  BY <1>4, <1>1, <1>0 DEF EpollInv, CallsExact, AsleepPc, NoSleeperOnEvents, Notifying, InsertPc
<1> QED BY <1>7, <1>8, <1>9, <1>10, <1>13, <1>14, <1>17, <1>18, <1>19 DEF EpollInv

-----------------------------------------------------------------------------
(* epoll_wait *)

\* A step inside EpollInstance::wait: the interests but for what is disabled, and
\* the listeners with them.
LEMMA WaitGoesOn ==
    ASSUME EpollInv, NEW t \in Thread, NEW where \in WaitPc, pc[t] \in WaitPc, Goto(t, where),
           UNCHANGED <<level, writer, epoll_lock, ctl, max_events, last_look, registered, woken>>,
           unseen' \subseteq level, interests' \in [DOMAIN interests -> Interest], DOMAIN interests' = DOMAIN interests,
           listening' \subseteq Fd, events' \subseteq Fd, queue' \in Seq(Fd),
           batch' \in [Thread -> Seq(Fd)], result' \in [Thread -> SUBSET Fd], requeue' \in [Thread -> SUBSET Fd],
           \A u \in Thread : u # t => batch'[u] = batch[u],
           batch'[t] # <<>> <=> where = "examine",
           \A f \in Fd : f \in listening' <=> Enabled(f)',
           NoLostEvent', EventsQueued', NoSleeperOnEvents'
    PROVE  EpollInv'
<1>0. where \in PC /\ where \notin CtlPc \cup AsleepPc /\ pc[t] \notin CtlPc BY DEF PC, WaitPc, CtlPc, AsleepPc
<1>1. /\ pc' \in [Thread -> PC] /\ pc'[t] = where /\ \A u \in Thread : u # t => pc'[u] = pc[u]
  BY <1>0, Went DEF EpollInv
<1>2. \A u \in Thread : u # t => pc[u] \notin CtlPc \cup WaitPc BY Alone
<1>3. TypeOK' BY <1>1 DEF EpollInv, TypeOK
<1>4. LockExact' BY <1>1 DEF EpollInv, LockExact
<1>5. CallsExact'
  BY <1>0, <1>1 DEF CallsExact, EpollInv
<1>6. WritersExact' BY DEF EpollInv, WritersExact
<1>7. \A u \in Thread : pc'[u] \notin CtlPc BY <1>0, <1>1, <1>2
<1>8. \A g : ~Joining(g)' BY <1>7 DEF Joining, CtlPc, ListenPc
<1>9. Listened' BY <1>8 DEF Listened
<1>10. Looked' BY <1>7 DEF Looked, CtlPc, InsertPc
<1> QED BY <1>3, <1>4, <1>5, <1>6, <1>9, <1>10 DEF EpollInv

\* Inside EpollInstance::wait nobody is in epoll_ctl.
LEMMA ListenersNow ==
    ASSUME EpollInv, NEW t \in Thread, pc[t] \in WaitPc
    PROVE  \A f \in Fd : f \in listening <=> Enabled(f)
  BY Alone DEF WaitPc, ListenPc, CtlPc, EpollInv, Listened, Joining

LEMMA WaitTakeKeeps ==
    ASSUME EpollInv, NEW t \in Thread, WaitTake(t)
    PROVE  EpollInv'
<1>a. PICK n : n = max_events[t] - Cardinality(result[t]) OBVIOUS
<1>b. PICK taken : taken = Taken(n) OBVIOUS
<1>c. PICK p : p = Popped(n) OBVIOUS
<1> DEFINE gone == {taken[i] : i \in 1..Len(taken)}
           where == IF taken = <<>> THEN "requeue" ELSE "examine"
<1>1. /\ pc[t] = "take" /\ batch' = [batch EXCEPT ![t] = taken]
      /\ queue' = SubSeq(queue, p + 1, Len(queue)) /\ events' = events \ gone
      /\ Goto(t, where)
      /\ UNCHANGED <<level, unseen, writer, listening, interests, epoll_lock, ctl, max_events, last_look, result,
                     requeue, registered, woken>>
  BY <1>a, <1>b, <1>c DEF WaitTake, fileVars, sleepVars
<1>2. /\ taken \in Seq(Fd)
      /\ \A i \in 1..p : queue[i] \in events => \E m \in 1..Len(taken) : taken[m] = queue[i]
  BY <1>b, <1>c, TakenFact DEF EpollInv
<1>3. p \in 0..Len(queue) /\ queue \in Seq(Fd) /\ Len(queue) \in Nat BY <1>c, PoppedFact DEF EpollInv, TypeOK
<1>4. where \in WaitPc /\ where \in PC /\ where \in {"requeue", "examine"} /\ (taken # <<>> <=> where = "examine")
  BY DEF WaitPc, PC
<1> HIDE DEF where
<1>5. /\ pc'[t] = where /\ \A u \in Thread : u # t => pc'[u] = pc[u] BY <1>1, <1>4, Went DEF EpollInv
<1>6. /\ batch' \in [Thread -> Seq(Fd)] /\ batch'[t] = taken /\ \A u \in Thread : u # t => batch'[u] = batch[u]
  BY <1>1, <1>2 DEF EpollInv, TypeOK
<1>7. batch[t] = <<>> BY <1>1 DEF EpollInv, CallsExact
<1>8. \A f : gone = gone /\ (f \in gone => InBatch(t, f)') BY <1>6 DEF InBatch
<1>9. NoLostEvent'
  <2>1. \A g : (Reportable(g)' <=> Reportable(g)) /\ (OnItsWay(g)' <=> OnItsWay(g)) BY <1>1 DEF Reportable, OnItsWay
  <2> SUFFICES ASSUME NEW g \in Fd, Reportable(g)
               PROVE  (g \in events' \/ OnItsWay(g) \/ \E u \in Thread : InBatch(u, g)' \/ g \in requeue'[u])
    BY <2>1 DEF NoLostEvent
  <2>2. g \in events \/ OnItsWay(g) \/ \E u \in Thread : InBatch(u, g) \/ g \in requeue[u]
    BY DEF EpollInv, NoLostEvent
  <2>3. CASE g \in events
    <3>1. g \in gone \/ g \in events' BY <2>3, <1>1
    <3> HIDE DEF gone
    <3> QED BY <3>1, <1>8
  <2>4. CASE OnItsWay(g) BY <2>4
  <2>5. ASSUME NEW u \in Thread, InBatch(u, g) PROVE InBatch(u, g)'
    BY <2>5, <1>7, <1>6 DEF InBatch
  <2> HIDE DEF gone
  <2> QED BY <2>2, <2>3, <2>4, <2>5, <1>1
<1>10. /\ queue' \in Seq(Fd) /\ Len(queue') = Len(queue) - p
       /\ \A i \in 1..(Len(queue) - p) : queue'[i] = queue[p + i]
  BY <1>1, <1>3
<1>11. EventsQueued'
  <2> SUFFICES ASSUME NEW g \in events, g \notin gone PROVE \E i \in 1..Len(queue') : queue'[i] = g
    BY <1>1 DEF EventsQueued
  <2>1. PICK i \in 1..Len(queue) : queue[i] = g BY DEF EpollInv, EventsQueued
  <2>2. i \notin 1..p BY <2>1, <1>2
  <2>3. i - p \in 1..Len(queue') /\ p + (i - p) = i BY <2>1, <2>2, <1>3, <1>10
  <2> QED BY <2>1, <2>3, <1>10
<1>12. NoSleeperOnEvents'
  BY <1>1, <1>4, <1>5 DEF Notifying, EpollInv, NoSleeperOnEvents
<1>13. \A f \in Fd : f \in listening' <=> Enabled(f)'
  BY <1>1, ListenersNow DEF WaitPc, Enabled
<1>14. /\ unseen' \subseteq level /\ interests' \in [DOMAIN interests -> Interest] /\ DOMAIN interests' = DOMAIN interests
       /\ listening' \subseteq Fd /\ events' \subseteq Fd
       /\ result' \in [Thread -> SUBSET Fd] /\ requeue' \in [Thread -> SUBSET Fd]
  BY <1>1 DEF EpollInv, TypeOK
<1>15. pc[t] \in WaitPc BY <1>1 DEF WaitPc
<1> HIDE DEF gone
<1> QED BY <1>1, <1>4, <1>6, <1>9, <1>10, <1>11, <1>12, <1>13, <1>14, <1>15, WaitGoesOn

LEMMA WaitRequeueKeeps ==
    ASSUME EpollInv, NEW t \in Thread, NEW f \in Fd, WaitRequeue(t, f)
    PROVE  EpollInv'
<1> DEFINE where == IF f \notin events THEN "requeue_notify" ELSE "requeue"
<1>1. /\ pc[t] = "requeue" /\ MarkReady(f) /\ requeue' = [requeue EXCEPT ![t] = @ \ {f}]
      /\ Goto(t, where)
      /\ UNCHANGED <<level, unseen, writer, listening, interests, epoll_lock, ctl, max_events, last_look, batch,
                     result, registered, woken>>
  BY DEF WaitRequeue, ShouldNotify, fileVars, sleepVars
<1>2. /\ where \in WaitPc /\ where \in PC /\ where # "examine"
      /\ where = (IF f \notin events THEN "requeue_notify" ELSE "requeue")
  BY DEF WaitPc, PC
<1> HIDE DEF where
<1>3. /\ pc'[t] = where /\ \A u \in Thread : u # t => pc'[u] = pc[u] BY <1>1, <1>2, Went DEF EpollInv
<1>4. /\ events' \subseteq Fd /\ events' = events \cup {f} /\ queue' \in Seq(Fd) /\ EventsQueued'
  BY <1>1, Marked
<1>5. /\ requeue' \in [Thread -> SUBSET Fd] /\ requeue'[t] = requeue[t] \ {f}
      /\ \A u \in Thread : u # t => requeue'[u] = requeue[u]
  BY <1>1 DEF EpollInv, TypeOK
<1>6. NoLostEvent'
  BY <1>1, <1>4, <1>5 DEF Reportable, OnItsWay, NoLostEvent, EpollInv, InBatch
<1>7. NoSleeperOnEvents'
  BY <1>2, <1>3, <1>1, <1>4 DEF Notifying, NoSleeperOnEvents, EpollInv
<1>8. \A g \in Fd : g \in listening' <=> Enabled(g)'
  BY <1>1, ListenersNow DEF WaitPc, Enabled
<1>9. /\ unseen' \subseteq level /\ interests' \in [DOMAIN interests -> Interest] /\ DOMAIN interests' = DOMAIN interests
      /\ listening' \subseteq Fd /\ result' \in [Thread -> SUBSET Fd]
      /\ batch' \in [Thread -> Seq(Fd)] /\ batch'[t] = <<>> /\ \A u \in Thread : batch'[u] = batch[u]
  BY <1>1 DEF EpollInv, TypeOK, CallsExact
<1>10. pc[t] \in WaitPc BY <1>1 DEF WaitPc
<1> QED BY <1>1, <1>2, <1>4, <1>5, <1>6, <1>7, <1>8, <1>9, <1>10, WaitGoesOn

\* A sequence is empty when it has no length.
LEMMA EmptyIffNoLength == \A S : \A q \in Seq(S) : Len(q) \in Nat /\ (q = <<>> <=> Len(q) = 0)
OBVIOUS

\* One descriptor of the batch is examined: its event is reported, put back later
\* or was stale.
LEMMA WaitExamineKeeps ==
    ASSUME EpollInv, NEW t \in Thread, WaitExamine(t)
    PROVE  EpollInv'
<1>0. PICK f : f = Head(batch[t]) OBVIOUS
<1> DEFINE enabled == f \in DOMAIN interests /\ ~interests[f].disabled
           reported == enabled /\ f \in level
           oneshot == reported /\ interests[f].mode = "ONESHOT"
           result1 == IF reported THEN result[t] \cup {f} ELSE result[t]
           where == IF Len(batch[t]) > 1 THEN "examine"
                    ELSE IF Cardinality(result1) < max_events[t] THEN "take" ELSE "requeue"
           rest == Tail(batch[t])
<1>1. /\ pc[t] = "examine" /\ batch' = [batch EXCEPT ![t] = rest] /\ result' = [result EXCEPT ![t] = result1]
      /\ unseen' = (IF enabled THEN unseen \ {f} ELSE unseen)
      /\ requeue' = (IF reported /\ interests[f].mode = "LT" THEN [requeue EXCEPT ![t] = @ \cup {f}] ELSE requeue)
      /\ interests' = (IF oneshot THEN [interests EXCEPT ![f].disabled = TRUE] ELSE interests)
      /\ listening' = (IF oneshot THEN listening \ {f} ELSE listening)
      /\ Goto(t, where)
      /\ UNCHANGED <<level, writer, events, queue, epoll_lock, ctl, max_events, last_look, registered, woken>>
  BY <1>0 DEF WaitExamine, Requeues, Unlistened, readyVars, sleepVars
<1>2. batch[t] \in Seq(Fd) /\ batch[t] # <<>> BY <1>1 DEF EpollInv, TypeOK, CallsExact
<1>3. /\ f \in Fd /\ rest \in Seq(Fd) /\ Len(batch[t]) \in Nat /\ Len(rest) = Len(batch[t]) - 1 /\ f = batch[t][1]
      /\ \A i \in 1..Len(rest) : rest[i] = batch[t][i + 1]
  BY <1>2, <1>0
<1>4. /\ where \in WaitPc /\ where \in PC /\ where \in {"examine", "take", "requeue"}
      /\ where = "examine" <=> Len(batch[t]) > 1
  BY DEF WaitPc, PC
<1>5. rest # <<>> <=> where = "examine"
  <2>1. Len(rest) \in Nat /\ (rest = <<>> <=> Len(rest) = 0) BY <1>3, EmptyIffNoLength
  <2>2. PICK n \in Nat : n = Len(batch[t]) BY <1>3
  <2>3. Len(rest) = n - 1 BY <2>2, <1>3
  <2>4. PICK m \in Nat : m = Len(rest) BY <2>1
  <2>5. m = n - 1 BY <2>3, <2>4
  <2>6. m = 0 <=> ~(n > 1) BY <2>5
  <2> HIDE DEF rest, where
  <2> QED BY <2>1, <2>2, <2>4, <2>6, <1>4
<1>a. result1 \in SUBSET Fd BY <1>3 DEF EpollInv, TypeOK
<1> HIDE DEF where, result1
<1>6. /\ pc'[t] = where /\ \A u \in Thread : u # t => pc'[u] = pc[u] BY <1>1, <1>4, Went DEF EpollInv
<1> HIDE DEF rest
<1>7. /\ batch' \in [Thread -> Seq(Fd)] /\ batch'[t] = rest /\ \A u \in Thread : u # t => batch'[u] = batch[u]
  BY <1>1, <1>3 DEF EpollInv, TypeOK
<1>8. \A g : InBatch(t, g) => g = f \/ InBatch(t, g)'
  <2> SUFFICES ASSUME NEW g, InBatch(t, g), g # f PROVE \E i \in 1..Len(rest) : rest[i] = g
    BY <1>7 DEF InBatch
  <2>1. PICK i \in 1..Len(batch[t]) : batch[t][i] = g BY DEF InBatch
  <2>2. i # 1 BY <2>1, <1>3
  <2>3. i - 1 \in 1..Len(rest) /\ (i - 1) + 1 = i BY <2>1, <2>2, <1>3
  <2> QED BY <2>1, <2>3, <1>3
<1>9. \A u \in Thread : \A g : u # t /\ InBatch(u, g) => InBatch(u, g)' BY <1>7 DEF InBatch
<1>10. /\ requeue' \in [Thread -> SUBSET Fd] /\ \A u \in Thread : requeue[u] \subseteq requeue'[u]
       /\ reported /\ interests[f].mode = "LT" => f \in requeue'[t]
  BY <1>1, <1>3 DEF EpollInv, TypeOK
<1>11. /\ DOMAIN interests' = DOMAIN interests
       /\ \A g \in DOMAIN interests : g # f => interests'[g] = interests[g]
       /\ \A g \in DOMAIN interests : interests'[g].mode = interests[g].mode
       /\ ~oneshot => interests' = interests
       /\ interests' \in [DOMAIN interests -> Interest]
       /\ oneshot => interests'[f].disabled
  <2>1. interests \in [DOMAIN interests -> Interest] BY DEF EpollInv, TypeOK
  <2>2. CASE oneshot
    <3>1. f \in DOMAIN interests /\ interests[f] \in Interest BY <2>1, <2>2
    <3>2. [interests[f] EXCEPT !.disabled = TRUE] \in Interest BY <3>1 DEF Interest
    <3>3. interests' = [interests EXCEPT ![f] = [interests[f] EXCEPT !.disabled = TRUE]] BY <1>1, <2>1, <2>2, <3>1
    <3>4. /\ [interests[f] EXCEPT !.disabled = TRUE].disabled
          /\ [interests[f] EXCEPT !.disabled = TRUE].mode = interests[f].mode
      BY <3>1 DEF Interest
    <3> HIDE DEF oneshot
    <3> QED BY <2>1, <2>2, <3>1, <3>2, <3>3, <3>4
  <2>3. CASE ~oneshot BY <1>1, <2>1, <2>3
  <2> QED BY <2>2, <2>3
<1>12. /\ \A g : Enabled(g)' => Enabled(g)
       /\ \A g : g # f => (Enabled(g)' <=> Enabled(g))
       /\ oneshot => ~Enabled(f)'
       /\ ~oneshot => (Enabled(f)' <=> Enabled(f))
  BY <1>11 DEF Enabled
<1>13. \A g \in Fd : g \in listening' <=> Enabled(g)'
  <2>1. \A g \in Fd : g \in listening <=> Enabled(g) BY <1>1, ListenersNow DEF WaitPc
  <2> HIDE DEF oneshot
  <2> QED BY <2>1, <1>1, <1>12
<1>14. \A g : g # f /\ Reportable(g)' => Reportable(g) BY <1>1, <1>11 DEF Reportable
<1>15. Reportable(f)' => reported /\ interests[f].mode = "LT"
  BY <1>1, <1>12, <1>11 DEF Reportable, Enabled
<1>16. NoLostEvent'
  BY <1>10, <1>15, <1>14, <1>1, <1>8, <1>9 DEF NoLostEvent, EpollInv, OnItsWay
<1>17. EventsQueued' BY <1>1 DEF EpollInv, EventsQueued
<1>18. NoSleeperOnEvents'
  BY <1>1, <1>4, <1>6 DEF Notifying, EpollInv, NoSleeperOnEvents
<1>19. /\ unseen' \subseteq level /\ listening' \subseteq Fd /\ events' \subseteq Fd /\ queue' \in Seq(Fd)
       /\ result' \in [Thread -> SUBSET Fd]
  BY <1>1, <1>a DEF EpollInv, TypeOK
<1>20. pc[t] \in WaitPc BY <1>1 DEF WaitPc
<1> HIDE DEF enabled, reported, oneshot
<1> QED BY <1>1, <1>4, <1>5, <1>7, <1>10, <1>11, <1>13, <1>16, <1>17, <1>18, <1>19, <1>20, WaitGoesOn

-----------------------------------------------------------------------------
(* The theorem *)

\* The invariant holds at the start, is kept, and implies the property.
LEMMA EpollStart == Init => EpollInv
<1> SUFFICES ASSUME Init PROVE EpollInv OBVIOUS
<1> DEFINE new == [pc |-> "idle", fd |-> None]
<1>0. new \in [pc : WriterPC, fd : Fd \cup {None}] /\ new.pc = "idle" BY DEF WriterPC
<1>1. writer = [w \in Writer |-> new] BY DEF Init
<1> HIDE DEF new
<1>2. interests \in [DOMAIN interests -> Interest] /\ DOMAIN interests = {} BY DEF Init
<1>3. TypeOK BY <1>0, <1>1, <1>2, MaxEventsAssumption DEF Init, TypeOK, PC
<1>4. LockExact BY NoneAssumption DEF Init, LockExact, CtlPc, WaitPc
<1>5. CallsExact BY DEF Init, CallsExact, CtlPc, AsleepPc
<1>6. WritersExact BY <1>0, <1>1 DEF WritersExact
<1>7. Listened BY <1>2 DEF Init, Listened, Enabled, Joining, ListenPc
<1>8. Looked /\ EventsQueued /\ NoSleeperOnEvents BY DEF Init, Looked, EventsQueued, NoSleeperOnEvents
<1>9. NoLostEvent BY <1>2 DEF NoLostEvent, Reportable
<1> QED BY <1>3, <1>4, <1>5, <1>6, <1>7, <1>8, <1>9 DEF EpollInv

LEMMA EpollStep == EpollInv /\ [Next]_vars => EpollInv'
<1> SUFFICES ASSUME EpollInv, [Next]_vars PROVE EpollInv' OBVIOUS
<1>1. CASE UNCHANGED vars
  BY <1>1, Quiet DEF vars, EpollInv, TypeOK, LockExact, CallsExact, NoSleeperOnEvents, Notifying
<1>2. ASSUME NEW w \in Writer, (\E f \in Fd : MakeReady(w, f)) \/ WriterStep(w) PROVE EpollInv'
  BY <1>2, MakeReadyKeeps, CollectListenersKeeps, WakeTargetKeeps, NotifyEpollKeeps, Zenon DEF WriterStep
<1>3. ASSUME NEW t \in Thread, NEW f \in Fd, Consume(t, f) \/ CtlDel(t, f) PROVE EpollInv'
  BY <1>3, ConsumeKeeps, CtlDelKeeps, Zenon
<1>4. ASSUME NEW t \in Thread, NEW f \in Fd, NEW mode \in Mode, CtlAdd(t, f, mode) \/ CtlMod(t, f, mode)
      PROVE  EpollInv'
  BY <1>4, CtlAddKeeps, CtlModKeeps, Zenon
<1>5. ASSUME NEW t \in Thread, NEW n \in 1..MaxEvents, EpollWait(t, n) PROVE EpollInv'
  BY <1>5, EpollWaitKeeps, Zenon
<1>6. ASSUME NEW t \in Thread, CtlStep(t) PROVE EpollInv'
  BY <1>6, CtlRegisterKeeps, CtlPollKeeps, CtlMarkKeeps, CtlInsertKeeps, Zenon DEF CtlStep
<1>7. ASSUME NEW t \in Thread, WaitStep(t) PROVE EpollInv'
  BY <1>7, WaitTakeKeeps, WaitExamineKeeps, WaitRequeueKeeps, WaitRequeueNotifyKeeps, WaitEndKeeps,
     ReturnKeeps, Zenon DEF WaitStep
<1>8. ASSUME NEW t \in Thread,
             WaitBegin(t) \/ GiveUp(t) \/ Register(t) \/ Track(t) \/ Wake(t) \/ Expire(t) \/ Interrupt(t)
      PROVE  EpollInv'
  BY <1>8, WaitBeginKeeps, GiveUpKeeps, RegisterKeeps, TrackKeeps, WakeKeeps, ExpireKeeps, InterruptKeeps, Zenon
<1> QED BY <1>1, <1>2, <1>3, <1>4, <1>5, <1>6, <1>7, <1>8, Zenon DEF Next

LEMMA EpollHolds == EpollInv => EventsKept
<1> SUFFICES ASSUME EpollInv PROVE EventsKept OBVIOUS
<1>1. ListeningExact
  BY Alone DEF ListeningExact, Joining, CtlPc, ListenPc, EpollInv, TypeOK, Listened, Enabled
<1> QED BY <1>1 DEF EpollInv, EventsKept, ReadyListExact

\* No event is lost on its way to epoll_wait, every stored event has its entry on
\* the queue, listeners are those of the enabled interests, and nobody sleeps
\* while an event is stored (epoll.rs; context/fd.rs).
THEOREM Events == Spec => []EventsKept
<1>1. Spec => []EpollInv BY EpollStart, EpollStep, PTL DEF Spec
<1> QED BY <1>1, EpollHolds, PTL

-----------------------------------------------------------------------------
(* Unix sockets: the inductive invariant *)

\* AF_UNIX sockets on their own.
UnixSpec == UnixInit /\ [][UnixNext]_unixVars

\* The Boolean fields of the records.
Flag == BOOLEAN

Life == {"free", "open", "backlog"}
Weak == Socket \cup {NoSocket, Dead}
Item == [no : Nat, anc : Nat, len : Nat]
SockState ==
    [life : Life, owner : Flag, addr : Address \cup {NoSocket}, peer : Weak, pending : Weak,
     established : Flag, listening : Flag, limit : Nat, backlog : Seq(Socket),
     connects : SUBSET Socket, queue : Seq(Item), size : Nat, rcvbuf : Nat, shutRd : Flag, shutWr : Flag]
CallState ==
    [pc : {"user", "try", "again", "asleep"}, op : {"connect", "accept", "send", "recv"},
     s : Socket \cup {NoSocket}, len : Nat, anc : Flag, flag : Address \cup {"none"}]
Budget == [kind : {"stream", "seqpacket", "dgram"}, opens : Nat, items : Nat, shuts : Nat]

SockTyped ==
    /\ sock \in [Socket -> SockState]
    /\ bound \in [Address -> Weak]
    /\ budget \in Budget
    /\ sent \in [Socket -> Nat]
    /\ sockCall \in [SockThread -> CallState]

\* A call is made on an open socket, which it keeps open.
CallsOpen ==
    \A t \in SockThread : sockCall[t].pc # "user" =>
        sockCall[t].s \in Socket /\ sock[sockCall[t].s].life = "open"

FreeAsNew == \A s \in Socket : sock[s].life = "free" => sock[s] = Fresh
\* A socket that was not accepted is in one backlog, once.
BacklogHeld ==
    \A s \in Socket : sock[s].life = "backlog" <=> \E l \in Socket : s \in ToSet(sock[l].backlog)
BacklogOnce ==
    \A l, m \in Socket : \A i \in 1..Len(sock[l].backlog) : \A j \in 1..Len(sock[m].backlog) :
        sock[l].backlog[i] = sock[m].backlog[j] => l = m /\ i = j
BacklogOpen == \A l \in Socket : sock[l].backlog # <<>> => sock[l].life = "open"

PendingKnown == \A s, l \in Socket : s \in sock[l].connects <=> sock[s].pending = l
PendingLive ==
    \A s \in Socket : sock[s].pending \in Socket =>
        /\ sock[s].pending # s /\ sock[sock[s].pending].life # "free"
        /\ ConnectionOriented

PeersLive == \A s \in Socket : sock[s].peer \in Socket => sock[sock[s].peer].life # "free"
PeersMutual ==
    ConnectionOriented =>
        \A s \in Socket : sock[s].peer \in Socket => sock[sock[s].peer].peer = s /\ sock[s].established

BoundExact ==
    /\ \A a \in Address : bound[a] \in Socket => sock[bound[a]].life = "open" /\ sock[bound[a]].addr = a
    /\ \A s \in Socket : sock[s].owner => sock[s].addr \in Address /\ sock[s].life = "open"

LinkInv ==
    /\ FreeAsNew /\ BacklogHeld /\ BacklogOnce /\ BacklogOpen
    /\ PendingKnown /\ PendingLive /\ PeersLive /\ PeersMutual
    /\ BoundExact /\ BoundReachable

\* The numbers of a queue do not pass what was sent.
Numbered ==
    \A s \in Socket : \A i \in 1..Len(sock[s].queue) : sock[s].queue[i].no <= sent[s]
\* The bytes of a stream: one each, in order, and nothing of another chunk inside
\* a chunk that has its ancillary data.
StreamExact ==
    Stream => \A s \in Socket :
        /\ sock[s].size = Len(sock[s].queue)
        /\ \A i \in 1..Len(sock[s].queue) :
              /\ sock[s].queue[i].no = sent[s] - Len(sock[s].queue) + i
              /\ sock[s].queue[i].len = 1
              /\ sock[s].queue[i].anc > 0 =>
                    /\ i + sock[s].queue[i].anc - 1 <= Len(sock[s].queue)
                    /\ \A j \in (i + 1)..(i + sock[s].queue[i].anc - 1) : sock[s].queue[j].anc = 0

UnixInv == SockTyped /\ CallsOpen /\ LinkInv /\ QueueExact /\ Numbered /\ StreamExact

-----------------------------------------------------------------------------
(* What steps leave alone *)

SameQueues ==
    /\ sent' = sent /\ (spliced' => spliced)
    /\ \A x \in Socket : sock'[x].queue = sock[x].queue /\ sock'[x].size = sock[x].size
SameKind == budget'.kind = budget.kind
SameLinks ==
    \A x \in Socket :
        /\ sock'[x].life = sock[x].life /\ sock'[x].owner = sock[x].owner /\ sock'[x].addr = sock[x].addr
        /\ sock'[x].peer = sock[x].peer /\ sock'[x].pending = sock[x].pending
        /\ sock'[x].established = sock[x].established
        /\ sock'[x].backlog = sock[x].backlog /\ sock'[x].connects = sock[x].connects

LEMMA QueuesKept ==
    ASSUME QueueExact, Numbered, StreamExact, SameQueues, SameKind
    PROVE  QueueExact' /\ Numbered' /\ StreamExact'
<1>1. QueueExact' BY DEF QueueExact, SameQueues, Consumed
<1>2. Numbered' BY DEF Numbered, SameQueues
<1>3. StreamExact' BY DEF StreamExact, SameQueues, SameKind, Stream, sockKind
<1> QED BY <1>1, <1>2, <1>3

LEMMA LinksKept ==
    ASSUME LinkInv, SameLinks, SameKind, bound' = bound, FreeAsNew'
    PROVE  LinkInv'
<1>1. BacklogHeld' BY DEF LinkInv, BacklogHeld, SameLinks, ToSet
<1>2. BacklogOnce' BY DEF LinkInv, BacklogOnce, SameLinks
<1>3. BacklogOpen' BY DEF LinkInv, BacklogOpen, SameLinks
<1>4. PendingKnown' BY DEF LinkInv, PendingKnown, SameLinks
<1>5. PendingLive' BY DEF LinkInv, PendingLive, SameLinks, SameKind, ConnectionOriented, sockKind
<1>6. PeersLive' BY DEF LinkInv, PeersLive, SameLinks
<1>7. PeersMutual' BY DEF LinkInv, PeersMutual, SameLinks, SameKind, ConnectionOriented, sockKind
<1>8. BoundExact' BY DEF LinkInv, BoundExact, SameLinks
<1>9. BoundReachable' BY DEF LinkInv, BoundReachable, SameLinks, UserOf
<1> QED BY <1>1, <1>2, <1>3, <1>4, <1>5, <1>6, <1>7, <1>8, <1>9 DEF LinkInv

\* A socket that is not free may change.
LEMMA FreeKept ==
    ASSUME FreeAsNew, \A x \in Socket : sock'[x] = sock[x] \/ sock'[x].life # "free"
    PROVE  FreeAsNew'
BY DEF FreeAsNew, Fresh

\* The waiters that are told try again.
LEMMA Notified ==
    ASSUME NEW calls \in [SockThread -> CallState], NEW N
    PROVE  /\ Notify(calls, N) \in [SockThread -> CallState]
           /\ \A t \in SockThread : /\ Notify(calls, N)[t].s = calls[t].s
                                    /\ Notify(calls, N)[t].pc = "user" <=> calls[t].pc = "user"
  BY DEF CallState, Notify

\* The socket a call is made on is open.
LEMMA CalledOpen ==
    ASSUME UnixInv, NEW t \in SockThread, NEW call, Calling(t, call), call.s \in Socket
    PROVE  sock[call.s].life = "open"
BY DEF UnixInv, CallsOpen, Calling, UserOf

\* A call ends, or waits to be made again, and the others are told.
LEMMA CallOver ==
    ASSUME UnixInv, NEW t \in SockThread, NEW N, Returns(t, N),
           \A x \in Socket : sock[x].life = "open" => sock'[x].life = "open"
    PROVE  sockCall' \in [SockThread -> CallState] /\ CallsOpen'
<1> DEFINE calls == [sockCall EXCEPT ![t] = Idle]
<1>1. Idle \in CallState /\ Idle.pc = "user" BY DEF Idle, Call, CallState, Flag
<1>2. calls \in [SockThread -> CallState] BY <1>1 DEF UnixInv, SockTyped
<1>3. \A u \in SockThread : calls[u].pc # "user" => u # t /\ calls[u] = sockCall[u]
  BY <1>1 DEF UnixInv, SockTyped
<1>4. sockCall' = Notify(calls, N) BY DEF Returns
<1> HIDE DEF calls
<1> QED BY <1>2, <1>3, <1>4, Notified DEF UnixInv, CallsOpen

LEMMA CallWaits ==
    ASSUME UnixInv, NEW t \in SockThread, NEW call \in CallState, call.s \in Socket, Calling(t, call),
           WouldBlockIn(t, call),
           \A x \in Socket : sock[x].life = "open" => sock'[x].life = "open"
    PROVE  sockCall' \in [SockThread -> CallState] /\ CallsOpen'
<1>1. Idle \in CallState /\ Idle.pc = "user" BY DEF Idle, Call, CallState, Flag
<1>2. [call EXCEPT !.pc = "again"] \in CallState /\ [call EXCEPT !.pc = "again"].s = call.s BY DEF CallState
<1>3. sock[call.s].life = "open" BY CalledOpen
<1>4. PICK c \in CallState : /\ sockCall' = [sockCall EXCEPT ![t] = c]
                             /\ c.pc = "user" \/ c.s = call.s
  BY <1>1, <1>2 DEF WouldBlockIn
<1> QED BY <1>3, <1>4 DEF UnixInv, SockTyped, CallsOpen

LEMMA CallsTold ==
    ASSUME UnixInv, NEW N, sockCall' = Notify(sockCall, N),
           \A t \in SockThread : sockCall[t].pc # "user" =>
               (sock[sockCall[t].s].life = "open" => sock'[sockCall[t].s].life = "open")
    PROVE  sockCall' \in [SockThread -> CallState] /\ CallsOpen'
BY Notified DEF UnixInv, SockTyped, CallsOpen

-----------------------------------------------------------------------------
(* Fields of a socket *)

\* Two sockets that differ at most in one field.
LEMMA WithLife ==
    ASSUME NEW r \in SockState, NEW v \in Life
    PROVE  LET n == [r EXCEPT !.life = v] IN
           /\ n \in SockState
           /\ n.life = v /\ n.owner = r.owner /\ n.addr = r.addr /\ n.peer = r.peer
           /\ n.pending = r.pending /\ n.established = r.established /\ n.listening = r.listening /\ n.limit = r.limit
           /\ n.backlog = r.backlog /\ n.connects = r.connects /\ n.queue = r.queue /\ n.size = r.size
           /\ n.rcvbuf = r.rcvbuf /\ n.shutRd = r.shutRd /\ n.shutWr = r.shutWr
BY DEF SockState

LEMMA WithOwner ==
    ASSUME NEW r \in SockState, NEW v \in Flag
    PROVE  LET n == [r EXCEPT !.owner = v] IN
           /\ n \in SockState
           /\ n.owner = v /\ n.life = r.life /\ n.addr = r.addr /\ n.peer = r.peer
           /\ n.pending = r.pending /\ n.established = r.established /\ n.listening = r.listening /\ n.limit = r.limit
           /\ n.backlog = r.backlog /\ n.connects = r.connects /\ n.queue = r.queue /\ n.size = r.size
           /\ n.rcvbuf = r.rcvbuf /\ n.shutRd = r.shutRd /\ n.shutWr = r.shutWr
BY DEF SockState

LEMMA WithAddr ==
    ASSUME NEW r \in SockState, NEW v \in Address \cup {NoSocket}
    PROVE  LET n == [r EXCEPT !.addr = v] IN
           /\ n \in SockState
           /\ n.addr = v /\ n.life = r.life /\ n.owner = r.owner /\ n.peer = r.peer
           /\ n.pending = r.pending /\ n.established = r.established /\ n.listening = r.listening /\ n.limit = r.limit
           /\ n.backlog = r.backlog /\ n.connects = r.connects /\ n.queue = r.queue /\ n.size = r.size
           /\ n.rcvbuf = r.rcvbuf /\ n.shutRd = r.shutRd /\ n.shutWr = r.shutWr
BY DEF SockState

LEMMA WithPeer ==
    ASSUME NEW r \in SockState, NEW v \in Weak
    PROVE  LET n == [r EXCEPT !.peer = v] IN
           /\ n \in SockState
           /\ n.peer = v /\ n.life = r.life /\ n.owner = r.owner /\ n.addr = r.addr
           /\ n.pending = r.pending /\ n.established = r.established /\ n.listening = r.listening /\ n.limit = r.limit
           /\ n.backlog = r.backlog /\ n.connects = r.connects /\ n.queue = r.queue /\ n.size = r.size
           /\ n.rcvbuf = r.rcvbuf /\ n.shutRd = r.shutRd /\ n.shutWr = r.shutWr
BY DEF SockState

LEMMA WithPending ==
    ASSUME NEW r \in SockState, NEW v \in Weak
    PROVE  LET n == [r EXCEPT !.pending = v] IN
           /\ n \in SockState
           /\ n.pending = v /\ n.life = r.life /\ n.owner = r.owner /\ n.addr = r.addr
           /\ n.peer = r.peer /\ n.established = r.established /\ n.listening = r.listening /\ n.limit = r.limit
           /\ n.backlog = r.backlog /\ n.connects = r.connects /\ n.queue = r.queue /\ n.size = r.size
           /\ n.rcvbuf = r.rcvbuf /\ n.shutRd = r.shutRd /\ n.shutWr = r.shutWr
BY DEF SockState

LEMMA WithEstablished ==
    ASSUME NEW r \in SockState, NEW v \in Flag
    PROVE  LET n == [r EXCEPT !.established = v] IN
           /\ n \in SockState
           /\ n.established = v /\ n.life = r.life /\ n.owner = r.owner /\ n.addr = r.addr
           /\ n.peer = r.peer /\ n.pending = r.pending /\ n.listening = r.listening /\ n.limit = r.limit
           /\ n.backlog = r.backlog /\ n.connects = r.connects /\ n.queue = r.queue /\ n.size = r.size
           /\ n.rcvbuf = r.rcvbuf /\ n.shutRd = r.shutRd /\ n.shutWr = r.shutWr
BY DEF SockState

LEMMA WithListening ==
    ASSUME NEW r \in SockState, NEW v \in Flag
    PROVE  LET n == [r EXCEPT !.listening = v] IN
           /\ n \in SockState
           /\ n.listening = v /\ n.life = r.life /\ n.owner = r.owner /\ n.addr = r.addr
           /\ n.peer = r.peer /\ n.pending = r.pending /\ n.established = r.established /\ n.limit = r.limit
           /\ n.backlog = r.backlog /\ n.connects = r.connects /\ n.queue = r.queue /\ n.size = r.size
           /\ n.rcvbuf = r.rcvbuf /\ n.shutRd = r.shutRd /\ n.shutWr = r.shutWr
BY DEF SockState

LEMMA WithLimit ==
    ASSUME NEW r \in SockState, NEW v \in Nat
    PROVE  LET n == [r EXCEPT !.limit = v] IN
           /\ n \in SockState
           /\ n.limit = v /\ n.life = r.life /\ n.owner = r.owner /\ n.addr = r.addr
           /\ n.peer = r.peer /\ n.pending = r.pending /\ n.established = r.established /\ n.listening = r.listening
           /\ n.backlog = r.backlog /\ n.connects = r.connects /\ n.queue = r.queue /\ n.size = r.size
           /\ n.rcvbuf = r.rcvbuf /\ n.shutRd = r.shutRd /\ n.shutWr = r.shutWr
BY DEF SockState

LEMMA WithBacklog ==
    ASSUME NEW r \in SockState, NEW v \in Seq(Socket)
    PROVE  LET n == [r EXCEPT !.backlog = v] IN
           /\ n \in SockState
           /\ n.backlog = v /\ n.life = r.life /\ n.owner = r.owner /\ n.addr = r.addr
           /\ n.peer = r.peer /\ n.pending = r.pending /\ n.established = r.established /\ n.listening = r.listening
           /\ n.limit = r.limit /\ n.connects = r.connects /\ n.queue = r.queue /\ n.size = r.size
           /\ n.rcvbuf = r.rcvbuf /\ n.shutRd = r.shutRd /\ n.shutWr = r.shutWr
BY DEF SockState

LEMMA WithConnects ==
    ASSUME NEW r \in SockState, NEW v \in SUBSET Socket
    PROVE  LET n == [r EXCEPT !.connects = v] IN
           /\ n \in SockState
           /\ n.connects = v /\ n.life = r.life /\ n.owner = r.owner /\ n.addr = r.addr
           /\ n.peer = r.peer /\ n.pending = r.pending /\ n.established = r.established /\ n.listening = r.listening
           /\ n.limit = r.limit /\ n.backlog = r.backlog /\ n.queue = r.queue /\ n.size = r.size
           /\ n.rcvbuf = r.rcvbuf /\ n.shutRd = r.shutRd /\ n.shutWr = r.shutWr
BY DEF SockState

LEMMA WithQueue ==
    ASSUME NEW r \in SockState, NEW v \in Seq(Item)
    PROVE  LET n == [r EXCEPT !.queue = v] IN
           /\ n \in SockState
           /\ n.queue = v /\ n.life = r.life /\ n.owner = r.owner /\ n.addr = r.addr
           /\ n.peer = r.peer /\ n.pending = r.pending /\ n.established = r.established /\ n.listening = r.listening
           /\ n.limit = r.limit /\ n.backlog = r.backlog /\ n.connects = r.connects /\ n.size = r.size
           /\ n.rcvbuf = r.rcvbuf /\ n.shutRd = r.shutRd /\ n.shutWr = r.shutWr
BY DEF SockState

LEMMA WithSize ==
    ASSUME NEW r \in SockState, NEW v \in Nat
    PROVE  LET n == [r EXCEPT !.size = v] IN
           /\ n \in SockState
           /\ n.size = v /\ n.life = r.life /\ n.owner = r.owner /\ n.addr = r.addr
           /\ n.peer = r.peer /\ n.pending = r.pending /\ n.established = r.established /\ n.listening = r.listening
           /\ n.limit = r.limit /\ n.backlog = r.backlog /\ n.connects = r.connects /\ n.queue = r.queue
           /\ n.rcvbuf = r.rcvbuf /\ n.shutRd = r.shutRd /\ n.shutWr = r.shutWr
BY DEF SockState

LEMMA WithRcvbuf ==
    ASSUME NEW r \in SockState, NEW v \in Nat
    PROVE  LET n == [r EXCEPT !.rcvbuf = v] IN
           /\ n \in SockState
           /\ n.rcvbuf = v /\ n.life = r.life /\ n.owner = r.owner /\ n.addr = r.addr
           /\ n.peer = r.peer /\ n.pending = r.pending /\ n.established = r.established /\ n.listening = r.listening
           /\ n.limit = r.limit /\ n.backlog = r.backlog /\ n.connects = r.connects /\ n.queue = r.queue
           /\ n.size = r.size /\ n.shutRd = r.shutRd /\ n.shutWr = r.shutWr
BY DEF SockState

LEMMA WithShutRd ==
    ASSUME NEW r \in SockState, NEW v \in Flag
    PROVE  LET n == [r EXCEPT !.shutRd = v] IN
           /\ n \in SockState
           /\ n.shutRd = v /\ n.life = r.life /\ n.owner = r.owner /\ n.addr = r.addr
           /\ n.peer = r.peer /\ n.pending = r.pending /\ n.established = r.established /\ n.listening = r.listening
           /\ n.limit = r.limit /\ n.backlog = r.backlog /\ n.connects = r.connects /\ n.queue = r.queue
           /\ n.size = r.size /\ n.rcvbuf = r.rcvbuf /\ n.shutWr = r.shutWr
BY DEF SockState

LEMMA WithShutWr ==
    ASSUME NEW r \in SockState, NEW v \in Flag
    PROVE  LET n == [r EXCEPT !.shutWr = v] IN
           /\ n \in SockState
           /\ n.shutWr = v /\ n.life = r.life /\ n.owner = r.owner /\ n.addr = r.addr
           /\ n.peer = r.peer /\ n.pending = r.pending /\ n.established = r.established /\ n.listening = r.listening
           /\ n.limit = r.limit /\ n.backlog = r.backlog /\ n.connects = r.connects /\ n.queue = r.queue
           /\ n.size = r.size /\ n.rcvbuf = r.rcvbuf /\ n.shutRd = r.shutRd
BY DEF SockState

-----------------------------------------------------------------------------
(* Creation and names *)

LEMMA NewIsTyped == Fresh \in SockState
BY SockSizeAssumption DEF Fresh, SockState, Life, Weak, Flag

LEMMA FreeIsNew ==
    ASSUME UnixInv, Free # {}
    PROVE  NextFree \in Socket /\ sock[NextFree] = Fresh /\ sock[NextFree].life = "free"
BY DEF UnixInv, LinkInv, FreeAsNew, NextFree, Free

LEMMA UnixStart == UnixInit => UnixInv
<1> SUFFICES ASSUME UnixInit PROVE UnixInv OBVIOUS
<1>1. \A s \in Socket : sock[s] = Fresh BY DEF UnixInit
<1>2. /\ Fresh.life = "free" /\ Fresh.peer = NoSocket /\ Fresh.pending = NoSocket /\ Fresh.backlog = <<>>
      /\ Fresh.connects = {} /\ Fresh.queue = <<>> /\ Fresh.size = 0 /\ Fresh.owner = FALSE
  BY DEF Fresh
<1>3. Idle \in CallState /\ Idle.pc = "user" BY DEF Idle, Call, CallState, Flag
<1>4. SockTyped
  BY NewIsTyped, <1>3, SockBudgetAssumption DEF UnixInit, SockTyped, Weak, Budget
<1>5. CallsOpen BY <1>3 DEF CallsOpen, UnixInit
<1>6. LinkInv
  <2>1. FreeAsNew BY <1>1 DEF FreeAsNew
  <2>2. BacklogHeld BY <1>1, <1>2 DEF BacklogHeld, ToSet
  <2>3. BacklogOnce BY <1>1, <1>2 DEF BacklogOnce
  <2>4. BacklogOpen BY <1>1, <1>2 DEF BacklogOpen
  <2>5. PendingKnown /\ PendingLive BY <1>1, <1>2, SockNoneAssumption DEF PendingKnown, PendingLive
  <2>6. PeersLive /\ PeersMutual BY <1>1, <1>2, SockNoneAssumption DEF PeersLive, PeersMutual
  <2>7. BoundExact BY <1>1, <1>2, SockNoneAssumption DEF BoundExact, UnixInit
  <2>8. BoundReachable BY <1>1, <1>2 DEF BoundReachable, UserOf
  <2> QED BY <2>1, <2>2, <2>3, <2>4, <2>5, <2>6, <2>7, <2>8 DEF LinkInv
<1>7. QueueExact BY <1>1, <1>2 DEF QueueExact, Consumed, UnixInit
<1>8. Numbered BY <1>1, <1>2 DEF Numbered
<1>9. StreamExact BY <1>1, <1>2 DEF StreamExact
<1> QED BY <1>4, <1>5, <1>6, <1>7, <1>8, <1>9 DEF UnixInv

LEMMA SocketCreateKeeps ==
    ASSUME UnixInv, NEW s \in Socket, SocketCreate(s)
    PROVE  UnixInv'
<1>1. /\ s = NextFree /\ Free # {} /\ sock' = [sock EXCEPT ![s].life = "open"]
      /\ budget' = [budget EXCEPT !.opens = @ - 1] /\ budget.opens > 0
      /\ UNCHANGED <<bound, sockNodes, sockCall, sent, tuned, spliced>>
  BY DEF SocketCreate
<1>2. sock[s] = Fresh /\ sock[s].life = "free" BY <1>1, FreeIsNew
<1> DEFINE new == [Fresh EXCEPT !.life = "open"]
<1>3. /\ new \in SockState /\ new.life = "open" /\ new.owner = Fresh.owner /\ new.addr = Fresh.addr
      /\ new.peer = Fresh.peer /\ new.pending = Fresh.pending /\ new.established = Fresh.established
      /\ new.backlog = Fresh.backlog /\ new.connects = Fresh.connects /\ new.queue = Fresh.queue
      /\ new.size = Fresh.size
  BY NewIsTyped, WithLife DEF Life
<1>4. /\ Fresh.peer = NoSocket /\ Fresh.pending = NoSocket /\ Fresh.backlog = <<>> /\ Fresh.connects = {}
      /\ ~Fresh.owner
  BY DEF Fresh
<1>5. sock'[s] = new /\ \A x \in Socket : x # s => sock'[x] = sock[x]
  BY <1>1, <1>2 DEF UnixInv, SockTyped
<1> HIDE DEF new
<1>6. budget' \in Budget /\ SameKind BY <1>1 DEF UnixInv, SockTyped, Budget, SameKind
<1>7. SockTyped'
  BY <1>1, <1>2, <1>3, <1>5, <1>6 DEF UnixInv, SockTyped
<1>8. \A x \in Socket : sock[x].life = "open" => sock'[x].life = "open" BY <1>3, <1>5
<1>9. CallsOpen' BY <1>1, <1>8 DEF UnixInv, CallsOpen
<1>10. SameQueues BY <1>1, <1>2, <1>3, <1>5 DEF SameQueues
<1>11. \A x \in Socket : /\ sock'[x].owner = sock[x].owner /\ sock'[x].addr = sock[x].addr
                         /\ sock'[x].peer = sock[x].peer /\ sock'[x].pending = sock[x].pending
                         /\ sock'[x].established = sock[x].established
                         /\ sock'[x].backlog = sock[x].backlog /\ sock'[x].connects = sock[x].connects
                         /\ x # s => sock'[x].life = sock[x].life
  BY <1>2, <1>3, <1>5
<1>12. LinkInv'
  <2>1. FreeAsNew' BY <1>3, <1>5 DEF UnixInv, LinkInv, FreeAsNew
  <2>2. BacklogHeld'
    BY <1>2, <1>3, <1>5, <1>11 DEF UnixInv, LinkInv, BacklogHeld, ToSet
  <2>3. BacklogOnce' BY <1>11 DEF UnixInv, LinkInv, BacklogOnce
  <2>4. BacklogOpen' BY <1>8, <1>11 DEF UnixInv, LinkInv, BacklogOpen
  <2>5. PendingKnown' BY <1>11 DEF UnixInv, LinkInv, PendingKnown
  <2>6. \A x \in Socket : sock[x].life # "free" => sock'[x].life # "free" BY <1>2, <1>3, <1>5
  <2>7. PendingLive' BY <1>11, <2>6, <1>6 DEF UnixInv, LinkInv, PendingLive, ConnectionOriented, sockKind, SameKind
  <2>8. PeersLive' BY <1>11, <2>6 DEF UnixInv, LinkInv, PeersLive
  <2>9. PeersMutual' BY <1>11, <1>6 DEF UnixInv, LinkInv, PeersMutual, ConnectionOriented, sockKind, SameKind
  <2>10. BoundExact' BY <1>1, <1>8, <1>11 DEF UnixInv, LinkInv, BoundExact
  <2>11. BoundReachable' BY <1>1, <1>2, <1>4, <1>11 DEF UnixInv, LinkInv, BoundReachable, UserOf
  <2> QED BY <2>1, <2>2, <2>3, <2>4, <2>5, <2>7, <2>8, <2>9, <2>10, <2>11 DEF LinkInv
<1> QED BY <1>7, <1>9, <1>10, <1>12, <1>6, QueuesKept DEF UnixInv

\* A step that leaves the links and the queues alone.
LEMMA QuietSockets ==
    ASSUME UnixInv, SockTyped', CallsOpen', SameLinks, SameQueues, SameKind, bound' = bound,
           \A x \in Socket : sock'[x] = sock[x] \/ sock[x].life # "free"
    PROVE  UnixInv'
  BY FreeKept, LinksKept, QueuesKept DEF SameLinks, UnixInv, LinkInv

\* One open socket changes in fields that hold no links and no bytes.
SameSocket(n, r) ==
    /\ n.life = r.life /\ n.owner = r.owner /\ n.addr = r.addr
    /\ n.peer = r.peer /\ n.pending = r.pending /\ n.established = r.established
    /\ n.backlog = r.backlog /\ n.connects = r.connects /\ n.queue = r.queue /\ n.size = r.size

LEMMA OneQuiet ==
    ASSUME UnixInv, NEW s \in Socket, sock[s].life = "open", NEW new \in SockState,
           sock' = [sock EXCEPT ![s] = new], SameSocket(new, sock[s]),
           NEW N, sockCall' = Notify(sockCall, N), SameKind, budget' \in Budget,
           UNCHANGED <<bound, sent, spliced>>
    PROVE  UnixInv'
  BY CallsTold, QuietSockets DEF UnixInv, SockTyped, SameSocket, SameLinks, SameQueues, CallsOpen

LEMMA ListenKeeps ==
    ASSUME UnixInv, NEW s \in Socket, NEW limit \in Backlogs, Listen(s, limit)
    PROVE  UnixInv'
<1>1. /\ sock[s].life = "open" /\ sock' = [sock EXCEPT ![s].listening = TRUE, ![s].limit = limit]
      /\ sockCall' = Notify(sockCall, {<<s, "WRITE">>})
      /\ UNCHANGED <<bound, sockNodes, budget, sent, spliced>>
  BY DEF Listen, UserOf
<1>2. sock \in [Socket -> SockState] /\ sock[s] \in SockState BY DEF UnixInv, SockTyped
<1> DEFINE one == [sock[s] EXCEPT !.listening = TRUE]
           new == [one EXCEPT !.limit = limit]
<1>3. sock' = [sock EXCEPT ![s] = new] BY <1>1, <1>2 DEF SockState
<1>4. TRUE \in Flag /\ limit \in Nat BY SockSizeAssumption DEF Flag
<1>5. one \in SockState /\ SameSocket(one, sock[s]) BY <1>2, <1>4, WithListening DEF SameSocket
<1> HIDE DEF one
<1>6. new \in SockState /\ SameSocket(new, one) BY <1>5, <1>4, WithLimit DEF SameSocket
<1> HIDE DEF new
<1>7. SameSocket(new, sock[s]) BY <1>5, <1>6 DEF SameSocket
<1>8. budget' \in Budget /\ SameKind BY <1>1 DEF UnixInv, SockTyped, SameKind
<1> QED BY <1>1, <1>3, <1>6, <1>7, <1>8, OneQuiet

LEMMA SetRcvBufKeeps ==
    ASSUME UnixInv, NEW s \in Socket, NEW n \in BufferSizes, SetRcvBuf(s, n)
    PROVE  UnixInv'
<1>1. /\ sock[s].life = "open" /\ sock' = [sock EXCEPT ![s].rcvbuf = n] /\ budget.shuts > 0
      /\ budget' = [budget EXCEPT !.shuts = @ - 1]
      /\ UNCHANGED <<bound, sockNodes, sockCall, sent, spliced>>
  BY DEF SetRcvBuf, UserOf
<1>2. sock \in [Socket -> SockState] /\ sock[s] \in SockState BY DEF UnixInv, SockTyped
<1> DEFINE new == [sock[s] EXCEPT !.rcvbuf = n]
<1>3. sock' = [sock EXCEPT ![s] = new] BY <1>1, <1>2 DEF SockState
<1>4. n \in Nat BY SockSizeAssumption
<1>5. new \in SockState /\ SameSocket(new, sock[s]) BY <1>2, <1>4, WithRcvbuf DEF SameSocket
<1> HIDE DEF new
<1>6. budget' \in Budget /\ SameKind BY <1>1 DEF UnixInv, SockTyped, SameKind, Budget
<1>7. sockCall' = Notify(sockCall, {})
  BY <1>1 DEF UnixInv, SockTyped, Notify, Hears
<1> QED BY <1>1, <1>3, <1>5, <1>6, <1>7, OneQuiet

LEMMA ShutdownKeeps ==
    ASSUME UnixInv, NEW s \in Socket, NEW how, Shutdown(s, how)
    PROVE  UnixInv'
<1> DEFINE rd == sock[s].shutRd \/ how # "wr"
           wr == sock[s].shutWr \/ how # "rd"
<1>1. /\ sock[s].life = "open" /\ sock' = [sock EXCEPT ![s].shutRd = rd, ![s].shutWr = wr]
      /\ budget.shuts > 0 /\ budget' = [budget EXCEPT !.shuts = @ - 1]
      /\ sockCall' = Notify(sockCall, {s, PeerOf(s)} \X Everyone)
      /\ UNCHANGED <<bound, sockNodes, sent, spliced>>
  BY DEF Shutdown, UserOf
<1>2. sock \in [Socket -> SockState] /\ sock[s] \in SockState BY DEF UnixInv, SockTyped
<1>4. rd \in Flag /\ wr \in Flag BY DEF Flag
<1> HIDE DEF rd, wr
<1> DEFINE one == [sock[s] EXCEPT !.shutRd = rd]
           new == [one EXCEPT !.shutWr = wr]
<1>3. sock' = [sock EXCEPT ![s] = new] BY <1>1, <1>2 DEF SockState
<1>5. one \in SockState /\ SameSocket(one, sock[s]) BY <1>2, <1>4, WithShutRd DEF SameSocket
<1> HIDE DEF one
<1>6. new \in SockState /\ SameSocket(new, one) BY <1>5, <1>4, WithShutWr DEF SameSocket
<1> HIDE DEF new
<1>7. SameSocket(new, sock[s]) BY <1>5, <1>6 DEF SameSocket
<1>8. budget' \in Budget /\ SameKind BY <1>1 DEF UnixInv, SockTyped, SameKind, Budget
<1> QED BY <1>1, <1>3, <1>6, <1>7, <1>8, OneQuiet

\* Nothing of a socket changes.
LEMMA SocketsAlone ==
    ASSUME UnixInv, UNCHANGED <<sock, bound, budget, sent, spliced>>,
           sockCall' \in [SockThread -> CallState], CallsOpen'
    PROVE  UnixInv'
  BY QuietSockets DEF UnixInv, SockTyped, SameLinks, SameQueues, SameKind

\* A call changes its place, and stays on its socket.
LEMMA Moved ==
    ASSUME UnixInv, NEW t \in SockThread, NEW p \in {"try", "again", "asleep"}, sockCall[t].pc # "user",
           sockCall' = [sockCall EXCEPT ![t].pc = p], UNCHANGED sock
    PROVE  sockCall' \in [SockThread -> CallState] /\ CallsOpen'
<1>1. sockCall \in [SockThread -> CallState] BY DEF UnixInv, SockTyped
<1> DEFINE c == [sockCall[t] EXCEPT !.pc = p]
<1>2. c \in CallState /\ c.s = sockCall[t].s BY <1>1 DEF CallState
<1>3. sockCall' = [sockCall EXCEPT ![t] = c] BY <1>1 DEF CallState
<1> HIDE DEF c
<1>4. sockCall' \in [SockThread -> CallState] BY <1>1, <1>2, <1>3
<1>5. sockCall'[t] = c /\ \A u \in SockThread : u # t => sockCall'[u] = sockCall[u] BY <1>1, <1>3
<1>6. sockCall[t].s \in Socket /\ sock[sockCall[t].s].life = "open" BY DEF UnixInv, CallsOpen
<1> QED BY <1>2, <1>4, <1>5, <1>6 DEF UnixInv, CallsOpen

LEMMA SleepKeeps ==
    ASSUME UnixInv, NEW t \in SockThread, Sleep(t)
    PROVE  UnixInv'
  BY Moved, SocketsAlone DEF Sleep

LEMMA InterruptedKeeps ==
    ASSUME UnixInv, NEW t \in SockThread, Interrupted(t)
    PROVE  UnixInv'
  BY SocketsAlone DEF Interrupted, Idle, Call, CallState, Flag, UnixInv, SockTyped, CallsOpen

LEMMA UnlinkNodeKeeps ==
    ASSUME UnixInv, NEW a, UnlinkNode(a)
    PROVE  UnixInv'
  BY SocketsAlone DEF UnlinkNode, UnixInv, SockTyped, CallsOpen

\* A socket that is born connected.
Connected(k, a, b, p) ==
    [Fresh EXCEPT !.life = k, !.addr = a, !.rcvbuf = b, !.established = TRUE, !.peer = p]

IsConnected(n, k, a, p) ==
    /\ n \in SockState /\ n.life = k /\ n.owner = FALSE /\ n.addr = a /\ n.peer = p /\ n.pending = NoSocket
    /\ n.established = TRUE /\ n.backlog = <<>> /\ n.connects = {} /\ n.queue = <<>> /\ n.size = 0

LEMMA BornConnected ==
    ASSUME NEW k \in Life, NEW a \in Address \cup {NoSocket}, NEW b \in Nat, NEW p \in Weak
    PROVE  IsConnected(Connected(k, a, b, p), k, a, p)
<1> DEFINE n1 == [Fresh EXCEPT !.life = k]
           n2 == [n1 EXCEPT !.addr = a]
           n3 == [n2 EXCEPT !.rcvbuf = b]
           n4 == [n3 EXCEPT !.established = TRUE]
           n5 == [n4 EXCEPT !.peer = p]
<1>0. n5 = Connected(k, a, b, p) BY DEF Connected
<1>a. TRUE \in Flag BY DEF Flag
<1>b. /\ Fresh.owner = FALSE /\ Fresh.pending = NoSocket /\ Fresh.backlog = <<>> /\ Fresh.connects = {}
      /\ Fresh.queue = <<>> /\ Fresh.size = 0
  BY DEF Fresh
<1>1. n1 \in SockState /\ n1.life = k /\ n1.owner = Fresh.owner /\ n1.pending = Fresh.pending
      /\ n1.backlog = Fresh.backlog /\ n1.connects = Fresh.connects /\ n1.queue = Fresh.queue /\ n1.size = Fresh.size
  BY NewIsTyped, WithLife
<1> HIDE DEF n1
<1>2. n2 \in SockState /\ n2.life = k /\ n2.addr = a /\ n2.owner = Fresh.owner /\ n2.pending = Fresh.pending
      /\ n2.backlog = Fresh.backlog /\ n2.connects = Fresh.connects /\ n2.queue = Fresh.queue /\ n2.size = Fresh.size
  BY <1>1, WithAddr
<1> HIDE DEF n2
<1>3. n3 \in SockState /\ n3.life = k /\ n3.addr = a /\ n3.owner = Fresh.owner /\ n3.pending = Fresh.pending
      /\ n3.backlog = Fresh.backlog /\ n3.connects = Fresh.connects /\ n3.queue = Fresh.queue /\ n3.size = Fresh.size
  BY <1>2, WithRcvbuf
<1> HIDE DEF n3
<1>4. n4 \in SockState /\ n4.life = k /\ n4.addr = a /\ n4.owner = Fresh.owner /\ n4.pending = Fresh.pending
      /\ n4.backlog = Fresh.backlog /\ n4.connects = Fresh.connects /\ n4.queue = Fresh.queue /\ n4.size = Fresh.size
      /\ n4.established = TRUE
  BY <1>3, <1>a, WithEstablished
<1> HIDE DEF n4
<1>5. n5 \in SockState /\ n5.life = k /\ n5.addr = a /\ n5.owner = Fresh.owner /\ n5.pending = Fresh.pending
      /\ n5.backlog = Fresh.backlog /\ n5.connects = Fresh.connects /\ n5.queue = Fresh.queue /\ n5.size = Fresh.size
      /\ n5.established = TRUE /\ n5.peer = p
  BY <1>4, WithPeer
<1> HIDE DEF n5
<1> QED BY <1>0, <1>5, <1>b DEF IsConnected

LEMMA BornPaired ==
    ASSUME NEW p \in Weak
    PROVE  LET n == [Fresh EXCEPT !.life = "open", !.peer = p, !.established = TRUE] IN
           /\ n \in SockState /\ n.life = "open" /\ n.owner = FALSE /\ n.peer = p /\ n.pending = NoSocket
           /\ n.established = TRUE /\ n.backlog = <<>> /\ n.connects = {} /\ n.queue = <<>> /\ n.size = 0
<1> DEFINE n1 == [Fresh EXCEPT !.life = "open"]
           n2 == [n1 EXCEPT !.peer = p]
           n3 == [n2 EXCEPT !.established = TRUE]
<1>0. n3 = [Fresh EXCEPT !.life = "open", !.peer = p, !.established = TRUE] OBVIOUS
<1>a. TRUE \in Flag /\ "open" \in Life BY DEF Flag, Life
<1>b. /\ Fresh.owner = FALSE /\ Fresh.pending = NoSocket /\ Fresh.backlog = <<>> /\ Fresh.connects = {}
      /\ Fresh.queue = <<>> /\ Fresh.size = 0
  BY DEF Fresh
<1>1. n1 \in SockState /\ n1.life = "open" /\ n1.owner = Fresh.owner /\ n1.pending = Fresh.pending
      /\ n1.backlog = Fresh.backlog /\ n1.connects = Fresh.connects /\ n1.queue = Fresh.queue /\ n1.size = Fresh.size
  BY <1>a, NewIsTyped, WithLife
<1> HIDE DEF n1
<1>2. n2 \in SockState /\ n2.life = "open" /\ n2.peer = p /\ n2.owner = Fresh.owner /\ n2.pending = Fresh.pending
      /\ n2.backlog = Fresh.backlog /\ n2.connects = Fresh.connects /\ n2.queue = Fresh.queue /\ n2.size = Fresh.size
  BY <1>1, WithPeer
<1> HIDE DEF n2
<1>3. n3 \in SockState /\ n3.life = "open" /\ n3.peer = p /\ n3.owner = Fresh.owner /\ n3.pending = Fresh.pending
      /\ n3.backlog = Fresh.backlog /\ n3.connects = Fresh.connects /\ n3.queue = Fresh.queue /\ n3.size = Fresh.size
      /\ n3.established = TRUE
  BY <1>2, <1>a, WithEstablished
<1> HIDE DEF n3
<1> QED BY <1>0, <1>3, <1>b

LEMMA SocketPairKeeps ==
    ASSUME UnixInv, NEW s \in Socket, NEW r \in Socket, SocketPair(s, r)
    PROVE  UnixInv'
<1> DEFINE n(p) == [Fresh EXCEPT !.life = "open", !.peer = p, !.established = TRUE]
<1>1. /\ Cardinality(Free) > 1 /\ s = NextFree /\ r = CHOOSE x \in Free \ {s} : TRUE
      /\ sock' = [x \in Socket |-> IF x = s THEN n(r) ELSE IF x = r THEN n(s) ELSE sock[x]]
      /\ budget' = [budget EXCEPT !.opens = @ - 1] /\ budget.opens > 0
      /\ UNCHANGED <<bound, sockNodes, sockCall, sent, tuned, spliced>>
  BY DEF SocketPair
<1>2. Free # {} /\ Free \ {s} # {}
  <2>1. Cardinality({}) = 0 /\ Cardinality({s}) = 1 BY FS_EmptySet, FS_Singleton
  <2>0. Cardinality(Free) > 1 BY <1>1
  <2>2. Free # {} /\ Free # {s} BY <2>0, <2>1
  <2> QED BY <2>2
<1>3. r \in Free /\ r # s BY <1>1, <1>2
<1>4. sock[s] = Fresh /\ sock[s].life = "free" /\ sock[r] = Fresh /\ sock[r].life = "free"
  BY <1>1, <1>2, <1>3, FreeIsNew DEF UnixInv, LinkInv, FreeAsNew, Free
<1>5. \A p \in Weak :
         /\ n(p) \in SockState /\ n(p).life = "open" /\ n(p).owner = FALSE /\ n(p).peer = p
         /\ n(p).pending = NoSocket /\ n(p).established = TRUE /\ n(p).backlog = <<>> /\ n(p).connects = {}
         /\ n(p).queue = <<>> /\ n(p).size = 0
  BY BornPaired
<1> HIDE DEF n
<1>6. /\ sock'[s] = n(r) /\ sock'[r] = n(s) /\ \A x \in Socket : x # s /\ x # r => sock'[x] = sock[x]
      /\ s \in Weak /\ r \in Weak
  BY <1>1, <1>3 DEF Weak
<1>7. budget' \in Budget /\ SameKind BY <1>1 DEF UnixInv, SockTyped, Budget, SameKind
<1>8. SockTyped'
  BY <1>1, <1>5, <1>6, <1>7 DEF UnixInv, SockTyped
<1>9. /\ \A x \in Socket : sock[x].life = "open" => sock'[x].life = "open"
      /\ \A x \in Socket : sock[x].life # "free" => sock'[x].life # "free" /\ sock'[x] = sock[x]
      /\ \A x \in Socket : sock'[x].life = "backlog" <=> sock[x].life = "backlog"
  BY <1>4, <1>5, <1>6
<1>10. CallsOpen' BY <1>1, <1>9 DEF UnixInv, CallsOpen
<1>11. /\ Fresh.peer = NoSocket /\ Fresh.pending = NoSocket /\ Fresh.backlog = <<>> /\ Fresh.connects = {}
       /\ Fresh.owner = FALSE /\ Fresh.queue = <<>> /\ Fresh.size = 0
  BY DEF Fresh
<1>a. \A x \in Socket : x = s \/ x = r =>
        /\ sock'[x].owner = FALSE /\ sock'[x].pending = NoSocket /\ sock'[x].backlog = <<>>
        /\ sock'[x].connects = {} /\ sock'[x].queue = <<>> /\ sock'[x].size = 0 /\ sock[x] = Fresh
  BY <1>4, <1>5, <1>6
<1>12. SameQueues
  BY <1>a, <1>6, <1>11, <1>1 DEF SameQueues
<1>13. \A x \in Socket : /\ sock'[x].owner = sock[x].owner /\ sock'[x].pending = sock[x].pending
                         /\ sock'[x].backlog = sock[x].backlog /\ sock'[x].connects = sock[x].connects
  BY <1>a, <1>6, <1>11
<1>14. FreeAsNew' BY <1>5, <1>6 DEF UnixInv, LinkInv, FreeAsNew
<1>15. BacklogHeld' /\ BacklogOnce' /\ BacklogOpen'
  BY <1>9, <1>13 DEF UnixInv, LinkInv, BacklogHeld, ToSet, BacklogOnce, BacklogOpen
<1>16. PendingKnown' /\ PendingLive'
  <2>1. PendingKnown' BY <1>13 DEF UnixInv, LinkInv, PendingKnown
  <2>2. PendingLive' BY <1>13, <1>9, <1>7 DEF UnixInv, LinkInv, PendingLive, ConnectionOriented, sockKind, SameKind
  <2> QED BY <2>1, <2>2
<1>17. PeersLive' /\ PeersMutual'
  <2>1. \A x \in Socket : x # s /\ x # r /\ sock'[x].peer \in Socket =>
            sock[x].peer \in Socket /\ sock'[x] = sock[x] /\ sock[sock[x].peer].life # "free"
    BY <1>6 DEF UnixInv, LinkInv, PeersLive
  <2>2. /\ sock'[s].peer = r /\ sock'[r].peer = s /\ sock'[s].life = "open" /\ sock'[r].life = "open"
        /\ sock'[s].established /\ sock'[r].established
    BY <1>5, <1>6
  <2>3. PeersLive' BY <2>1, <2>2, <1>9 DEF PeersLive
  <2>4. PeersMutual'
    BY <2>1, <2>2, <1>9, <1>7 DEF UnixInv, LinkInv, PeersMutual, ConnectionOriented, sockKind, SameKind
  <2> QED BY <2>3, <2>4
<1>18. BoundExact'
  <2>1. \A x \in Socket : sock'[x].owner => sock[x].owner /\ sock'[x] = sock[x] BY <1>a, <1>6
  <2> QED BY <2>1, <1>1, <1>9, SMTT(40) DEF UnixInv, LinkInv, BoundExact
<1>19. BoundReachable' BY <1>1, <1>5, <1>6 DEF UnixInv, LinkInv, BoundReachable, UserOf
<1>20. LinkInv' BY <1>14, <1>15, <1>16, <1>17, <1>18, <1>19 DEF LinkInv
<1> QED BY <1>7, <1>8, <1>10, <1>12, <1>20, QueuesKept DEF UnixInv

LEMMA BindKeeps ==
    ASSUME UnixInv, NEW s \in Socket, NEW a \in Address, Bind(s, a)
    PROVE  UnixInv'
<1>1. UNCHANGED <<sockCall, budget, sent, spliced>> BY DEF Bind
<1>2. CASE BindRefused(s, a)
  BY <1>2, <1>1, SocketsAlone DEF Bind, UnixInv, SockTyped, CallsOpen
<1>3. CASE ~BindRefused(s, a)
  <2>1. /\ sock' = [sock EXCEPT ![s].addr = a, ![s].owner = TRUE] /\ bound' = [bound EXCEPT ![a] = s]
        /\ sock[s].life = "open" /\ sock[s].addr = NoSocket /\ ~(bound[a] \in Socket /\ bound[a] # s)
    BY <1>3 DEF Bind, BindRefused, UserOf, Upgrades
  <2>2. sock \in [Socket -> SockState] /\ sock[s] \in SockState BY DEF UnixInv, SockTyped
  <2> DEFINE one == [sock[s] EXCEPT !.addr = a]
             new == [one EXCEPT !.owner = TRUE]
  <2>3. sock' = [sock EXCEPT ![s] = new] BY <2>1, <2>2 DEF SockState
  <2>a. TRUE \in Flag BY DEF Flag
  <2>4. /\ one \in SockState /\ one.addr = a /\ one.life = sock[s].life
        /\ one.peer = sock[s].peer /\ one.pending = sock[s].pending /\ one.established = sock[s].established
        /\ one.backlog = sock[s].backlog /\ one.connects = sock[s].connects /\ one.queue = sock[s].queue
        /\ one.size = sock[s].size
    BY <2>2, WithAddr
  <2> HIDE DEF one
  <2>5. /\ new \in SockState /\ new.addr = a /\ new.life = sock[s].life
        /\ new.peer = sock[s].peer /\ new.pending = sock[s].pending /\ new.established = sock[s].established
        /\ new.backlog = sock[s].backlog /\ new.connects = sock[s].connects /\ new.queue = sock[s].queue
        /\ new.size = sock[s].size
    BY <2>4, <2>a, WithOwner
  <2> HIDE DEF new
  <2>6. sock'[s] = new /\ \A x \in Socket : x # s => sock'[x] = sock[x] BY <2>2, <2>3
  <2>7. SockTyped'
    BY <2>2, <2>3, <2>5, <2>1, <1>1 DEF UnixInv, SockTyped, Weak
  <2>8. \A x \in Socket : /\ sock'[x].life = sock[x].life
                          /\ sock'[x].peer = sock[x].peer /\ sock'[x].pending = sock[x].pending
                          /\ sock'[x].established = sock[x].established
                          /\ sock'[x].backlog = sock[x].backlog /\ sock'[x].connects = sock[x].connects
                          /\ sock'[x].queue = sock[x].queue /\ sock'[x].size = sock[x].size
    BY <2>5, <2>6
  <2>9. CallsOpen' BY <1>1, <2>8 DEF UnixInv, CallsOpen
  <2>10. SameQueues /\ SameKind BY <1>1, <2>8 DEF SameQueues, SameKind
  <2>11. LinkInv'
    <3>1. FreeAsNew' BY <2>1, <2>5, <2>6 DEF UnixInv, LinkInv, FreeAsNew
    <3>2. BacklogHeld' /\ BacklogOnce' /\ BacklogOpen'
      BY <2>8 DEF UnixInv, LinkInv, BacklogHeld, ToSet, BacklogOnce, BacklogOpen
    <3>3. PendingKnown' BY <2>8 DEF UnixInv, LinkInv, PendingKnown
    <3>4. PendingLive' BY <2>8, <2>10 DEF UnixInv, LinkInv, PendingLive, ConnectionOriented, sockKind, SameKind
    <3>5. PeersLive' BY <2>8 DEF UnixInv, LinkInv, PeersLive
    <3>6. PeersMutual' BY <2>8, <2>10 DEF UnixInv, LinkInv, PeersMutual, ConnectionOriented, sockKind, SameKind
    <3>7. bound'[a] = s /\ \A b \in Address : b # a => bound'[b] = bound[b] BY <2>1 DEF UnixInv, SockTyped
    <3>a. \A x \in Socket : sock'[x].owner => sock'[x].addr \in Address /\ sock'[x].life = "open"
      BY <2>1, <2>5, <2>6, ZenonT(40) DEF UnixInv, LinkInv, BoundExact
    <3>8. BoundExact'
      <4> SUFFICES ASSUME NEW b \in Address, bound'[b] \in Socket
                   PROVE  sock'[bound'[b]].life = "open" /\ sock'[bound'[b]].addr = b
        BY <3>a DEF BoundExact
      <4>1. CASE b = a BY <4>1, <3>7, <2>1, <2>5, <2>6
      <4>2. CASE b # a
        <5>1. bound'[b] = bound[b] /\ sock[bound[b]].life = "open" /\ sock[bound[b]].addr = b
          BY <4>2, <3>7 DEF UnixInv, LinkInv, BoundExact
        <5>2. bound[b] # s BY <5>1, <2>1, SockNoneAssumption
        <5> QED BY <5>1, <5>2, <2>6, <3>7
      <4> QED BY <4>1, <4>2
    <3>9. BoundReachable'
      <4> SUFFICES ASSUME NEW x \in Socket, sock'[x].life = "open", sock'[x].owner
                   PROVE  bound'[sock'[x].addr] = x
        BY DEF BoundReachable, UserOf
      <4>1. CASE x = s BY <4>1, <3>7, <2>5, <2>6
      <4>2. CASE x # s
        <5>1. sock'[x] = sock[x] /\ bound[sock[x].addr] = x
          BY <4>2, <2>6 DEF UnixInv, LinkInv, BoundReachable, UserOf
        <5>2. sock[x].addr # a BY <5>1, <4>2, <2>1
        <5>3. sock[x].addr \in Address => bound'[sock[x].addr] = x BY <5>1, <5>2, <3>7
        <5>4. sock[x].addr \in Address BY <5>1, <3>a
        <5> QED BY <5>1, <5>3, <5>4
      <4> QED BY <4>1, <4>2
    <3> QED BY <3>1, <3>2, <3>3, <3>4, <3>5, <3>6, <3>8, <3>9 DEF LinkInv
  <2> QED BY <2>7, <2>9, <2>10, <2>11, QueuesKept DEF UnixInv
<1> QED BY <1>2, <1>3

-----------------------------------------------------------------------------
(* connect *)

\* Only who waits for whom changes.
LEMMA PendingMoved ==
    ASSUME UnixInv, SockTyped', CallsOpen', SameKind, FreeAsNew', PendingKnown', PendingLive',
           UNCHANGED <<bound, sent, spliced>>,
           \A x \in Socket :
              /\ sock'[x].life = sock[x].life /\ sock'[x].owner = sock[x].owner /\ sock'[x].addr = sock[x].addr
              /\ sock'[x].peer = sock[x].peer /\ sock'[x].established = sock[x].established
              /\ sock'[x].backlog = sock[x].backlog /\ sock'[x].queue = sock[x].queue
              /\ sock'[x].size = sock[x].size
    PROVE  UnixInv'
<1>1. BacklogHeld' BY DEF UnixInv, LinkInv, BacklogHeld, ToSet
<1>2. BacklogOnce' BY DEF UnixInv, LinkInv, BacklogOnce
<1>3. BacklogOpen' BY DEF UnixInv, LinkInv, BacklogOpen
<1>4. PeersLive' BY DEF UnixInv, LinkInv, PeersLive
<1>5. PeersMutual' BY DEF UnixInv, LinkInv, PeersMutual, SameKind, ConnectionOriented, sockKind
<1>6. BoundExact' BY DEF UnixInv, LinkInv, BoundExact
<1>7. BoundReachable' BY DEF UnixInv, LinkInv, BoundReachable, UserOf
<1>8. LinkInv' BY <1>1, <1>2, <1>3, <1>4, <1>5, <1>6, <1>7 DEF LinkInv
<1>9. SameQueues BY DEF SameQueues
<1> QED BY <1>8, <1>9, QueuesKept DEF UnixInv

\* clear_pending_connect: the socket is out of the index of its listener.
LEMMA ClearedFact ==
    ASSUME UnixInv, NEW c \in Socket
    PROVE  LET k == Cleared(sock, c) IN
           /\ k \in [Socket -> SockState]
           /\ \A x \in Socket :
              /\ k[x].life = sock[x].life /\ k[x].owner = sock[x].owner /\ k[x].addr = sock[x].addr
              /\ k[x].peer = sock[x].peer /\ k[x].established = sock[x].established
              /\ k[x].backlog = sock[x].backlog /\ k[x].queue = sock[x].queue /\ k[x].size = sock[x].size
              /\ k[x].rcvbuf = sock[x].rcvbuf
              /\ k[x].pending = IF x = c THEN NoSocket ELSE sock[x].pending
              /\ k[x] = sock[x] \/ x = c \/ x = sock[c].pending
           /\ \A x, y \in Socket : y \in k[x].connects <=> y # c /\ y \in sock[x].connects
<1> DEFINE k == Cleared(sock, c)
           p == sock[c].pending
           a == [sock[c] EXCEPT !.pending = NoSocket]
           b(x) == [sock[x] EXCEPT !.connects = @ \ {c}]
<1>0. sock \in [Socket -> SockState] BY DEF UnixInv, SockTyped
<1>1. k = [x \in Socket |-> IF x = c THEN a ELSE IF x = p THEN b(x) ELSE sock[x]]
  BY DEF Cleared
<1>2. /\ a \in SockState /\ a.life = sock[c].life /\ a.owner = sock[c].owner /\ a.addr = sock[c].addr
      /\ a.peer = sock[c].peer /\ a.established = sock[c].established /\ a.backlog = sock[c].backlog
      /\ a.queue = sock[c].queue /\ a.size = sock[c].size /\ a.rcvbuf = sock[c].rcvbuf
      /\ a.pending = NoSocket /\ a.connects = sock[c].connects
  BY <1>0, WithPending DEF Weak
<1>3. ASSUME NEW x \in Socket
      PROVE  /\ b(x) \in SockState /\ b(x).life = sock[x].life /\ b(x).owner = sock[x].owner /\ b(x).addr = sock[x].addr
             /\ b(x).peer = sock[x].peer /\ b(x).established = sock[x].established /\ b(x).backlog = sock[x].backlog
             /\ b(x).queue = sock[x].queue /\ b(x).size = sock[x].size /\ b(x).rcvbuf = sock[x].rcvbuf
             /\ b(x).pending = sock[x].pending /\ b(x).connects = sock[x].connects \ {c}
  <2>1. sock[x] \in SockState BY <1>0
  <2>2. sock[x].connects \ {c} \in SUBSET Socket BY <2>1 DEF SockState
  <2>3. b(x) = [sock[x] EXCEPT !.connects = sock[x].connects \ {c}] BY <2>1 DEF SockState
  <2> HIDE DEF b
  <2> QED BY <2>1, <2>2, <2>3, WithConnects
<1> HIDE DEF a, b, k
<1>4. k \in [Socket -> SockState] BY <1>0, <1>1, <1>2, <1>3
<1>5. /\ k[c] = a /\ \A x \in Socket : x # c /\ x = p => k[x] = b(x)
      /\ \A x \in Socket : x # c /\ x # p => k[x] = sock[x]
  BY <1>1
<1>6. \A x \in Socket :
         /\ k[x].life = sock[x].life /\ k[x].owner = sock[x].owner /\ k[x].addr = sock[x].addr
         /\ k[x].peer = sock[x].peer /\ k[x].established = sock[x].established
         /\ k[x].backlog = sock[x].backlog /\ k[x].queue = sock[x].queue /\ k[x].size = sock[x].size
         /\ k[x].rcvbuf = sock[x].rcvbuf
         /\ k[x].pending = IF x = c THEN NoSocket ELSE sock[x].pending
         /\ k[x] = sock[x] \/ x = c \/ x = p
  BY <1>2, <1>3, <1>5
<1>7. \A x \in Socket : c \in sock[x].connects <=> x = p
  BY DEF UnixInv, LinkInv, PendingKnown
<1>8. c # p
  BY DEF UnixInv, LinkInv, PendingLive
<1>9. \A x, y \in Socket : y \in k[x].connects <=> y # c /\ y \in sock[x].connects
  BY <1>2, <1>5, <1>7, <1>8, <1>3
<1> QED BY <1>4, <1>6, <1>9 DEF k

\* The connect has been refused: it waits no more.
LEMMA ClearedKeeps ==
    ASSUME UnixInv, NEW c \in Socket, sock[c].life = "open", sock' = Cleared(sock, c),
           sockCall' \in [SockThread -> CallState], CallsOpen',
           UNCHANGED <<bound, budget, sent, spliced>>
    PROVE  UnixInv'
<1> DEFINE k == Cleared(sock, c)
<1>1. /\ k \in [Socket -> SockState]
      /\ \A x \in Socket :
              /\ k[x].life = sock[x].life /\ k[x].owner = sock[x].owner /\ k[x].addr = sock[x].addr
              /\ k[x].peer = sock[x].peer /\ k[x].established = sock[x].established
              /\ k[x].backlog = sock[x].backlog /\ k[x].queue = sock[x].queue /\ k[x].size = sock[x].size
              /\ k[x].rcvbuf = sock[x].rcvbuf
              /\ k[x].pending = IF x = c THEN NoSocket ELSE sock[x].pending
              /\ k[x] = sock[x] \/ x = c \/ x = sock[c].pending
      /\ \A x, y \in Socket : y \in k[x].connects <=> y # c /\ y \in sock[x].connects
  BY ClearedFact
<1>2. sock' = k OBVIOUS
<1> HIDE DEF k
<1>3. SockTyped' BY <1>1, <1>2 DEF UnixInv, SockTyped
<1>4. FreeAsNew'
  BY <1>1, <1>2, FreeKept DEF UnixInv, LinkInv, PendingLive
<1>5. PendingKnown' BY <1>1, <1>2, SockNoneAssumption DEF UnixInv, LinkInv, PendingKnown
<1>6. PendingLive'
  BY <1>1, <1>2, SockNoneAssumption DEF UnixInv, LinkInv, PendingLive, ConnectionOriented, sockKind
<1>7. SameKind BY DEF SameKind
<1>8. \A x \in Socket :
              /\ sock'[x].life = sock[x].life /\ sock'[x].owner = sock[x].owner /\ sock'[x].addr = sock[x].addr
              /\ sock'[x].peer = sock[x].peer /\ sock'[x].established = sock[x].established
              /\ sock'[x].backlog = sock[x].backlog /\ sock'[x].queue = sock[x].queue
              /\ sock'[x].size = sock[x].size
  BY <1>1, <1>2
<1> QED BY <1>3, <1>4, <1>5, <1>6, <1>7, <1>8, PendingMoved

\* The backlog is full: the connect waits for room.
Pended(c, l) == [Cleared(sock, c) EXCEPT ![c].pending = l, ![l].connects = @ \cup {c}]

LEMMA PendedFact ==
    ASSUME UnixInv, NEW c \in Socket, NEW l \in Socket, c # l
    PROVE  LET k == Pended(c, l) IN
           /\ k \in [Socket -> SockState]
           /\ \A x \in Socket :
              /\ k[x].life = sock[x].life /\ k[x].owner = sock[x].owner /\ k[x].addr = sock[x].addr
              /\ k[x].peer = sock[x].peer /\ k[x].established = sock[x].established
              /\ k[x].backlog = sock[x].backlog /\ k[x].queue = sock[x].queue /\ k[x].size = sock[x].size
              /\ k[x].pending = IF x = c THEN l ELSE sock[x].pending
              /\ k[x] = sock[x] \/ x = c \/ x = l \/ x = sock[c].pending
           /\ \A x, y \in Socket : y \in k[x].connects <=> IF y = c THEN x = l ELSE y \in sock[x].connects
<1> DEFINE k == Cleared(sock, c)
           nc == [k[c] EXCEPT !.pending = l]
           nl == [k[l] EXCEPT !.connects = @ \cup {c}]
           new == Pended(c, l)
<1>1. /\ k \in [Socket -> SockState]
      /\ \A x \in Socket :
              /\ k[x].life = sock[x].life /\ k[x].owner = sock[x].owner /\ k[x].addr = sock[x].addr
              /\ k[x].peer = sock[x].peer /\ k[x].established = sock[x].established
              /\ k[x].backlog = sock[x].backlog /\ k[x].queue = sock[x].queue /\ k[x].size = sock[x].size
              /\ k[x].pending = IF x = c THEN NoSocket ELSE sock[x].pending
              /\ k[x] = sock[x] \/ x = c \/ x = sock[c].pending
      /\ \A x, y \in Socket : y \in k[x].connects <=> y # c /\ y \in sock[x].connects
  BY ClearedFact
<1>2. new = [k EXCEPT ![c].pending = l, ![l].connects = @ \cup {c}] BY DEF Pended
<1> HIDE DEF k, new
<1>3. k[c] \in SockState /\ k[l] \in SockState /\ l \in Weak BY <1>1 DEF Weak
<1>4. new = [x \in Socket |-> IF x = l THEN nl ELSE IF x = c THEN nc ELSE k[x]]
  BY <1>1, <1>2 DEF SockState
<1>5. /\ nc \in SockState /\ nc.life = k[c].life /\ nc.owner = k[c].owner /\ nc.addr = k[c].addr
      /\ nc.peer = k[c].peer /\ nc.established = k[c].established /\ nc.backlog = k[c].backlog
      /\ nc.queue = k[c].queue /\ nc.size = k[c].size /\ nc.pending = l /\ nc.connects = k[c].connects
  BY <1>3, WithPending
<1>6. /\ nl \in SockState /\ nl.life = k[l].life /\ nl.owner = k[l].owner /\ nl.addr = k[l].addr
      /\ nl.peer = k[l].peer /\ nl.established = k[l].established /\ nl.backlog = k[l].backlog
      /\ nl.queue = k[l].queue /\ nl.size = k[l].size /\ nl.pending = k[l].pending
      /\ nl.connects = k[l].connects \cup {c}
  <2>1. nl = [k[l] EXCEPT !.connects = k[l].connects \cup {c}] BY <1>3 DEF SockState
  <2>2. k[l].connects \cup {c} \in SUBSET Socket BY <1>3 DEF SockState
  <2> HIDE DEF nl
  <2> QED BY <1>3, <2>1, <2>2, WithConnects
<1> HIDE DEF nc, nl
<1>7. /\ new[c] = nc /\ new[l] = nl /\ \A x \in Socket : x # c /\ x # l => new[x] = k[x] BY <1>4
<1>8. \A x \in Socket :
              /\ new[x].life = sock[x].life /\ new[x].owner = sock[x].owner /\ new[x].addr = sock[x].addr
              /\ new[x].peer = sock[x].peer /\ new[x].established = sock[x].established
              /\ new[x].backlog = sock[x].backlog /\ new[x].queue = sock[x].queue
              /\ new[x].size = sock[x].size /\ new[x].pending = IF x = c THEN l ELSE sock[x].pending
  BY <1>1, <1>5, <1>6, <1>7
<1>9. \A x, y \in Socket : y \in new[x].connects <=> IF y = c THEN x = l ELSE y \in sock[x].connects
  BY <1>1, <1>5, <1>6, <1>7
<1>10. new \in [Socket -> SockState] BY <1>1, <1>4, <1>5, <1>6
<1>11. \A x \in Socket : new[x] = sock[x] \/ x = c \/ x = l \/ x = sock[c].pending BY <1>1, <1>7
<1> QED BY <1>8, <1>9, <1>10, <1>11 DEF new

LEMMA WaitsKeeps ==
    ASSUME UnixInv, NEW c \in Socket, NEW l \in Socket, c # l, sock[c].life = "open", sock[l].life = "open",
           ConnectionOriented, sock' = Pended(c, l),
           sockCall' \in [SockThread -> CallState], CallsOpen',
           UNCHANGED <<bound, budget, sent, spliced>>
    PROVE  UnixInv'
<1> DEFINE k == Pended(c, l)
<1>1. /\ k \in [Socket -> SockState]
      /\ \A x \in Socket :
              /\ k[x].life = sock[x].life /\ k[x].owner = sock[x].owner /\ k[x].addr = sock[x].addr
              /\ k[x].peer = sock[x].peer /\ k[x].established = sock[x].established
              /\ k[x].backlog = sock[x].backlog /\ k[x].queue = sock[x].queue /\ k[x].size = sock[x].size
              /\ k[x].pending = IF x = c THEN l ELSE sock[x].pending
              /\ k[x] = sock[x] \/ x = c \/ x = l \/ x = sock[c].pending
      /\ \A x, y \in Socket : y \in k[x].connects <=> IF y = c THEN x = l ELSE y \in sock[x].connects
  BY PendedFact
<1>2. sock' = k OBVIOUS
<1> HIDE DEF k
<1>3. SockTyped' BY <1>1, <1>2 DEF UnixInv, SockTyped
<1>4. FreeAsNew'
  BY <1>1, <1>2, FreeKept DEF UnixInv, LinkInv, PendingLive
<1>5. PendingKnown' BY <1>1, <1>2 DEF UnixInv, LinkInv, PendingKnown
<1>6. PendingLive'
  BY <1>1, <1>2 DEF UnixInv, LinkInv, PendingLive, ConnectionOriented, sockKind
<1>7. SameKind BY DEF SameKind
<1>8. \A x \in Socket :
              /\ sock'[x].life = sock[x].life /\ sock'[x].owner = sock[x].owner /\ sock'[x].addr = sock[x].addr
              /\ sock'[x].peer = sock[x].peer /\ sock'[x].established = sock[x].established
              /\ sock'[x].backlog = sock[x].backlog /\ sock'[x].queue = sock[x].queue
              /\ sock'[x].size = sock[x].size
  BY <1>1, <1>2
<1> QED BY <1>3, <1>4, <1>5, <1>6, <1>7, <1>8, PendingMoved

\* The connection is made: the client and the socket to be accepted know each
\* other, and the listener has the latter in its backlog.
IsEstablished(k, c, l, v) ==
    /\ k \in [Socket -> SockState]
    /\ \A x \in Socket :
       /\ k[x].life = IF x = v THEN "backlog" ELSE sock[x].life
       /\ k[x].owner = sock[x].owner
       /\ k[x].addr = IF x = v THEN sock[l].addr ELSE sock[x].addr
       /\ k[x].peer = IF x = v THEN c ELSE IF x = c THEN v ELSE sock[x].peer
       /\ x = v \/ x = c => k[x].established = TRUE
       /\ x # v /\ x # c => k[x].established = sock[x].established
       /\ k[x].backlog = IF x = l THEN Append(sock[l].backlog, v) ELSE sock[x].backlog
       /\ k[x].queue = sock[x].queue /\ k[x].size = sock[x].size
       /\ k[x].pending = IF x = c THEN NoSocket ELSE sock[x].pending
       /\ k[x] = sock[x] \/ x \in {c, l, v} \/ x = sock[c].pending
    /\ \A x, y \in Socket : y \in k[x].connects <=> y # c /\ y \in sock[x].connects

LEMMA EstablishedFact ==
    ASSUME UnixInv, NEW c \in Socket, NEW l \in Socket, NEW v \in Socket, c # l, c # v, l # v,
           sock[v] = Fresh
    PROVE  IsEstablished(Established(Cleared(sock, c), c, l, v), c, l, v)
<1> DEFINE k == Cleared(sock, c)
           nv == [Fresh EXCEPT !.life = "backlog", !.addr = k[l].addr, !.rcvbuf = k[l].rcvbuf,
                               !.established = TRUE, !.peer = c]
           one == [k[c] EXCEPT !.peer = v]
           nc == [one EXCEPT !.established = TRUE]
           nl == [k[l] EXCEPT !.backlog = Append(@, v)]
           new == Established(Cleared(sock, c), c, l, v)
<1>1. /\ k \in [Socket -> SockState]
      /\ \A x \in Socket :
              /\ k[x].life = sock[x].life /\ k[x].owner = sock[x].owner /\ k[x].addr = sock[x].addr
              /\ k[x].peer = sock[x].peer /\ k[x].established = sock[x].established
              /\ k[x].backlog = sock[x].backlog /\ k[x].queue = sock[x].queue /\ k[x].size = sock[x].size
              /\ k[x].pending = IF x = c THEN NoSocket ELSE sock[x].pending
              /\ k[x] = sock[x] \/ x = c \/ x = sock[c].pending
      /\ \A x, y \in Socket : y \in k[x].connects <=> y # c /\ y \in sock[x].connects
  BY ClearedFact
<1>2. new = [k EXCEPT ![v] = nv, ![c].peer = v, ![c].established = TRUE, ![l].backlog = Append(@, v)]
  BY DEF Established
<1> HIDE DEF k, new, nv
<1>3. k[c] \in SockState /\ k[l] \in SockState /\ v \in Weak /\ c \in Weak /\ TRUE \in Flag BY <1>1 DEF Weak, Flag
<1>4. new = [x \in Socket |-> IF x = l THEN nl ELSE IF x = c THEN nc ELSE IF x = v THEN nv ELSE k[x]]
  BY <1>1, <1>2 DEF SockState
<1>5. /\ one \in SockState /\ one.life = k[c].life /\ one.owner = k[c].owner /\ one.addr = k[c].addr
      /\ one.peer = v /\ one.backlog = k[c].backlog
      /\ one.queue = k[c].queue /\ one.size = k[c].size /\ one.pending = k[c].pending /\ one.connects = k[c].connects
  BY <1>3, WithPeer
<1> HIDE DEF one
<1>6. /\ nc \in SockState /\ nc.life = k[c].life /\ nc.owner = k[c].owner /\ nc.addr = k[c].addr
      /\ nc.peer = v /\ nc.established = TRUE /\ nc.backlog = k[c].backlog
      /\ nc.queue = k[c].queue /\ nc.size = k[c].size /\ nc.pending = k[c].pending /\ nc.connects = k[c].connects
  BY <1>3, <1>5, WithEstablished
<1>7. /\ nl \in SockState /\ nl.life = k[l].life /\ nl.owner = k[l].owner /\ nl.addr = k[l].addr
      /\ nl.peer = k[l].peer /\ nl.established = k[l].established /\ nl.backlog = Append(k[l].backlog, v)
      /\ nl.queue = k[l].queue /\ nl.size = k[l].size /\ nl.pending = k[l].pending
      /\ nl.connects = k[l].connects
  <2>1. nl = [k[l] EXCEPT !.backlog = Append(k[l].backlog, v)] BY <1>3 DEF SockState
  <2>2. Append(k[l].backlog, v) \in Seq(Socket) BY <1>3 DEF SockState
  <2> HIDE DEF nl
  <2> QED BY <1>3, <2>1, <2>2, WithBacklog
<1>8. /\ nv \in SockState /\ nv.life = "backlog" /\ nv.owner = FALSE /\ nv.addr = k[l].addr /\ nv.peer = c
      /\ nv.pending = NoSocket /\ nv.established = TRUE /\ nv.backlog = <<>> /\ nv.connects = {}
      /\ nv.queue = <<>> /\ nv.size = 0
  <2>1. "backlog" \in Life /\ k[l].addr \in Address \cup {NoSocket} /\ k[l].rcvbuf \in Nat
    BY <1>3 DEF SockState, Life
  <2>2. nv = Connected("backlog", k[l].addr, k[l].rcvbuf, c) BY DEF nv, Connected
  <2>3. IsConnected(Connected("backlog", k[l].addr, k[l].rcvbuf, c), "backlog", k[l].addr, c)
    BY <2>1, <1>3, BornConnected, Zenon
  <2> QED BY <2>2, <2>3 DEF IsConnected
<1> HIDE DEF nc, nl
<1>9. /\ Fresh.owner = FALSE /\ Fresh.pending = NoSocket /\ Fresh.backlog = <<>> /\ Fresh.connects = {}
      /\ Fresh.queue = <<>> /\ Fresh.size = 0
  BY DEF Fresh
<1>10. /\ new[c] = nc /\ new[l] = nl /\ new[v] = nv
       /\ \A x \in Socket : x # c /\ x # l /\ x # v => new[x] = k[x]
  BY <1>4
<1>11. ASSUME NEW x \in Socket
       PROVE  /\ new[x].life = IF x = v THEN "backlog" ELSE sock[x].life
              /\ new[x].owner = sock[x].owner
              /\ new[x].addr = IF x = v THEN sock[l].addr ELSE sock[x].addr
              /\ new[x].peer = IF x = v THEN c ELSE IF x = c THEN v ELSE sock[x].peer
              /\ x = v \/ x = c => new[x].established = TRUE
              /\ x # v /\ x # c => new[x].established = sock[x].established
              /\ new[x].backlog = IF x = l THEN Append(sock[l].backlog, v) ELSE sock[x].backlog
              /\ new[x].queue = sock[x].queue /\ new[x].size = sock[x].size
              /\ new[x].pending = IF x = c THEN NoSocket ELSE sock[x].pending
              /\ \A y \in Socket : y \in new[x].connects <=> y # c /\ y \in sock[x].connects
  <2>1. CASE x = c BY <2>1, <1>1, <1>6, <1>10
  <2>2. CASE x = l BY <2>2, <1>1, <1>7, <1>10
  <2>3. CASE x = v BY <2>3, <1>1, <1>8, <1>9, <1>10
  <2>4. CASE x # c /\ x # l /\ x # v BY <2>4, <1>1, <1>10
  <2> QED BY <2>1, <2>2, <2>3, <2>4
<1>12. new \in [Socket -> SockState] BY <1>1, <1>4, <1>6, <1>7, <1>8
<1>13. \A x \in Socket : new[x] = sock[x] \/ x \in {c, l, v} \/ x = sock[c].pending BY <1>1, <1>10
<1>14. \A x \in Socket :
              /\ new[x].life = IF x = v THEN "backlog" ELSE sock[x].life
              /\ new[x].owner = sock[x].owner
              /\ new[x].addr = IF x = v THEN sock[l].addr ELSE sock[x].addr
              /\ new[x].peer = IF x = v THEN c ELSE IF x = c THEN v ELSE sock[x].peer
              /\ x = v \/ x = c => new[x].established = TRUE
              /\ x # v /\ x # c => new[x].established = sock[x].established
              /\ new[x].backlog = IF x = l THEN Append(sock[l].backlog, v) ELSE sock[x].backlog
              /\ new[x].queue = sock[x].queue /\ new[x].size = sock[x].size
              /\ new[x].pending = IF x = c THEN NoSocket ELSE sock[x].pending
              /\ \A y \in Socket : y \in new[x].connects <=> y # c /\ y \in sock[x].connects
  BY <1>11
<1> QED BY <1>12, <1>13, <1>14 DEF new, IsEstablished

LEMMA EstablishedKeeps ==
    ASSUME UnixInv, NEW c \in Socket, NEW l \in Socket, c # l, sock[c].life = "open", sock[l].life = "open",
           Free # {}, sock[c].peer \notin Socket, sock' = Established(Cleared(sock, c), c, l, NextFree),
           sockCall' \in [SockThread -> CallState], CallsOpen',
           UNCHANGED <<bound, budget, sent, spliced>>
    PROVE  UnixInv'
<1>1. PICK v \in Socket : v = NextFree /\ sock[v] = Fresh /\ sock[v].life = "free" BY FreeIsNew
<1> DEFINE k == Established(Cleared(sock, c), c, l, v)
<1>2. c # v /\ l # v BY <1>1
<1>3. /\ k \in [Socket -> SockState]
      /\ \A x \in Socket :
              /\ k[x].life = IF x = v THEN "backlog" ELSE sock[x].life
              /\ k[x].owner = sock[x].owner
              /\ k[x].addr = IF x = v THEN sock[l].addr ELSE sock[x].addr
              /\ k[x].peer = IF x = v THEN c ELSE IF x = c THEN v ELSE sock[x].peer
              /\ x = v \/ x = c => k[x].established = TRUE
              /\ x # v /\ x # c => k[x].established = sock[x].established
              /\ k[x].backlog = IF x = l THEN Append(sock[l].backlog, v) ELSE sock[x].backlog
              /\ k[x].queue = sock[x].queue /\ k[x].size = sock[x].size
              /\ k[x].pending = IF x = c THEN NoSocket ELSE sock[x].pending
              /\ k[x] = sock[x] \/ x \in {c, l, v} \/ x = sock[c].pending
      /\ \A x, y \in Socket : y \in k[x].connects <=> y # c /\ y \in sock[x].connects
  <2>1. IsEstablished(k, c, l, v) BY <1>1, <1>2, EstablishedFact
  <2> HIDE DEF k
  <2> QED BY <2>1 DEF IsEstablished
<1>4. sock' = k BY <1>1
<1> HIDE DEF k
<1>5. SockTyped' BY <1>3, <1>4 DEF UnixInv, SockTyped
<1>6. FreeAsNew'
  BY <1>2, <1>3, <1>4, FreeKept DEF UnixInv, LinkInv, PendingLive
<1>7. PendingKnown' BY <1>3, <1>4, SockNoneAssumption DEF UnixInv, LinkInv, PendingKnown
<1>8. PendingLive'
  BY <1>3, <1>4, SockNoneAssumption DEF UnixInv, LinkInv, PendingLive, ConnectionOriented, sockKind
<1>9. SameQueues /\ SameKind BY <1>3, <1>4 DEF SameQueues, SameKind
<1>10. PICK b \in Seq(Socket) : b = sock[l].backlog BY DEF UnixInv, SockTyped, SockState
<1>11. /\ Append(b, v) \in Seq(Socket) /\ Len(Append(b, v)) = Len(b) + 1 /\ Len(b) \in Nat
       /\ \A i \in 1..Len(b) : Append(b, v)[i] = b[i]
       /\ Append(b, v)[Len(b) + 1] = v
  OBVIOUS
<1>12. PICK b2 \in Seq(Socket) : b2 = Append(b, v) BY <1>11
<1>13. /\ Len(b2) = Len(b) + 1 /\ Len(b) \in Nat /\ \A i \in 1..Len(b) : b2[i] = b[i]
       /\ b2[Len(b) + 1] = v
  BY <1>11, <1>12
<1>14. \A x \in Socket : sock'[x].backlog = IF x = l THEN b2 ELSE sock[x].backlog
  BY <1>3, <1>4, <1>10, <1>12
<1>15. \A m \in Socket : \A i \in 1..Len(sock[m].backlog) : sock[m].backlog[i] # v
  <2> SUFFICES ASSUME NEW m \in Socket, NEW i \in 1..Len(sock[m].backlog), sock[m].backlog[i] = v PROVE FALSE
    OBVIOUS
  <2>1. sock[m].backlog \in Seq(Socket) BY DEF UnixInv, SockTyped, SockState
  <2>2. v \in ToSet(sock[m].backlog) BY <2>1 DEF ToSet
  <2> QED BY <2>2, <1>1 DEF UnixInv, LinkInv, BacklogHeld
<1>16. BacklogHeld'
  <2>1. ToSet(b2) = ToSet(b) \cup {v}
    <3>1. \A i \in 1..Len(b2) : b2[i] \in ToSet(b) \cup {v}
      BY <1>13 DEF ToSet
    <3>2. v \in ToSet(b2)
      BY <1>13 DEF ToSet
    <3>3. ToSet(b) \subseteq ToSet(b2)
      BY <1>13 DEF ToSet
    <3>4. ToSet(b2) \subseteq ToSet(b) \cup {v} BY <3>1 DEF ToSet
    <3> QED BY <3>2, <3>3, <3>4
  <2>2. \A x \in Socket : ToSet(sock'[x].backlog) = IF x = l THEN ToSet(sock[x].backlog) \cup {v}
                                                    ELSE ToSet(sock[x].backlog)
    BY <2>1, <1>14, <1>10
  <2>3. \A x \in Socket : sock'[x].life = "backlog" <=> x = v \/ sock[x].life = "backlog" BY <1>3, <1>4
  <2> QED BY <2>2, <2>3 DEF UnixInv, LinkInv, BacklogHeld
<1>17. BacklogOnce'
  <2> SUFFICES ASSUME NEW x \in Socket, NEW m \in Socket,
                      NEW i \in 1..Len(sock'[x].backlog), NEW j \in 1..Len(sock'[m].backlog),
                      sock'[x].backlog[i] = sock'[m].backlog[j]
               PROVE  x = m /\ i = j
    BY DEF BacklogOnce
  <2> DEFINE Old(y, n) == n \in 1..Len(sock[y].backlog) /\ sock'[y].backlog[n] = sock[y].backlog[n]
             Added(y, n) == y = l /\ n = Len(b) + 1 /\ sock'[y].backlog[n] = v
  <2>1. ASSUME NEW y \in Socket, NEW n \in 1..Len(sock'[y].backlog) PROVE Old(y, n) \/ Added(y, n)
    <3>1. CASE y # l BY <3>1, <1>14
    <3>2. CASE y = l /\ n \in 1..Len(b) BY <3>2, <1>13, <1>14, <1>10
    <3>3. CASE y = l /\ n \notin 1..Len(b)
      BY <3>3, <1>14, <1>13
    <3> QED BY <3>1, <3>2, <3>3
  <2>2. (Old(x, i) \/ Added(x, i)) /\ (Old(m, j) \/ Added(m, j)) BY <2>1
  <2>3. CASE Old(x, i) /\ Old(m, j)
    <3>1. /\ i \in 1..Len(sock[x].backlog) /\ j \in 1..Len(sock[m].backlog)
          /\ sock[x].backlog[i] = sock[m].backlog[j]
      BY <2>3
    <3>2. BacklogOnce BY DEF UnixInv, LinkInv
    <3> HIDE DEF Old, Added
    <3> QED BY <3>1, <3>2 DEF BacklogOnce
  <2>4. CASE Added(x, i) /\ Added(m, j) BY <2>4
  <2>5. CASE Old(x, i) /\ Added(m, j) BY <2>5, <1>15
  <2>6. CASE Added(x, i) /\ Old(m, j) BY <2>6, <1>15
  <2> QED BY <2>2, <2>3, <2>4, <2>5, <2>6
<1>18. BacklogOpen' BY <1>2, <1>3, <1>4, <1>14, <1>1 DEF UnixInv, LinkInv, BacklogOpen
<1>19. PeersLive'
  BY <1>1, <1>2, <1>3, <1>4 DEF UnixInv, LinkInv, PeersLive
<1>20. PeersMutual'
  <2> SUFFICES ASSUME ConnectionOriented, NEW x \in Socket, sock'[x].peer \in Socket
               PROVE  sock'[sock'[x].peer].peer = x /\ sock'[x].established
    BY DEF PeersMutual, ConnectionOriented, sockKind
  <2>1. CASE x = v \/ x = c BY <2>1, <1>2, <1>3, <1>4
  <2>2. CASE x # v /\ x # c
    <3>1. PICK p \in Socket : p = sock[x].peer BY <2>2, <1>3, <1>4
    <3>2. sock[p].life # "free" /\ sock[p].peer = x /\ sock[x].established
      BY <3>1 DEF UnixInv, LinkInv, PeersLive, PeersMutual
    <3>3. p # v /\ p # c BY <3>2, <1>1
    <3> QED BY <2>2, <3>1, <3>2, <3>3, <1>3, <1>4
  <2> QED BY <2>1, <2>2
<1>21. BoundExact'
  BY <1>1, <1>3, <1>4 DEF UnixInv, LinkInv, BoundExact, Fresh
<1>22. BoundReachable'
  BY <1>3, <1>4 DEF UnixInv, LinkInv, BoundReachable, UserOf
<1>23. LinkInv' BY <1>6, <1>7, <1>8, <1>16, <1>17, <1>18, <1>19, <1>20, <1>21, <1>22 DEF LinkInv
<1> QED BY <1>5, <1>9, <1>23, QueuesKept DEF UnixInv

\* A call made with arguments of the right kinds.
IsCall(call, s, len, flag) == call \in CallState /\ call.s = s /\ call.len = len /\ call.flag = flag

LEMMA CallTyped ==
    ASSUME NEW op \in {"connect", "accept", "send", "recv"}, NEW s \in Socket, NEW len \in Nat,
           NEW anc \in Flag, NEW flag \in Address \cup {"none"}
    PROVE  IsCall(Call(op, s, len, anc, flag), s, len, flag)
BY DEF Call, CallState, IsCall

LEMMA ConnectCallTyped ==
    ASSUME NEW s \in Socket, NEW call \in ConnectCalls(s)
    PROVE  call \in CallState /\ call.s = s /\ call.flag \in Address
<1>1. PICK a \in Address : call = Call("connect", s, 0, FALSE, a) BY DEF ConnectCalls
<1>2. FALSE \in Flag BY DEF Flag
<1>3. 0 \in Nat /\ a \in Address \cup {"none"} OBVIOUS
<1>4. IsCall(Call("connect", s, 0, FALSE, a), s, 0, a) BY <1>2, <1>3, CallTyped, Zenon
<1> QED BY <1>1, <1>4 DEF IsCall

LEMMA TryConnectKeeps ==
    ASSUME UnixInv, NEW t \in SockThread, NEW c \in Socket, NEW call \in ConnectCalls(c), TryConnect(t, call)
    PROVE  UnixInv'
<1>1. call \in CallState /\ call.s = c /\ call.flag \in Address BY ConnectCallTyped
<1>2. PICK l : l = bound[call.flag] OBVIOUS
<1>3. /\ Calling(t, call) /\ ConnectionOriented /\ ~sock[c].listening /\ UNCHANGED <<budget, bound, sent, spliced>>
  BY <1>1 DEF TryConnect, KeepQueues
<1>4. sock[c].life = "open" BY <1>1, <1>3, CalledOpen
<1>5. \/ \E N : Returns(t, N) /\ UNCHANGED sock
      \/ \E N : Returns(t, N) /\ sock' = Cleared(sock, c)
      \/ l \in Socket /\ sock[l].listening /\ sock' = Pended(c, l) /\ WouldBlockIn(t, call)
      \/ /\ l \in Socket /\ sock[l].listening /\ Free # {} /\ sock[c].peer \notin Socket
         /\ sock' = Established(Cleared(sock, c), c, l, NextFree) /\ \E N : Returns(t, N)
  BY <1>1, <1>2, Zenon DEF TryConnect, Resolves, Upgrades, PeerOf, Pended
<1>6. l \in Socket => sock[l].life = "open" BY <1>1, <1>2 DEF UnixInv, LinkInv, BoundExact
<1>7. l \in Socket /\ sock[l].listening => c # l BY <1>3
<1>8. CASE \E N : Returns(t, N) /\ UNCHANGED sock
  BY <1>8, CallOver, <1>3, SocketsAlone
<1>9. CASE \E N : Returns(t, N) /\ sock' = Cleared(sock, c)
  BY <1>9, ClearedFact, CallOver, <1>3, <1>4, ClearedKeeps
<1>10. CASE l \in Socket /\ sock[l].listening /\ sock' = Pended(c, l) /\ WouldBlockIn(t, call)
  BY <1>7, <1>10, PendedFact, <1>1, <1>3, CallWaits, <1>4, <1>6, WaitsKeeps
<1>11. CASE /\ l \in Socket /\ sock[l].listening /\ Free # {} /\ sock[c].peer \notin Socket
            /\ sock' = Established(Cleared(sock, c), c, l, NextFree) /\ \E N : Returns(t, N)
  <2>1. PICK v \in Socket : v = NextFree /\ sock[v] = Fresh /\ sock[v].life = "free" BY <1>11, FreeIsNew
  <2>2. IsEstablished(sock', c, l, v) BY <1>4, <1>6, <1>7, <1>11, <2>1, EstablishedFact
  <2>3. \A x \in Socket : sock[x].life = "open" => sock'[x].life = "open" BY <2>1, <2>2 DEF IsEstablished
  <2>4. sockCall' \in [SockThread -> CallState] /\ CallsOpen' BY <1>11, <2>3, CallOver
  <2> QED BY <1>3, <1>4, <1>6, <1>7, <1>11, <2>4, EstablishedKeeps
<1> QED BY <1>5, <1>8, <1>9, <1>10, <1>11

\* A datagram socket is pointed at another.
LEMMA TryConnectDgramKeeps ==
    ASSUME UnixInv, NEW t \in SockThread, NEW c \in Socket, NEW call \in ConnectCalls(c), TryConnectDgram(t, call)
    PROVE  UnixInv'
<1>1. call \in CallState /\ call.s = c /\ call.flag \in Address BY ConnectCallTyped
<1>2. PICK p : p = bound[call.flag] OBVIOUS
<1>3. /\ Calling(t, call) /\ ~ConnectionOriented /\ UNCHANGED <<budget, bound, sent, spliced>>
  BY <1>1 DEF TryConnectDgram, KeepQueues, ConnectionOriented
<1>4. sock[c].life = "open" BY <1>1, <1>3, CalledOpen
<1>5. CASE ~Resolves(call.flag)
  BY <1>5, CallOver, <1>3, SocketsAlone DEF TryConnectDgram
<1>6. CASE Resolves(call.flag)
  <2>1. /\ p \in Socket /\ Returns(t, {<<c, "WRITE">>})
        /\ sock' = [sock EXCEPT ![c].peer = p, ![c].pending = NoSocket, ![c].established = TRUE]
    BY <1>1, <1>2, <1>6 DEF TryConnectDgram, Resolves, Upgrades
  <2>2. sock[p].life = "open" BY <1>1, <1>2, <2>1 DEF UnixInv, LinkInv, BoundExact
  <2>3. sock \in [Socket -> SockState] /\ sock[c] \in SockState BY DEF UnixInv, SockTyped
  <2>4. sock[c].pending \notin Socket BY <1>3 DEF UnixInv, LinkInv, PendingLive
  <2> DEFINE n1 == [sock[c] EXCEPT !.peer = p]
             n2 == [n1 EXCEPT !.pending = NoSocket]
             n3 == [n2 EXCEPT !.established = TRUE]
  <2>5. sock' = [sock EXCEPT ![c] = n3] BY <2>1, <2>3 DEF SockState
  <2>6. p \in Weak /\ NoSocket \in Weak /\ TRUE \in Flag BY <2>1 DEF Weak, Flag
  <2>7. /\ n1 \in SockState /\ n1.life = sock[c].life /\ n1.owner = sock[c].owner /\ n1.addr = sock[c].addr
        /\ n1.peer = p /\ n1.backlog = sock[c].backlog /\ n1.connects = sock[c].connects
        /\ n1.queue = sock[c].queue /\ n1.size = sock[c].size
    BY <2>3, <2>6, WithPeer
  <2> HIDE DEF n1
  <2>8. /\ n2 \in SockState /\ n2.life = sock[c].life /\ n2.owner = sock[c].owner /\ n2.addr = sock[c].addr
        /\ n2.peer = p /\ n2.backlog = sock[c].backlog /\ n2.connects = sock[c].connects
        /\ n2.queue = sock[c].queue /\ n2.size = sock[c].size /\ n2.pending = NoSocket
    BY <2>7, <2>6, WithPending
  <2> HIDE DEF n2
  <2>9. /\ n3 \in SockState /\ n3.life = sock[c].life /\ n3.owner = sock[c].owner /\ n3.addr = sock[c].addr
        /\ n3.peer = p /\ n3.backlog = sock[c].backlog /\ n3.connects = sock[c].connects
        /\ n3.queue = sock[c].queue /\ n3.size = sock[c].size /\ n3.pending = NoSocket
    BY <2>8, <2>6, WithEstablished
  <2> HIDE DEF n3
  <2>10. sock'[c] = n3 /\ \A x \in Socket : x # c => sock'[x] = sock[x] BY <2>3, <2>5
  <2>11. \A x \in Socket :
            /\ sock'[x].life = sock[x].life /\ sock'[x].owner = sock[x].owner /\ sock'[x].addr = sock[x].addr
            /\ sock'[x].backlog = sock[x].backlog /\ sock'[x].connects = sock[x].connects
            /\ sock'[x].queue = sock[x].queue /\ sock'[x].size = sock[x].size
            /\ sock'[x].peer = IF x = c THEN p ELSE sock[x].peer
            /\ sock'[x].pending = IF x = c THEN NoSocket ELSE sock[x].pending
    BY <2>9, <2>10
  <2>12. sock' \in [Socket -> SockState] BY <2>3, <2>5, <2>9
  <2>13. sockCall' \in [SockThread -> CallState] /\ CallsOpen' BY <2>1, <2>11, CallOver
  <2>14. SockTyped' BY <1>3, <2>12, <2>13 DEF UnixInv, SockTyped
  <2>15. SameQueues /\ SameKind BY <1>3, <2>11 DEF SameQueues, SameKind
  <2>16. ~ConnectionOriented' BY <1>3 DEF ConnectionOriented, sockKind
  <2>17. LinkInv'
    <3>1. FreeAsNew'
      BY <1>4, <2>9, <2>10, FreeKept DEF UnixInv, LinkInv
    <3>2. BacklogHeld' BY <2>11 DEF UnixInv, LinkInv, BacklogHeld, ToSet
    <3>3. BacklogOnce' BY <2>11, SMTT(40) DEF UnixInv, LinkInv, BacklogOnce
    <3>4. BacklogOpen' BY <2>11 DEF UnixInv, LinkInv, BacklogOpen
    <3>5. PendingKnown' BY <2>4, <2>11, SockNoneAssumption DEF UnixInv, LinkInv, PendingKnown
    <3>6. PendingLive'
      BY <1>3, <2>11, SockNoneAssumption DEF UnixInv, LinkInv, PendingLive
    <3>7. PeersLive'
      <4> SUFFICES ASSUME NEW x \in Socket, sock'[x].peer \in Socket
                   PROVE  sock'[sock'[x].peer].life # "free"
        BY DEF PeersLive
      <4>1. CASE x = c
        BY <4>1, <2>9, <2>10, <2>1, <2>2, <2>11
      <4>2. CASE x # c
        BY <4>2, <2>10, <2>11 DEF UnixInv, LinkInv, PeersLive
      <4> QED BY <4>1, <4>2
    <3>8. PeersMutual' BY <2>16 DEF PeersMutual
    <3>9. BoundExact' BY <1>3, <2>11 DEF UnixInv, LinkInv, BoundExact
    <3>10. BoundReachable' BY <1>3, <2>11 DEF UnixInv, LinkInv, BoundReachable, UserOf
    <3> QED BY <3>1, <3>2, <3>3, <3>4, <3>5, <3>6, <3>7, <3>8, <3>9, <3>10 DEF LinkInv
  <2> QED BY <2>13, <2>14, <2>15, <2>17, QueuesKept DEF UnixInv
<1> QED BY <1>5, <1>6

-----------------------------------------------------------------------------
(* accept *)

LEMMA TryAcceptKeeps ==
    ASSUME UnixInv, NEW t \in SockThread, NEW l \in Socket, TryAccept(t, AcceptCall(l))
    PROVE  UnixInv'
<1>0. AcceptCall(l) \in CallState /\ AcceptCall(l).s = l
  <2>1. FALSE \in Flag BY DEF Flag
  <2>2. 0 \in Nat OBVIOUS
  <2>3. IsCall(AcceptCall(l), l, 0, "none") BY <2>1, <2>2, CallTyped, Zenon DEF AcceptCall
  <2> QED BY <2>3 DEF IsCall
<1>1. PICK call \in CallState : call = AcceptCall(l) /\ call.s = l BY <1>0
<1>2. Calling(t, call) /\ UNCHANGED <<budget, bound, sent, spliced>> BY <1>1 DEF TryAccept, KeepQueues
<1>3. \/ UNCHANGED sock /\ (WouldBlockIn(t, call) \/ \E N : Returns(t, N))
      \/ /\ sock[l].backlog # <<>> /\ \E N : Returns(t, N)
         /\ sock' = [sock EXCEPT ![l].backlog = Tail(@), ![Head(sock[l].backlog)].life = "open"]
  BY <1>1, Zenon DEF TryAccept
<1>4. CASE UNCHANGED sock /\ (WouldBlockIn(t, call) \/ \E N : Returns(t, N))
  BY <1>1, <1>2, <1>4, CallOver, CallWaits, SocketsAlone
<1>5. CASE /\ sock[l].backlog # <<>> /\ \E N : Returns(t, N)
           /\ sock' = [sock EXCEPT ![l].backlog = Tail(@), ![Head(sock[l].backlog)].life = "open"]
  <2>0. sock \in [Socket -> SockState] /\ sock[l] \in SockState BY DEF UnixInv, SockTyped
  <2>1. PICK b \in Seq(Socket) : b = sock[l].backlog /\ b # <<>> BY <1>5, <2>0 DEF SockState
  <2>2. PICK h : h = Head(b) OBVIOUS
  <2>3. PICK rest : rest = Tail(b) OBVIOUS
  <2>4. /\ h \in Socket /\ rest \in Seq(Socket) /\ Len(b) \in Nat /\ Len(rest) = Len(b) - 1 /\ h = b[1]
        /\ Len(b) >= 1 /\ Len(rest) \in Nat /\ \A i \in 1..Len(rest) : rest[i] = b[i + 1]
    BY <2>1, <2>2, <2>3
  <2>5. sock[l].life = "open" BY <2>1 DEF UnixInv, LinkInv, BacklogOpen
  <2>6. sock[h].life = "backlog"
    BY <2>1, <2>4 DEF ToSet, UnixInv, LinkInv, BacklogHeld
  <2>7. h # l BY <2>5, <2>6
  <2> DEFINE nl == [sock[l] EXCEPT !.backlog = rest]
             nh == [sock[h] EXCEPT !.life = "open"]
  <2>8. sock' = [x \in Socket |-> IF x = l THEN nl ELSE IF x = h THEN nh ELSE sock[x]]
    BY <1>5, <2>0, <2>1, <2>2, <2>3, <2>4, <2>7 DEF SockState
  <2>9. /\ nl \in SockState /\ nl.life = sock[l].life /\ nl.owner = sock[l].owner /\ nl.addr = sock[l].addr
        /\ nl.peer = sock[l].peer /\ nl.established = sock[l].established /\ nl.backlog = rest
        /\ nl.queue = sock[l].queue /\ nl.size = sock[l].size /\ nl.pending = sock[l].pending
        /\ nl.connects = sock[l].connects
    BY <2>0, <2>4, WithBacklog
  <2>10. /\ nh \in SockState /\ nh.life = "open" /\ nh.owner = sock[h].owner /\ nh.addr = sock[h].addr
        /\ nh.peer = sock[h].peer /\ nh.established = sock[h].established /\ nh.backlog = sock[h].backlog
        /\ nh.queue = sock[h].queue /\ nh.size = sock[h].size /\ nh.pending = sock[h].pending
        /\ nh.connects = sock[h].connects
    BY <2>0, <2>4, WithLife DEF Life
  <2> HIDE DEF nl, nh
  <2>11. sock'[l] = nl /\ sock'[h] = nh /\ \A x \in Socket : x # l /\ x # h => sock'[x] = sock[x]
    BY <2>4, <2>7, <2>8
  <2>12. \A x \in Socket :
            /\ sock'[x].owner = sock[x].owner /\ sock'[x].addr = sock[x].addr
            /\ sock'[x].peer = sock[x].peer /\ sock'[x].established = sock[x].established
            /\ sock'[x].pending = sock[x].pending /\ sock'[x].connects = sock[x].connects
            /\ sock'[x].queue = sock[x].queue /\ sock'[x].size = sock[x].size
            /\ sock'[x].life = IF x = h THEN "open" ELSE sock[x].life
            /\ sock'[x].backlog = IF x = l THEN rest ELSE sock[x].backlog
    BY <2>7, <2>9, <2>10, <2>11
  <2>13. sock' \in [Socket -> SockState] BY <2>0, <2>8, <2>9, <2>10
  <2>14. sockCall' \in [SockThread -> CallState] /\ CallsOpen' BY <1>5, <2>12, CallOver
  <2>15. SockTyped' BY <1>2, <2>13, <2>14 DEF UnixInv, SockTyped
  <2>16. SameQueues /\ SameKind BY <1>2, <2>12 DEF SameQueues, SameKind
  <2>17. \A x \in Socket : sock[x].life # "free" => sock'[x].life # "free" BY <2>12
  <2>18. FreeAsNew'
    BY <2>5, <2>11, <2>12, FreeKept DEF UnixInv, LinkInv
  <2>19. ASSUME NEW x \in Socket, NEW i \in 1..Len(sock'[x].backlog)
         PROVE  \E j \in 1..Len(sock[x].backlog) : /\ sock'[x].backlog[i] = sock[x].backlog[j]
                                                   /\ j = (IF x = l THEN i + 1 ELSE i)
    <3>1. CASE x = l
      BY <3>1, <2>12, <2>4, <2>1
    <3>2. CASE x # l BY <3>2, <2>12
    <3> QED BY <3>1, <3>2
  <2>20. BacklogOnce'
    BY <2>19 DEF BacklogOnce, UnixInv, LinkInv
  <2>21. BacklogHeld'
    <3>1. ASSUME NEW x \in Socket, NEW y \in Socket, x \in ToSet(sock[y].backlog), x # h
          PROVE  x \in ToSet(sock'[y].backlog)
      <4>0. sock[y].backlog \in Seq(Socket) BY <2>0 DEF SockState
      <4>1. PICK i \in 1..Len(sock[y].backlog) : sock[y].backlog[i] = x BY <3>1, <4>0 DEF ToSet
      <4>2. CASE y # l BY <4>2, <3>1, <2>12
      <4>3. CASE y = l
        <5>1. i # 1 /\ i \in 1..Len(b) BY <4>1, <4>3, <3>1, <2>1, <2>4
        <5>2. i - 1 \in 1..Len(rest) /\ (i - 1) + 1 = i BY <5>1, <2>4
        <5>3. rest[i - 1] = x BY <5>2, <4>1, <4>3, <2>1, <2>4
        <5>4. x \in ToSet(rest) BY <5>2, <5>3, <2>4 DEF ToSet
        <5> QED BY <5>4, <4>3, <2>12
      <4> QED BY <4>2, <4>3
    <3>2. ASSUME NEW x \in Socket, NEW y \in Socket, x \in ToSet(sock'[y].backlog)
          PROVE  x \in ToSet(sock[y].backlog) /\ x # h
      <4>0. sock[y].backlog \in Seq(Socket) /\ sock'[y].backlog \in Seq(Socket) BY <2>0, <2>13 DEF SockState
      <4>1. PICK i \in 1..Len(sock'[y].backlog) : sock'[y].backlog[i] = x BY <3>2, <4>0 DEF ToSet
      <4>2. PICK j \in 1..Len(sock[y].backlog) : x = sock[y].backlog[j] /\ j = (IF y = l THEN i + 1 ELSE i)
        BY <4>1, <2>19
      <4>3. x \in ToSet(sock[y].backlog) BY <4>0, <4>2 DEF ToSet
      <4>4. x # h
        BY <2>1, <2>4, <4>2 DEF UnixInv, LinkInv, BacklogOnce
      <4> QED BY <4>3, <4>4
    <3>3. \A x \in Socket : sock'[x].life = "backlog" <=> sock[x].life = "backlog" /\ x # h BY <2>12
    <3>4. ASSUME NEW x \in Socket
          PROVE  (\E y \in Socket : x \in ToSet(sock'[y].backlog)) <=>
                    x # h /\ \E y \in Socket : x \in ToSet(sock[y].backlog)
      BY <3>1, <3>2
    <3> QED BY <3>3, <3>4 DEF UnixInv, LinkInv, BacklogHeld
  <2>22. BacklogOpen'
    BY <2>5, <2>12 DEF UnixInv, LinkInv, BacklogOpen
  <2>23. PendingKnown' BY <2>12 DEF UnixInv, LinkInv, PendingKnown
  <2>24. PendingLive'
    BY <2>12, <2>16, <2>17 DEF UnixInv, LinkInv, PendingLive, SameKind, ConnectionOriented, sockKind
  <2>25. PeersLive' BY <2>12, <2>17 DEF UnixInv, LinkInv, PeersLive
  <2>26. PeersMutual'
    BY <2>12, <2>16 DEF UnixInv, LinkInv, PeersMutual, SameKind, ConnectionOriented, sockKind
  <2>27. BoundExact' BY <1>2, <2>12 DEF UnixInv, LinkInv, BoundExact
  <2>28. BoundReachable'
    BY <2>6, <1>2, <2>12 DEF UnixInv, LinkInv, BoundExact, BoundReachable, UserOf
  <2>29. LinkInv' BY <2>18, <2>20, <2>21, <2>22, <2>23, <2>24, <2>25, <2>26, <2>27, <2>28 DEF LinkInv
  <2> QED BY <2>14, <2>15, <2>16, <2>29, QueuesKept DEF UnixInv
<1> QED BY <1>3, <1>4, <1>5

-----------------------------------------------------------------------------
(* send and receive *)

\* The links stay, one queue changes.
OneQueue(s, q, n) ==
    /\ sock' = [sock EXCEPT ![s].queue = q, ![s].size = n]
    /\ UNCHANGED bound

LEMMA QueueOnly ==
    ASSUME UnixInv, NEW s \in Socket, NEW q \in Seq(Item), NEW n \in Nat, OneQueue(s, q, n),
           sock[s].life # "free", SameKind
    PROVE  /\ sock' \in [Socket -> SockState] /\ LinkInv' /\ SameLinks
           /\ sock'[s].queue = q /\ sock'[s].size = n
           /\ \A x \in Socket : x # s => sock'[x] = sock[x]
<1>1. sock \in [Socket -> SockState] /\ sock[s] \in SockState BY DEF UnixInv, SockTyped
<1> DEFINE one == [sock[s] EXCEPT !.queue = q]
           new == [one EXCEPT !.size = n]
<1>2. sock' = [sock EXCEPT ![s] = new] /\ bound' = bound BY <1>1 DEF OneQueue, SockState
<1>3. /\ one \in SockState /\ one.queue = q /\ one.life = sock[s].life /\ one.owner = sock[s].owner
      /\ one.addr = sock[s].addr /\ one.peer = sock[s].peer /\ one.pending = sock[s].pending
      /\ one.established = sock[s].established /\ one.backlog = sock[s].backlog /\ one.connects = sock[s].connects
  BY <1>1, WithQueue
<1> HIDE DEF one
<1>4. /\ new \in SockState /\ new.queue = q /\ new.size = n /\ new.life = sock[s].life /\ new.owner = sock[s].owner
      /\ new.addr = sock[s].addr /\ new.peer = sock[s].peer /\ new.pending = sock[s].pending
      /\ new.established = sock[s].established /\ new.backlog = sock[s].backlog /\ new.connects = sock[s].connects
  BY <1>3, WithSize
<1> HIDE DEF new
<1>5. sock' \in [Socket -> SockState] BY <1>1, <1>2, <1>4
<1>6. sock'[s] = new /\ \A x \in Socket : x # s => sock'[x] = sock[x] BY <1>1, <1>2
<1>7. SameLinks BY <1>4, <1>6 DEF SameLinks
<1>8. FreeAsNew'
  BY <1>4, <1>6, FreeKept DEF UnixInv, LinkInv
<1>9. LinkInv' BY <1>2, <1>7, <1>8, LinksKept DEF UnixInv
<1> QED BY <1>4, <1>5, <1>6, <1>7, <1>9

\* The items of a queue.
LEMMA Items ==
    ASSUME NEW q \in Seq(Item), NEW i \in 1..Len(q)
    PROVE  q[i] \in Item /\ q[i].no \in Nat /\ q[i].anc \in Nat /\ q[i].len \in Nat
<1>1. q[i] \in Item OBVIOUS
<1> QED BY <1>1 DEF Item

\* A read of a stream stops before the next chunk with ancillary data.
LEMMA JoinedFact ==
    ASSUME NEW q \in Seq(Item), q # <<>>,
           q[1].anc > 0 => q[1].anc <= Len(q) /\ \A j \in 2..q[1].anc : q[j].anc = 0
    PROVE  Joined(q) \in 1..Len(q) /\ \A i \in 2..Joined(q) : q[i].anc = 0
<1>1. Len(q) \in Nat /\ Len(q) >= 1 /\ \A i \in 1..Len(q) : q[i].anc \in Nat
  BY Items
<1>2. CASE q[1].anc > 0
  BY <1>1, <1>2 DEF Joined
<1>3. CASE ~(q[1].anc > 0)
  <2> DEFINE marks == {i \in 2..Len(q) : q[i].anc > 0}
  <2>1. Joined(q) = IF marks = {} THEN Len(q) ELSE (CHOOSE m \in marks : \A i \in marks : m <= i) - 1
    BY <1>3 DEF Joined
  <2>2. \A i \in 2..Len(q) : i \notin marks => q[i].anc = 0
    BY <1>1
  <2>3. CASE marks = {}
    BY <2>1, <2>3, <2>2, <1>1
  <2>4. CASE marks # {}
    <3>1. marks \subseteq Nat BY <1>1
    <3>2. marks \subseteq 2..Len(q) OBVIOUS
    <3> HIDE DEF marks
    <3>3. PICK m \in marks : \A i \in marks : m <= i
      <4>1. PICK m \in marks : \A i \in marks : ~(<<i, m>> \in OpToRel(<, Nat))
        BY <2>4, <3>1, NatLessThanWellFounded, WFMin, Zenon
      <4>2. \A i \in marks : ~(i < m) BY <4>1, <3>1 DEF OpToRel
      <4>3. \A i \in marks : i \in Nat /\ m \in Nat BY <3>1
      <4> QED BY <4>2, <4>3
    <3>4. PICK k : k = CHOOSE m1 \in marks : \A i \in marks : m1 <= i OBVIOUS
    <3>5. k \in marks /\ \A i \in marks : k <= i BY <3>3, <3>4
    <3>6. k \in 2..Len(q) BY <3>2, <3>5
    <3>7. Joined(q) = k - 1 BY <2>1, <2>4, <3>4
    <3>8. Joined(q) \in 1..Len(q) BY <3>6, <3>7, <1>1
    <3>9. ASSUME NEW i \in 2..Joined(q) PROVE q[i].anc = 0
      BY <3>6, <3>7, <1>1, <3>5, <2>2
    <3> QED BY <3>8, <3>9
  <2> QED BY <2>3, <2>4
<1> QED BY <1>2, <1>3

LEMMA StreamJoined ==
    ASSUME UnixInv, NEW s \in Socket, Stream, sock[s].queue # <<>>
    PROVE  LET q == sock[s].queue IN
           Joined(q) \in 1..Len(q) /\ \A i \in 2..Joined(q) : q[i].anc = 0
<1>1. PICK q : q = sock[s].queue OBVIOUS
<1>2. q \in Seq(Item) /\ q # <<>> BY <1>1 DEF UnixInv, SockTyped, SockState
<1>3. Len(q) \in Nat /\ 1 \in 1..Len(q) BY <1>2
<1>4. q[1].anc \in Nat BY <1>2, <1>3, Items
<1>5. q[1].anc > 0 => /\ 1 + q[1].anc - 1 <= Len(q)
                      /\ \A j \in (1 + 1)..(1 + q[1].anc - 1) : q[j].anc = 0
  BY <1>1, <1>3 DEF UnixInv, StreamExact
<1>6. 1 + q[1].anc - 1 = q[1].anc /\ 1 + 1 = 2 BY <1>4
<1>7. q[1].anc > 0 => q[1].anc <= Len(q) /\ \A j \in 2..q[1].anc : q[j].anc = 0 BY <1>5, <1>6
<1>8. Joined(q) \in 1..Len(q) /\ \A i \in 2..Joined(q) : q[i].anc = 0 BY <1>2, <1>7, JoinedFact
<1> QED BY <1>1, <1>8

LEMMA PeekKeeps ==
    ASSUME UnixInv, NEW s \in Socket, NEW len \in 1..Buffer, Peek(s, len)
    PROVE  UnixInv'
<1>1. PICK q : q = sock[s].queue OBVIOUS
<1>2. /\ q # <<>> /\ Stream /\ spliced' = (spliced \/ \E i \in 2..Lowest(len, Joined(q)) : q[i].anc > 0)
      /\ UNCHANGED <<sock, bound, sockCall, budget, sent>>
  BY <1>1 DEF Peek
<1>3. Joined(q) \in 1..Len(q) /\ \A i \in 2..Joined(q) : q[i].anc = 0 BY <1>1, <1>2, StreamJoined
<1>4. q \in Seq(Item) BY <1>1 DEF UnixInv, SockTyped, SockState
<1>5. len \in Nat /\ Joined(q) \in Nat BY <1>3, <1>4, SockSizeAssumption
<1>6. \A i \in 2..Lowest(len, Joined(q)) : i \in 2..Joined(q) BY <1>5 DEF Lowest
<1>7. \A i \in 2..Lowest(len, Joined(q)) : ~(q[i].anc > 0) BY <1>3, <1>6
<1>8. spliced' => spliced BY <1>2, <1>7
<1>9. SameLinks /\ SameQueues /\ SameKind BY <1>2, <1>8 DEF SameLinks, SameQueues, SameKind
<1>10. SockTyped' /\ CallsOpen' BY <1>2 DEF UnixInv, SockTyped, CallsOpen
<1> QED BY <1>2, <1>9, <1>10, QuietSockets

\* A queue without its first n items.
LEMMA Suffix ==
    ASSUME NEW q \in Seq(Item), NEW n \in Nat, n <= Len(q)
    PROVE  LET r == SubSeq(q, n + 1, Len(q)) IN
           /\ r \in Seq(Item) /\ Len(r) = Len(q) - n
           /\ \A i \in 1..Len(r) : r[i] = q[n + 1 + i - 1]
  OBVIOUS

\* What a receive takes leaves the queue from its front.
LEMMA Dequeued ==
    ASSUME UnixInv, NEW s \in Socket, NEW q, q = sock[s].queue, NEW n \in 1..Len(q),
           NEW taken \in Nat, q[n].no = Consumed(s) + taken, Stream => taken = n,
           OneQueue(s, SubSeq(q, n + 1, Len(q)), sock[s].size - taken),
           sock[s].life # "free", UNCHANGED <<budget, sent>>, ~spliced',
           sockCall' \in [SockThread -> CallState], CallsOpen'
    PROVE  UnixInv'
<1>1. q \in Seq(Item) /\ sock[s].size \in Nat /\ sent[s] \in Nat
  BY DEF UnixInv, SockTyped, SockState
<1>2. PICK r : r = SubSeq(q, n + 1, Len(q)) OBVIOUS
<1>3. PICK m : m = sock[s].size - taken OBVIOUS
<1>4. Len(q) \in Nat /\ n \in Nat /\ n >= 1 /\ n <= Len(q) BY <1>1
<1>5. /\ r \in Seq(Item) /\ Len(r) = Len(q) - n /\ Len(r) \in Nat
      /\ \A i \in 1..Len(r) : r[i] = q[n + i] /\ n + i \in 1..Len(q)
  BY <1>1, <1>2, <1>4, Suffix
<1>6. m \in Nat
  BY <1>1, Items, <1>3 DEF UnixInv, Numbered, Consumed
<1>7. SameKind BY DEF SameKind
<1>8. OneQueue(s, r, m) BY <1>2, <1>3
<1>9. /\ sock' \in [Socket -> SockState] /\ LinkInv'
      /\ sock'[s].queue = r /\ sock'[s].size = m
      /\ \A x \in Socket : x # s => sock'[x] = sock[x]
  BY <1>5, <1>6, <1>7, <1>8, QueueOnly
<1>10. SockTyped' BY <1>9 DEF UnixInv, SockTyped, OneQueue
<1>11. \A i \in 1..Len(q) : q[i].no = (IF i = 1 THEN Consumed(s) ELSE q[i - 1].no) + q[i].len
  BY DEF UnixInv, QueueExact
<1>12. Consumed(s)' = q[n].no /\ Consumed(s) \in Int /\ q[n].no \in Nat
  <2>1. q[n].no \in Nat BY <1>1, Items
  <2>2. Consumed(s)' = sent[s] - m BY <1>9 DEF Consumed
  <2>3. Consumed(s) \in Int BY <1>1 DEF Consumed
  <2>4. PICK a \in Nat : a = sent[s] BY <1>1
  <2>5. PICK b \in Nat : b = sock[s].size BY <1>1
  <2>6. q[n].no = (a - b) + taken /\ m = b - taken BY <2>4, <2>5, <1>3 DEF Consumed
  <2>7. (a - b) + taken = a - (b - taken) OBVIOUS
  <2> QED BY <2>1, <2>2, <2>3, <2>4, <2>6, <2>7
<1>13. \A i \in 1..Len(r) : r[i].no = (IF i = 1 THEN q[n].no ELSE r[i - 1].no) + r[i].len
  <2> SUFFICES ASSUME NEW i \in 1..Len(r)
               PROVE  r[i].no = (IF i = 1 THEN q[n].no ELSE r[i - 1].no) + r[i].len
    OBVIOUS
  <2>1. r[i] = q[n + i] /\ n + i \in 1..Len(q) /\ n + i # 1 BY <1>4, <1>5
  <2>2. q[n + i].no = q[n + i - 1].no + q[n + i].len BY <2>1, <1>11
  <2>3. CASE i = 1
    BY <2>3, <1>4, <2>1, <2>2
  <2>4. CASE i # 1
    <3>1. i - 1 \in 1..Len(r) /\ n + i - 1 = n + (i - 1) BY <2>4, <1>4, <1>5
    <3>2. r[i - 1] = q[n + i - 1] BY <3>1, <1>5
    <3> QED BY <3>2, <2>1, <2>2, <2>4
  <2> QED BY <2>3, <2>4
<1>14. sent[s] = IF r = <<>> THEN q[n].no ELSE r[Len(r)].no
  <2>1. q # <<>> BY <1>4
  <2>2. sent[s] = q[Len(q)].no BY <2>1 DEF UnixInv, QueueExact
  <2>3. CASE r = <<>>
    BY <2>3, <1>4, <1>5, <2>2
  <2>4. CASE r # <<>>
    <3>1. Len(r) \in 1..Len(r) BY <2>4, <1>5
    <3>2. n + Len(r) = Len(q) BY <1>4, <1>5
    <3>3. r[Len(r)] = q[Len(q)] BY <3>1, <3>2, <1>5
    <3> QED BY <3>3, <2>2, <2>4
  <2> QED BY <2>3, <2>4
<1>15. QueueExact'
  <2> SUFFICES ASSUME NEW x \in Socket
               PROVE  LET k == sock'[x].queue IN
                      /\ \A i \in 1..Len(k) : k[i].no = (IF i = 1 THEN Consumed(x)' ELSE k[i - 1].no) + k[i].len
                      /\ sent'[x] = IF k = <<>> THEN Consumed(x)' ELSE k[Len(k)].no
    BY DEF QueueExact
  <2>1. CASE x = s
    BY <2>1, <1>9, <1>12, <1>13, <1>14
  <2>2. CASE x # s
    BY <2>2, <1>9 DEF Consumed, UnixInv, QueueExact
  <2> QED BY <2>1, <2>2
<1>16. Numbered'
  <2> SUFFICES ASSUME NEW x \in Socket, NEW i \in 1..Len(sock'[x].queue)
               PROVE  sock'[x].queue[i].no <= sent[x]
    BY DEF Numbered
  <2>1. CASE x = s
    BY <2>1, <1>5, <1>9 DEF UnixInv, Numbered
  <2>2. CASE x # s BY <2>2, <1>9 DEF UnixInv, Numbered
  <2> QED BY <2>1, <2>2
<1>17. StreamExact'
  <2> SUFFICES ASSUME Stream, NEW x \in Socket
               PROVE  LET k == sock'[x].queue IN
                      /\ sock'[x].size = Len(k)
                      /\ \A i \in 1..Len(k) :
                            /\ k[i].no = sent[x] - Len(k) + i
                            /\ k[i].len = 1
                            /\ k[i].anc > 0 => /\ i + k[i].anc - 1 <= Len(k)
                                               /\ \A j \in (i + 1)..(i + k[i].anc - 1) : k[j].anc = 0
    BY DEF StreamExact, Stream, sockKind
  <2>1. CASE x # s
    BY <2>1, <1>9 DEF UnixInv, StreamExact
  <2>2. CASE x = s
    <3>1. sock'[x].queue = r /\ sock'[x].size = m /\ taken = n BY <2>2, <1>9
    <3>2. /\ sock[s].size = Len(q)
          /\ \A i \in 1..Len(q) :
                /\ q[i].no = sent[s] - Len(q) + i
                /\ q[i].len = 1
                /\ q[i].anc > 0 => /\ i + q[i].anc - 1 <= Len(q)
                                   /\ \A j \in (i + 1)..(i + q[i].anc - 1) : q[j].anc = 0
      BY DEF UnixInv, StreamExact
    <3>3. m = Len(r) BY <3>1, <3>2, <1>3, <1>5
    <3>4. ASSUME NEW i \in 1..Len(r)
          PROVE  /\ r[i].no = sent[s] - Len(r) + i
                 /\ r[i].len = 1
                 /\ r[i].anc > 0 => /\ i + r[i].anc - 1 <= Len(r)
                                    /\ \A j \in (i + 1)..(i + r[i].anc - 1) : r[j].anc = 0
      <4>1. r[i] = q[n + i] /\ n + i \in 1..Len(q) BY <1>5
      <4>2. q[n + i].no = sent[s] - Len(q) + (n + i) /\ q[n + i].len = 1 BY <4>1, <3>2
      <4>3. r[i].no = sent[s] - Len(r) + i BY <4>1, <4>2, <1>1, <1>4, <1>5
      <4>4. PICK a \in Nat : a = q[n + i].anc BY <4>1, <1>1, Items
      <4>5. a > 0 => (n + i) + a - 1 <= Len(q) /\ \A j \in ((n + i) + 1)..((n + i) + a - 1) : q[j].anc = 0
        BY <4>1, <4>4, <3>2
      <4>6. a > 0 => i + a - 1 <= Len(r) BY <4>5, <1>4, <1>5
      <4>7. ASSUME a > 0, NEW j \in (i + 1)..(i + a - 1) PROVE r[j].anc = 0
        <5>1. j \in 1..Len(r) BY <4>6, <4>7, <1>5
        <5>2. n + j \in ((n + i) + 1)..((n + i) + a - 1) BY <1>4, <1>5, <4>7
        <5>3. r[j] = q[n + j] BY <5>1, <1>5
        <5> QED BY <5>2, <5>3, <4>5, <4>7
      <4> QED BY <4>1, <4>2, <4>3, <4>4, <4>6, <4>7
    <3> QED BY <2>2, <3>1, <3>3, <3>4
  <2> QED BY <2>1, <2>2
<1> QED BY <1>9, <1>10, <1>15, <1>16, <1>17 DEF UnixInv

LEMMA RecvCallTyped ==
    ASSUME NEW s \in Socket, NEW call \in RecvCalls(s)
    PROVE  call \in CallState /\ call.s = s /\ call.len \in Nat /\ call.len >= 1
<1>1. PICK len \in 1..Buffer : call = Call("recv", s, len, FALSE, "none") BY DEF RecvCalls
<1>2. FALSE \in Flag BY DEF Flag
<1>3. len \in Nat /\ len >= 1 BY SockSizeAssumption
<1>4. IsCall(Call("recv", s, len, FALSE, "none"), s, len, "none") BY <1>2, <1>3, CallTyped, Zenon
<1> QED BY <1>1, <1>3, <1>4 DEF IsCall

\* What a receive takes is in the queue.
LEMMA Received ==
    ASSUME UnixInv, NEW s \in Socket, NEW q, q = sock[s].queue, q # <<>>, NEW len \in Nat, len >= 1,
           NEW n, n = IF Stream THEN Lowest(len, Joined(q)) ELSE 1,
           NEW taken, taken = IF Stream THEN n ELSE q[1].len
    PROVE  /\ n \in 1..Len(q) /\ \A i \in 2..n : ~(q[i].anc > 0)
           /\ taken \in Nat /\ q[n].no = Consumed(s) + taken /\ (Stream => taken = n)
<1>1. q \in Seq(Item) /\ sock[s].size \in Nat /\ sent[s] \in Nat
  BY DEF UnixInv, SockTyped, SockState
<1>2. Len(q) \in Nat /\ Len(q) >= 1 BY <1>1
<1>3. CASE Stream
  <2>1. Joined(q) \in 1..Len(q) /\ \A i \in 2..Joined(q) : q[i].anc = 0 BY <1>3, StreamJoined
  <2>2. n = Lowest(len, Joined(q)) /\ taken = n BY <1>3
  <2>3. n \in 1..Len(q) /\ n <= Joined(q) BY <2>1, <2>2, <1>2 DEF Lowest
  <2>4. \A i \in 2..n : i \in 2..Joined(q) BY <2>1, <2>3, <1>2
  <2>5. \A i \in 2..n : ~(q[i].anc > 0) BY <2>1, <2>4
  <2>6. q[n].no = sent[s] - Len(q) + n /\ sock[s].size = Len(q)
    BY <1>3, <2>3 DEF UnixInv, StreamExact
  <2>7. q[n].no = Consumed(s) + n BY <2>6, <2>3, <1>1, <1>2 DEF Consumed
  <2> QED BY <2>2, <2>3, <2>5, <2>7
<1>4. CASE ~Stream
  BY <1>4, <1>2, <1>1, Items DEF UnixInv, QueueExact
<1> QED BY <1>3, <1>4

LEMMA TryRecvKeeps ==
    ASSUME UnixInv, NEW t \in SockThread, NEW s \in Socket, NEW call \in RecvCalls(s), TryRecv(t, call)
    PROVE  UnixInv'
<1>1. call \in CallState /\ call.s = s /\ call.len \in Nat /\ call.len >= 1 BY RecvCallTyped
<1>2. PICK q : q = sock[s].queue OBVIOUS
<1>3. PICK n : n = IF Stream THEN Lowest(call.len, Joined(q)) ELSE 1 OBVIOUS
<1>4. PICK taken : taken = IF Stream THEN n ELSE q[1].len OBVIOUS
<1>5. Calling(t, call) /\ UNCHANGED <<bound, budget, sent>> BY DEF TryRecv
<1>6. \/ UNCHANGED <<sock, spliced>> /\ (WouldBlockIn(t, call) \/ \E N : Returns(t, N))
      \/ /\ q # <<>> /\ spliced' = (spliced \/ \E i \in 2..n : q[i].anc > 0)
         /\ sock' = [sock EXCEPT ![s].queue = SubSeq(q, n + 1, Len(q)), ![s].size = @ - taken]
         /\ \E N : Returns(t, N)
  BY <1>1, <1>2, <1>3, <1>4, Zenon DEF TryRecv
<1>7. sock[s].life = "open" BY <1>1, <1>5, CalledOpen
<1>8. CASE UNCHANGED <<sock, spliced>> /\ (WouldBlockIn(t, call) \/ \E N : Returns(t, N))
  BY <1>1, <1>5, <1>8, CallOver, CallWaits, SocketsAlone
<1>9. CASE /\ q # <<>> /\ spliced' = (spliced \/ \E i \in 2..n : q[i].anc > 0)
           /\ sock' = [sock EXCEPT ![s].queue = SubSeq(q, n + 1, Len(q)), ![s].size = @ - taken]
           /\ \E N : Returns(t, N)
  <2>3. /\ n \in 1..Len(q) /\ \A i \in 2..n : ~(q[i].anc > 0)
        /\ taken \in Nat /\ q[n].no = Consumed(s) + taken /\ (Stream => taken = n)
    BY <1>1, <1>2, <1>3, <1>4, <1>9, Received, SMTT(40)
  <2>4. ~spliced' BY <1>9, <2>3 DEF UnixInv, QueueExact
  <2>5. OneQueue(s, SubSeq(q, n + 1, Len(q)), sock[s].size - taken)
    BY <1>9, <1>5 DEF UnixInv, SockTyped, SockState, OneQueue
  <2>6. \A x \in Socket : sock'[x].life = sock[x].life
    BY <1>9 DEF UnixInv, SockTyped, SockState
  <2>7. sockCall' \in [SockThread -> CallState] /\ CallsOpen' BY <1>9, <2>6, CallOver
  <2> QED BY <1>2, <1>5, <1>7, <2>3, <2>4, <2>5, <2>7, Dequeued
<1> QED BY <1>6, <1>8, <1>9

\* What a send queues: numbered from the last byte sent on.
Numbers(items, p, count) ==
    /\ items \in Seq(Item) /\ Len(items) >= 1
    /\ \A k \in 1..Len(items) :
          /\ items[k].no = (IF k = 1 THEN sent[p] ELSE items[k - 1].no) + items[k].len
          /\ items[k].no <= sent[p] + count
    /\ items[Len(items)].no = sent[p] + count
    /\ Stream => /\ Len(items) = count
                 /\ \A k \in 1..Len(items) :
                       /\ items[k].no = sent[p] + k /\ items[k].len = 1
                       /\ items[k].anc > 0 => k = 1 /\ items[k].anc = count

LEMMA Enqueued ==
    ASSUME UnixInv, NEW s \in Socket, NEW q, q = sock[s].queue, NEW items, NEW count \in Nat,
           Numbers(items, s, count), OneQueue(s, q \o items, sock[s].size + count),
           sock[s].life # "free", sent' = [sent EXCEPT ![s] = sent[s] + count],
           budget' \in Budget, SameKind, UNCHANGED spliced,
           sockCall' \in [SockThread -> CallState], CallsOpen'
    PROVE  UnixInv'
<1>1. q \in Seq(Item) /\ sock[s].size \in Nat /\ sent \in [Socket -> Nat]
  BY DEF UnixInv, SockTyped, SockState
<1>2. PICK r : r = q \o items OBVIOUS
<1>3. PICK m : m = sock[s].size + count OBVIOUS
<1>4. PICK a \in Nat : a = sent[s] BY <1>1
<1>5. PICK n \in Nat : n = Len(q) BY <1>1
<1>6. items \in Seq(Item) /\ Len(items) \in Nat /\ Len(items) >= 1 BY DEF Numbers
<1>7. /\ r \in Seq(Item) /\ Len(r) = n + Len(items) /\ Len(r) \in Nat
      /\ \A i \in 1..Len(r) : i <= n => r[i] = q[i] /\ i \in 1..n
      /\ \A i \in 1..Len(r) : i > n => r[i] = items[i - n] /\ i - n \in 1..Len(items)
  BY <1>1, <1>2, <1>5, <1>6
<1>8. m \in Nat BY <1>1, <1>3
<1>9. /\ sock' \in [Socket -> SockState] /\ LinkInv'
      /\ sock'[s].queue = r /\ sock'[s].size = m
      /\ \A x \in Socket : x # s => sock'[x] = sock[x]
  BY <1>2, <1>3, <1>7, <1>8, QueueOnly
<1>10. sent' \in [Socket -> Nat] /\ sent'[s] = a + count /\ \A x \in Socket : x # s => sent'[x] = sent[x]
  BY <1>1, <1>4
<1>11. SockTyped' BY <1>9, <1>10 DEF UnixInv, SockTyped, OneQueue
<1>12. PICK c \in Int : c = Consumed(s) BY <1>1 DEF Consumed
<1>13. Consumed(s)' = c
  <2>1. PICK b \in Nat : b = sock[s].size BY <1>1
  <2>2. Consumed(s)' = (a + count) - (b + count) /\ c = a - b BY <2>1, <1>3, <1>4, <1>9, <1>10, <1>12 DEF Consumed
  <2> QED BY <2>2
<1>14. /\ \A i \in 1..n : q[i].no = (IF i = 1 THEN c ELSE q[i - 1].no) + q[i].len
       /\ a = IF q = <<>> THEN c ELSE q[n].no
  BY <1>4, <1>5, <1>12 DEF UnixInv, QueueExact
<1>15. /\ \A k \in 1..Len(items) :
             /\ items[k].no = (IF k = 1 THEN a ELSE items[k - 1].no) + items[k].len
             /\ items[k].no <= a + count
       /\ items[Len(items)].no = a + count
  BY <1>4 DEF Numbers
<1>16. \A i \in 1..Len(r) : r[i].no = (IF i = 1 THEN c ELSE r[i - 1].no) + r[i].len
  <2> SUFFICES ASSUME NEW i \in 1..Len(r)
               PROVE  r[i].no = (IF i = 1 THEN c ELSE r[i - 1].no) + r[i].len
    OBVIOUS
  <2>0. i \in Nat /\ i >= 1 BY <1>7
  <2>1. CASE i <= n
    <3>1. r[i] = q[i] /\ i \in 1..n BY <2>1, <1>7
    <3>2. i # 1 => r[i - 1] = q[i - 1]
      BY <2>0, <2>1, <1>7
    <3> QED BY <3>1, <3>2, <1>14
  <2>2. CASE i > n
    <3>1. r[i] = items[i - n] /\ i - n \in 1..Len(items) BY <2>2, <1>7
    <3>2. r[i].no = (IF i - n = 1 THEN a ELSE items[i - n - 1].no) + r[i].len BY <3>1, <1>15
    <3>3. CASE i - n = 1
      <4>1. r[i].no = a + r[i].len BY <3>2, <3>3
      <4>2. CASE q = <<>>
        BY <4>2, <3>3, <1>5, <2>0, <4>1, <1>14
      <4>3. CASE q # <<>>
        <5>1. n >= 1 BY <4>3, <1>1, <1>5
        <5>2. i # 1 /\ i - 1 = n /\ n \in 1..Len(r) BY <5>1, <3>3, <2>0, <1>6, <1>7
        <5>3. r[i - 1] = q[n] BY <5>2, <1>7
        <5> QED BY <4>1, <4>3, <5>2, <5>3, <1>14
      <4> QED BY <4>2, <4>3
    <3>4. CASE i - n # 1
      BY <3>1, <3>4, <2>0, <1>6, <1>7, <3>2, SMTT(40)
    <3> QED BY <3>3, <3>4
  <2> QED BY <2>0, <2>1, <2>2
<1>17. r # <<>> /\ a + count = r[Len(r)].no
  <2>1. Len(r) \in 1..Len(r) /\ Len(r) > n /\ Len(r) - n = Len(items) BY <1>6, <1>7
  <2>2. r[Len(r)] = items[Len(items)] BY <2>1, <1>7
  <2> QED BY <2>1, <2>2, <1>7, <1>15
<1>18. QueueExact'
  <2>a. ~spliced' BY DEF UnixInv, QueueExact
  <2> SUFFICES ASSUME NEW x \in Socket
               PROVE  LET k == sock'[x].queue IN
                      /\ \A i \in 1..Len(k) : k[i].no = (IF i = 1 THEN Consumed(x)' ELSE k[i - 1].no) + k[i].len
                      /\ sent'[x] = IF k = <<>> THEN Consumed(x)' ELSE k[Len(k)].no
    BY <2>a DEF QueueExact
  <2>1. CASE x = s
    BY <2>1, <1>9, <1>10, <1>13, <1>16, <1>17
  <2>2. CASE x # s
    BY <2>2, <1>9, <1>10 DEF Consumed, UnixInv, QueueExact
  <2> QED BY <2>1, <2>2
<1>19. Numbered'
  <2> SUFFICES ASSUME NEW x \in Socket, NEW i \in 1..Len(sock'[x].queue)
               PROVE  sock'[x].queue[i].no <= sent'[x]
    BY DEF Numbered
  <2>1. CASE x = s
    <3>0. i \in 1..Len(r) /\ sock'[x].queue = r /\ sent'[x] = a + count /\ i \in Nat BY <2>1, <1>7, <1>9, <1>10
    <3>1. CASE i <= n
      <4>1. r[i] = q[i] /\ i \in 1..n BY <3>0, <3>1, <1>7
      <4>2. q[i].no <= a BY <4>1, <1>4, <1>5 DEF UnixInv, Numbered
      <4>3. q[i].no \in Nat BY <4>1, <1>1, <1>5, Items
      <4> QED BY <3>0, <4>1, <4>2, <4>3
    <3>2. CASE i > n
      BY <3>0, <3>2, <1>7, <1>15
    <3> QED BY <3>0, <3>1, <3>2
  <2>2. CASE x # s BY <2>2, <1>9, <1>10 DEF UnixInv, Numbered
  <2> QED BY <2>1, <2>2
<1>20. StreamExact'
  <2> SUFFICES ASSUME Stream, NEW x \in Socket
               PROVE  LET k == sock'[x].queue IN
                      /\ sock'[x].size = Len(k)
                      /\ \A i \in 1..Len(k) :
                            /\ k[i].no = sent'[x] - Len(k) + i
                            /\ k[i].len = 1
                            /\ k[i].anc > 0 => /\ i + k[i].anc - 1 <= Len(k)
                                               /\ \A j \in (i + 1)..(i + k[i].anc - 1) : k[j].anc = 0
    BY DEF StreamExact, Stream, sockKind, SameKind
  <2>1. CASE x # s
    <3>1. sock'[x] = sock[x] /\ sent'[x] = sent[x] BY <2>1, <1>9, <1>10
    <3> QED BY <3>1 DEF UnixInv, StreamExact
  <2>2. CASE x = s
    <3>1. sock'[x].queue = r /\ sock'[x].size = m /\ sent'[x] = a + count BY <2>2, <1>9, <1>10
    <3>2. /\ sock[s].size = n
          /\ \A i \in 1..n :
                /\ q[i].no = a - n + i
                /\ q[i].len = 1
                /\ q[i].anc > 0 => /\ i + q[i].anc - 1 <= n
                                   /\ \A j \in (i + 1)..(i + q[i].anc - 1) : q[j].anc = 0
      BY <1>4, <1>5 DEF UnixInv, StreamExact
    <3>3. /\ Len(items) = count
          /\ \A k \in 1..Len(items) :
                /\ items[k].no = a + k /\ items[k].len = 1
                /\ items[k].anc > 0 => k = 1 /\ items[k].anc = count
      BY <1>4 DEF Numbers
    <3>4. Len(r) = n + count /\ m = n + count /\ m = Len(r) BY <3>2, <3>3, <1>3, <1>7
    <3>5. ASSUME NEW i \in 1..Len(r)
          PROVE  /\ r[i].no = (a + count) - Len(r) + i
                 /\ r[i].len = 1
                 /\ r[i].anc > 0 => /\ i + r[i].anc - 1 <= Len(r)
                                    /\ \A j \in (i + 1)..(i + r[i].anc - 1) : r[j].anc = 0
      <4>0. i \in Nat /\ i >= 1 BY <1>7
      <4>1. CASE i <= n
        <5>1. r[i] = q[i] /\ i \in 1..n BY <4>1, <1>7
        <5>2. PICK h \in Nat : h = q[i].anc BY <5>1, <1>1, <1>5, Items
        <5>3. h > 0 => i + h - 1 <= n /\ \A j \in (i + 1)..(i + h - 1) : q[j].anc = 0 BY <5>1, <5>2, <3>2
        <5>4. ASSUME h > 0, NEW j \in (i + 1)..(i + h - 1) PROVE r[j].anc = 0
          <6>1. j \in 1..Len(r) /\ j <= n BY <4>0, <5>3, <5>4, <1>6, <1>7
          <6>2. r[j] = q[j] BY <6>1, <1>7
          <6> QED BY <6>2, <5>3, <5>4
        <5>5. h > 0 => i + h - 1 <= Len(r) BY <5>3, <3>4, <4>0
        <5>6. q[i].no = a - n + i /\ q[i].len = 1 BY <5>1, <3>2
        <5>7. q[i].no = (a + count) - Len(r) + i BY <5>6, <3>4, <4>0
        <5> QED BY <5>1, <5>2, <5>4, <5>5, <5>6, <5>7
      <4>2. CASE i > n
        <5>1. r[i] = items[i - n] /\ i - n \in 1..Len(items) BY <4>2, <1>7
        <5>2. PICK h \in Nat : h = items[i - n].anc BY <5>1, <1>6, Items
        <5>3. items[i - n].no = a + (i - n) /\ items[i - n].len = 1 /\ (h > 0 => i - n = 1 /\ h = count)
          BY <5>1, <5>2, <3>3
        <5>4. ASSUME h > 0, NEW j \in (i + 1)..(i + h - 1) PROVE r[j].anc = 0
          <6>1. i - n = 1 /\ h = count BY <5>3, <5>4
          <6>2. j \in 1..Len(r) /\ j > n /\ j - n # 1 BY <6>1, <4>0, <3>4
          <6>3. r[j] = items[j - n] /\ j - n \in 1..Len(items) BY <6>2, <1>7
          <6>4. items[j - n].anc \in Nat /\ ~(items[j - n].anc > 0) BY <6>2, <6>3, <1>6, <3>3, Items
          <6> QED BY <6>3, <6>4
        <5>5. h > 0 => i + h - 1 <= Len(r) BY <5>3, <3>4, <4>0
        <5>6. items[i - n].no = (a + count) - Len(r) + i BY <5>3, <3>4, <4>0
        <5> QED BY <5>1, <5>2, <5>3, <5>4, <5>5, <5>6
      <4> QED BY <4>0, <4>1, <4>2
    <3> QED BY <2>2, <3>1, <3>4, <3>5
  <2> QED BY <2>1, <2>2
<1> QED BY <1>9, <1>11, <1>18, <1>19, <1>20 DEF UnixInv

LEMMA StreamNumbers ==
    ASSUME sent \in [Socket -> Nat], NEW p \in Socket, NEW count \in Nat, count >= 1, NEW anc
    PROVE  Numbers(StreamItems(p, count, anc), p, count) /\ Len(StreamItems(p, count, anc)) = count
<1>1. PICK a \in Nat : a = sent[p] OBVIOUS
<1> DEFINE mark(i) == IF anc /\ i = 1 THEN count ELSE 0
           item(i) == [no |-> sent[p] + i, anc |-> mark(i), len |-> 1]
           items == StreamItems(p, count, anc)
<1>2. items = [i \in 1..count |-> item(i)] BY DEF StreamItems
<1>3. \A i \in 1..count : mark(i) \in Nat /\ (mark(i) > 0 => i = 1 /\ mark(i) = count) OBVIOUS
<1> HIDE DEF mark
<1>4. \A i \in 1..count : /\ item(i) \in Item /\ item(i).no = a + i /\ item(i).len = 1
                          /\ item(i).anc = mark(i)
  BY <1>1, <1>3 DEF Item
<1> HIDE DEF item, items
<1>5. /\ items \in Seq(Item) /\ Len(items) = count /\ \A i \in 1..count : items[i] = item(i)
  BY <1>2, <1>4
<1>6. \A k \in 1..count : /\ items[k].no = a + k /\ items[k].len = 1
                          /\ items[k].anc > 0 => k = 1 /\ items[k].anc = count
  BY <1>3, <1>4, <1>5
<1>7. ASSUME NEW k \in 1..count
      PROVE  /\ items[k].no = (IF k = 1 THEN a ELSE items[k - 1].no) + items[k].len
             /\ items[k].no <= a + count
  BY <1>6
<1>8. items[count].no = a + count BY <1>6
<1>9. Numbers(items, p, count) BY <1>1, <1>5, <1>6, <1>7, <1>8 DEF Numbers
<1> QED BY <1>5, <1>9 DEF items

LEMMA PacketNumbers ==
    ASSUME sent \in [Socket -> Nat], NEW p \in Socket, NEW len \in Nat, NEW anc, ~Stream
    PROVE  Numbers(PacketItem(p, len, anc), p, len) /\ Len(PacketItem(p, len, anc)) = 1
<1>1. PICK a \in Nat : a = sent[p] OBVIOUS
<1> DEFINE mark == IF anc THEN 1 ELSE 0
           item == [no |-> sent[p] + len, anc |-> mark, len |-> len]
           items == PacketItem(p, len, anc)
<1>2. items = <<item>> BY DEF PacketItem
<1>3. mark \in Nat OBVIOUS
<1> HIDE DEF mark
<1>4. item \in Item /\ item.no = a + len /\ item.len = len BY <1>1, <1>3 DEF Item
<1> HIDE DEF item, items
<1>5. items \in Seq(Item) /\ Len(items) = 1 /\ items[1] = item BY <1>2, <1>4
<1>6. \A k \in 1..1 : k = 1 OBVIOUS
<1>7. Numbers(items, p, len) BY <1>1, <1>4, <1>5, <1>6 DEF Numbers
<1> QED BY <1>5, <1>7 DEF items

\* A send goes to a socket that lives.
LEMMA TargetLives ==
    ASSUME UnixInv, NEW call, call.s \in Socket, Target(call) \in Socket
    PROVE  sock[Target(call)].life # "free"
  BY SockNoneAssumption DEF Target, PeerOf, UnixInv, LinkInv, PeersLive, BoundExact

LEMMA SendCallTyped ==
    ASSUME NEW s \in Socket, NEW call \in SendtoCalls(s) \cup SendmsgCalls(s)
    PROVE  call \in CallState /\ call.s = s /\ call.len \in Nat /\ call.len >= 1
<1>0. TRUE \in Flag /\ FALSE \in Flag BY DEF Flag
<1>1. \E len \in 1..Buffer, to \in Destinations, anc \in Flag : call = Call("send", s, len, anc, to)
  <2>1. CASE call \in SendtoCalls(s)
    <3>1. PICK len \in 1..Buffer, to \in Destinations : call = Call("send", s, len, FALSE, to)
      BY <2>1 DEF SendtoCalls, Call
    <3> QED BY <3>1, <1>0, Zenon
  <2>2. CASE call \in SendmsgCalls(s)
    <3>1. PICK len \in 1..Buffer, to \in Destinations : call = Call("send", s, len, TRUE, to)
      BY <2>2 DEF SendmsgCalls, Call
    <3> QED BY <3>1, <1>0, Zenon
  <2> QED BY <2>1, <2>2
<1>a. PICK len \in 1..Buffer, to \in Destinations, anc \in Flag : call = Call("send", s, len, anc, to)
  BY <1>1
<1>2. to \in Address \cup {"none"} BY DEF Destinations
<1>3. len \in Nat /\ len >= 1 BY SockSizeAssumption
<1>4. IsCall(Call("send", s, len, anc, to), s, len, to) BY <1>2, <1>3, CallTyped, Zenon
<1> QED BY <1>a, <1>3, <1>4 DEF IsCall

LEMMA TrySendKeeps ==
    ASSUME UnixInv, NEW t \in SockThread, NEW s \in Socket, NEW call \in SendtoCalls(s) \cup SendmsgCalls(s),
           TrySend(t, call)
    PROVE  UnixInv'
<1>1. call \in CallState /\ call.s = s /\ call.len \in Nat /\ call.len >= 1 BY SendCallTyped
<1>2. PICK p : p = Target(call) OBVIOUS
<1>3. PICK count : count = IF Stream THEN Lowest(Space(p), call.len) ELSE call.len OBVIOUS
<1>4. PICK items : items = IF Stream THEN StreamItems(p, count, call.anc) ELSE PacketItem(p, call.len, call.anc)
  OBVIOUS
<1>5. Calling(t, call) /\ UNCHANGED <<bound, spliced>> BY DEF TrySend
<1>6. \/ UNCHANGED <<sock, sent, budget>> /\ (WouldBlockIn(t, call) \/ \E N : Returns(t, N))
      \/ /\ Upgrades(p) /\ ~(Stream /\ Space(p) = 0)
         /\ Len(items) <= budget.items
         /\ sock' = [sock EXCEPT ![p].queue = @ \o items, ![p].size = @ + count]
         /\ budget' = [budget EXCEPT !.items = @ - Len(items)]
         /\ sent' = [sent EXCEPT ![p] = @ + count]
         /\ \E N : Returns(t, N)
  BY <1>2, <1>3, <1>4, Zenon DEF TrySend
<1>7. CASE UNCHANGED <<sock, sent, budget>> /\ (WouldBlockIn(t, call) \/ \E N : Returns(t, N))
  BY <1>1, <1>5, <1>7, CallOver, CallWaits, SocketsAlone
<1>8. CASE /\ Upgrades(p) /\ ~(Stream /\ Space(p) = 0)
           /\ Len(items) <= budget.items
           /\ sock' = [sock EXCEPT ![p].queue = @ \o items, ![p].size = @ + count]
           /\ budget' = [budget EXCEPT !.items = @ - Len(items)]
           /\ sent' = [sent EXCEPT ![p] = @ + count]
           /\ \E N : Returns(t, N)
  <2>1. p \in Socket BY <1>8 DEF Upgrades
  <2>2. sock \in [Socket -> SockState] /\ sock[p] \in SockState /\ sent \in [Socket -> Nat] /\ budget \in Budget
    BY <2>1 DEF UnixInv, SockTyped
  <2>3. sock[p].life # "free" BY <1>1, <1>2, <2>1, TargetLives
  <2>4. count \in Nat /\ Numbers(items, p, count) /\ Len(items) \in Nat
    <3>1. CASE Stream
      <4>1. Space(p) \in Nat
        <5>1. sock[p].rcvbuf \in Nat /\ sock[p].size \in Nat BY <2>2 DEF SockState
        <5> QED BY <5>1 DEF Space
      <4>2. Space(p) >= 1 BY <3>1, <4>1, <1>8
      <4>3. count \in Nat /\ count >= 1 BY <3>1, <4>1, <4>2, <1>1, <1>3 DEF Lowest
      <4>4. items = StreamItems(p, count, call.anc) BY <3>1, <1>4
      <4> QED BY <2>1, <2>2, <4>3, <4>4, StreamNumbers
    <3>2. CASE ~Stream
      BY <3>2, <1>3, <1>4, <2>1, <2>2, <1>1, PacketNumbers
    <3> QED BY <3>1, <3>2
  <2>5. sock' = [sock EXCEPT ![p].queue = sock[p].queue \o items, ![p].size = sock[p].size + count]
    BY <1>8, <2>2 DEF SockState
  <2>6. OneQueue(p, sock[p].queue \o items, sock[p].size + count) BY <1>5, <2>5 DEF OneQueue
  <2>7. budget' \in Budget /\ SameKind BY <1>8, <2>2, <2>4 DEF Budget, SameKind
  <2>8. \A x \in Socket : sock'[x].life = sock[x].life BY <2>2, <2>5 DEF SockState
  <2>9. sockCall' \in [SockThread -> CallState] /\ CallsOpen' BY <1>8, <2>8, CallOver
  <2>10. sent' = [sent EXCEPT ![p] = sent[p] + count] BY <1>8
  <2> QED BY <1>5, <2>1, <2>3, <2>4, <2>6, <2>7, <2>9, <2>10, Enqueued
<1> QED BY <1>6, <1>7, <1>8

-----------------------------------------------------------------------------
(* The end of a connection *)

\* What is left of a socket when those in D are dropped.
Left(D, r, p, w, m) ==
    /\ r \in SockState /\ r.life = sock[m].life /\ r.owner = sock[m].owner /\ r.addr = sock[m].addr
    /\ r.peer = p /\ r.pending = w /\ r.established = sock[m].established /\ r.backlog = sock[m].backlog
    /\ r.connects = sock[m].connects \ D /\ r.queue = sock[m].queue /\ r.size = sock[m].size

LEMMA LeftFact ==
    ASSUME UnixInv, NEW x \in Socket, NEW D, NEW p \in Weak, NEW w \in Weak
    PROVE  Left(D, [sock[x] EXCEPT !.peer = p, !.pending = w, !.connects = @ \ D], p, w, x)
<1>1. sock[x] \in SockState BY DEF UnixInv, SockTyped
<1>2. sock[x].connects \ D \in SUBSET Socket BY <1>1 DEF SockState
<1> DEFINE n1 == [sock[x] EXCEPT !.peer = p]
           n2 == [n1 EXCEPT !.pending = w]
           n3 == [n2 EXCEPT !.connects = sock[x].connects \ D]
<1>3. n3 = [sock[x] EXCEPT !.peer = p, !.pending = w, !.connects = @ \ D] BY <1>1 DEF SockState
<1>4. /\ n1 \in SockState /\ n1.life = sock[x].life /\ n1.owner = sock[x].owner /\ n1.addr = sock[x].addr
      /\ n1.peer = p /\ n1.established = sock[x].established /\ n1.backlog = sock[x].backlog
      /\ n1.queue = sock[x].queue /\ n1.size = sock[x].size
  BY <1>1, WithPeer
<1> HIDE DEF n1
<1>5. /\ n2 \in SockState /\ n2.life = sock[x].life /\ n2.owner = sock[x].owner /\ n2.addr = sock[x].addr
      /\ n2.peer = p /\ n2.pending = w /\ n2.established = sock[x].established /\ n2.backlog = sock[x].backlog
      /\ n2.queue = sock[x].queue /\ n2.size = sock[x].size
  BY <1>4, WithPending
<1> HIDE DEF n2
<1>6. /\ n3 \in SockState /\ n3.life = sock[x].life /\ n3.owner = sock[x].owner /\ n3.addr = sock[x].addr
      /\ n3.peer = p /\ n3.pending = w /\ n3.established = sock[x].established /\ n3.backlog = sock[x].backlog
      /\ n3.queue = sock[x].queue /\ n3.size = sock[x].size /\ n3.connects = sock[x].connects \ D
  BY <1>2, <1>5, WithConnects
<1> HIDE DEF n3
<1>7. Left(D, n3, p, w, x) BY <1>6 DEF Left
<1> QED BY <1>3, <1>7

LEMMA SameRecord ==
    ASSUME NEW r \in SockState, NEW p, NEW w, NEW D, p = r.peer, w = r.pending, r.connects = {}
    PROVE  [r EXCEPT !.peer = p, !.pending = w, !.connects = @ \ D] = r
  BY DEF SockState

LEMMA CloseKeeps ==
    ASSUME UnixInv, NEW s \in Socket, Close(s)
    PROVE  UnixInv'
<1>1. PICK D : D = {s} \cup ToSet(sock[s].backlog) OBVIOUS
<1> DEFINE weak(x, w) == IF w \notin D THEN w ELSE IF sock[w].peer = x THEN NoSocket ELSE Dead
           dead(w) == IF w \in D THEN Dead ELSE w
           kept(x) == [sock[x] EXCEPT !.peer = weak(x, @), !.pending = dead(@), !.connects = @ \ D]
<1>2. /\ sock[s].life = "open" /\ ~InCall(s)
      /\ sock' = [x \in Socket |-> IF x \in D THEN Fresh ELSE kept(x)]
      /\ bound' = [a \in Address |-> IF a \in Unbinds(D) THEN NoSocket ELSE dead(bound[a])]
      /\ sockCall' = Notify(sockCall, DropHeard(D))
      /\ sent' = [x \in Socket |-> IF x \in D THEN 0 ELSE sent[x]]
      /\ UNCHANGED <<budget, spliced>>
  BY <1>1 DEF Close, UserOf
<1>3. sock \in [Socket -> SockState] /\ \A x \in Socket : sock[x].backlog \in Seq(Socket)
  BY DEF UnixInv, SockTyped, SockState
<1>4. D \subseteq Socket /\ s \in D /\ \A x \in D : x # s => x \in ToSet(sock[s].backlog)
  BY <1>1, <1>3 DEF ToSet
<1>5. \A x \in D : x # s => sock[x].life = "backlog" BY <1>4 DEF UnixInv, LinkInv, BacklogHeld
<1>6. \A x \in D : sock[x].life # "free" BY <1>2, <1>5
<1>7. ASSUME NEW x \in Socket, x \notin D
      PROVE  /\ sock'[x] = [sock[x] EXCEPT !.peer = weak(x, sock[x].peer), !.pending = dead(sock[x].pending),
                                            !.connects = @ \ D]
             /\ weak(x, sock[x].peer) \in Weak /\ dead(sock[x].pending) \in Weak
             /\ Left(D, sock'[x], weak(x, sock[x].peer), dead(sock[x].pending), x)
  <2>1. sock[x] \in SockState /\ sock[x].peer \in Weak /\ sock[x].pending \in Weak BY <1>3 DEF SockState
  <2>2. weak(x, sock[x].peer) \in Weak /\ dead(sock[x].pending) \in Weak BY <2>1 DEF Weak
  <2>3. sock'[x] = kept(x) BY <1>2, <1>7
  <2> HIDE DEF weak, dead
  <2>4. kept(x) = [sock[x] EXCEPT !.peer = weak(x, sock[x].peer), !.pending = dead(sock[x].pending), !.connects = @ \ D]
    BY <2>1 DEF SockState
  <2> HIDE DEF kept
  <2>5. Left(D, [sock[x] EXCEPT !.peer = weak(x, sock[x].peer), !.pending = dead(sock[x].pending), !.connects = @ \ D],
             weak(x, sock[x].peer), dead(sock[x].pending), x)
    BY <2>2, LeftFact, Zenon
  <2> QED BY <2>2, <2>3, <2>4, <2>5
<1> HIDE DEF kept
<1>8. /\ \A x \in D : sock'[x] = Fresh
      /\ Fresh.life = "free" /\ Fresh.peer = NoSocket /\ Fresh.pending = NoSocket /\ Fresh.backlog = <<>>
      /\ Fresh.connects = {} /\ Fresh.queue = <<>> /\ Fresh.size = 0 /\ Fresh.owner = FALSE
  BY <1>2, <1>4 DEF Fresh
<1>9. \A x \in Socket : x \notin D =>
         /\ sock'[x] \in SockState /\ sock'[x].life = sock[x].life /\ sock'[x].owner = sock[x].owner
         /\ sock'[x].addr = sock[x].addr
         /\ sock'[x].peer = weak(x, sock[x].peer) /\ sock'[x].pending = dead(sock[x].pending)
         /\ sock'[x].established = sock[x].established
         /\ sock'[x].backlog = sock[x].backlog /\ sock'[x].connects = sock[x].connects \ D
         /\ sock'[x].queue = sock[x].queue /\ sock'[x].size = sock[x].size
  <2> HIDE DEF weak, dead
  <2> QED BY <1>7 DEF Left
<1>10. sock' \in [Socket -> SockState]
  BY <1>8, <1>9, NewIsTyped, <1>2
<1>11. \A x \in Socket : x \in D => sock'[x].life = "free" /\ sock'[x].backlog = <<>> /\ sock'[x].connects = {}
          /\ sock'[x].peer = NoSocket /\ sock'[x].pending = NoSocket /\ sock'[x].owner = FALSE
          /\ sock'[x].queue = <<>> /\ sock'[x].size = 0
  BY <1>8
<1>12. sockCall' \in [SockThread -> CallState] /\ CallsOpen'
  BY <1>2, <1>5, <1>9, CallsTold DEF UnixInv, CallsOpen, InCall
<1>13. /\ bound' \in [Address -> Weak]
       /\ \A a \in Address : bound'[a] \in Socket => bound'[a] = bound[a] /\ bound[a] \notin D
       /\ \A a \in Address : bound[a] \in Socket /\ bound[a] \notin D => bound'[a] = bound[a]
  <2>0. bound \in [Address -> Weak] BY DEF UnixInv, SockTyped
  <2>1. ASSUME NEW a \in Address
        PROVE  /\ bound'[a] \in Weak
               /\ bound'[a] \in Socket => bound'[a] = bound[a] /\ bound[a] \notin D
               /\ bound[a] \in Socket /\ bound[a] \notin D => bound'[a] = bound[a]
    BY <1>2, <2>0, SockNoneAssumption DEF Unbinds, Weak
  <2>2. bound' = [a \in Address |-> bound'[a]]
    <3> HIDE DEF dead
    <3> QED BY <1>2
  <2> QED BY <2>1, <2>2
<1>14. SockTyped'
  BY <1>2, <1>10, <1>12, <1>13 DEF UnixInv, SockTyped
<1>15. FreeAsNew'
  <2> SUFFICES ASSUME NEW x \in Socket, sock'[x].life = "free" PROVE sock'[x] = Fresh BY DEF FreeAsNew
  <2>1. CASE x \in D BY <2>1, <1>8
  <2>2. CASE x \notin D
    <3>1. sock[x] = Fresh BY <2>2, <1>9 DEF UnixInv, LinkInv, FreeAsNew
    <3>2. NoSocket \notin D BY <1>4, SockNoneAssumption
    <3>3. weak(x, sock[x].peer) = Fresh.peer /\ dead(sock[x].pending) = Fresh.pending BY <3>1, <3>2, <1>8
    <3>4. sock'[x] = [Fresh EXCEPT !.peer = weak(x, sock[x].peer), !.pending = dead(sock[x].pending), !.connects = @ \ D]
      <4> HIDE DEF weak, dead
      <4> QED BY <2>2, <3>1, <1>7
    <3> HIDE DEF weak, dead
    <3>5. [Fresh EXCEPT !.peer = weak(x, sock[x].peer), !.pending = dead(sock[x].pending), !.connects = @ \ D] = Fresh
      BY <3>3, <1>8, NewIsTyped, SameRecord, Zenon
    <3> QED BY <3>4, <3>5, Zenon
  <2> QED BY <2>1, <2>2
<1>16. BacklogHeld'
  <2> SUFFICES ASSUME NEW x \in Socket
               PROVE  sock'[x].life = "backlog" <=> \E l \in Socket : x \in ToSet(sock'[l].backlog)
    BY DEF BacklogHeld
  <2>1. \A l \in Socket : x \in ToSet(sock'[l].backlog) => l \notin D /\ x \in ToSet(sock[l].backlog)
    BY <1>9, <1>11 DEF ToSet
  <2>2. CASE x \in D
    <3>1. ASSUME NEW l \in Socket, x \in ToSet(sock'[l].backlog) PROVE FALSE
      <4>1. l \notin D /\ x \in ToSet(sock[l].backlog) BY <3>1, <2>1
      <4>2. sock[x].life = "backlog" BY <4>1 DEF UnixInv, LinkInv, BacklogHeld
      <4>3. x # s BY <4>2, <1>2
      <4>4. x \in ToSet(sock[s].backlog) BY <4>3, <2>2, <1>4
      <4>5. PICK i \in 1..Len(sock[l].backlog) : sock[l].backlog[i] = x BY <4>1, <1>3 DEF ToSet
      <4>6. PICK j \in 1..Len(sock[s].backlog) : sock[s].backlog[j] = x BY <4>4, <1>3 DEF ToSet
      <4>7. sock[l].backlog[i] = sock[s].backlog[j] BY <4>5, <4>6
      <4>8. BacklogOnce BY DEF UnixInv, LinkInv
      <4>9. l = s BY <4>7, <4>8 DEF BacklogOnce
      <4> QED BY <4>9, <4>1, <1>4
    <3>2. sock'[x].life # "backlog" BY <2>2, <1>11
    <3> QED BY <3>1, <3>2
  <2>3. CASE x \notin D
    <3>1. sock'[x].life = sock[x].life BY <2>3, <1>9
    <3>2. ASSUME NEW l \in Socket, x \in ToSet(sock[l].backlog) PROVE x \in ToSet(sock'[l].backlog)
      BY <3>2, <2>3, <1>1, <1>5, <1>9 DEF ToSet, UnixInv, LinkInv, BacklogOpen
    <3> QED BY <3>1, <3>2, <2>1 DEF UnixInv, LinkInv, BacklogHeld
  <2> QED BY <2>2, <2>3
<1>17. BacklogOnce'
  <2>1. \A x \in Socket : sock'[x].backlog = sock[x].backlog \/ sock'[x].backlog = <<>> BY <1>9, <1>11
  <2>2. \A x \in Socket : \A i \in 1..Len(sock'[x].backlog) : sock'[x].backlog = sock[x].backlog
    BY <2>1
  <2> QED BY <2>2 DEF UnixInv, LinkInv, BacklogOnce
<1>18. BacklogOpen' BY <1>9, <1>11 DEF UnixInv, LinkInv, BacklogOpen
<1>19. \A x \in Socket : sock'[x].pending \in Socket =>
           x \notin D /\ sock'[x].pending = sock[x].pending /\ sock[x].pending \notin D
  BY <1>9, <1>11, SockNoneAssumption
<1>20. PendingKnown'
  BY <1>9, <1>11, <1>19 DEF PendingKnown, UnixInv, LinkInv
<1>21. PendingLive'
  <2> SUFFICES ASSUME NEW x \in Socket, sock'[x].pending \in Socket
               PROVE  sock'[x].pending # x /\ sock'[sock'[x].pending].life # "free" /\ ConnectionOriented'
    BY DEF PendingLive
  <2>1. sock'[x].pending = sock[x].pending /\ sock[x].pending \notin D BY <1>19
  <2>2. sock[x].pending # x /\ sock[sock[x].pending].life # "free" /\ ConnectionOriented
    BY <2>1 DEF UnixInv, LinkInv, PendingLive
  <2>3. ConnectionOriented' BY <2>2, <1>2 DEF ConnectionOriented, sockKind
  <2> QED BY <2>1, <2>2, <2>3, <1>9
<1>22. \A x \in Socket : sock'[x].peer \in Socket =>
           x \notin D /\ sock'[x].peer = sock[x].peer /\ sock[x].peer \notin D
  BY <1>9, <1>11, SockNoneAssumption
<1>23. PeersLive'
  BY <1>22, <1>9 DEF PeersLive, UnixInv, LinkInv
<1>24. PeersMutual'
  <2> SUFFICES ASSUME ConnectionOriented, NEW x \in Socket, sock'[x].peer \in Socket
               PROVE  sock'[sock'[x].peer].peer = x /\ sock'[x].established
    BY <1>2 DEF PeersMutual, ConnectionOriented, sockKind
  <2>1. x \notin D /\ sock'[x].peer = sock[x].peer /\ sock[x].peer \notin D BY <1>22
  <2>2. PICK p \in Socket : p = sock[x].peer BY <2>1
  <2>3. sock[p].peer = x /\ sock[x].established BY <2>2 DEF UnixInv, LinkInv, PeersMutual
  <2>4. sock'[p].peer = weak(p, x) BY <2>1, <2>2, <2>3, <1>9
  <2>5. sock'[p].peer = x BY <2>4, <2>1
  <2>6. sock'[x].established BY <2>1, <2>3, <1>9
  <2> QED BY <2>1, <2>2, <2>5, <2>6
<1>25. BoundExact'
  BY <1>13, <1>9, <1>11 DEF UnixInv, LinkInv, BoundExact
<1>26. BoundReachable'
  BY <1>11, <1>9, <1>13 DEF BoundReachable, UserOf, UnixInv, LinkInv, BoundExact
<1>27. LinkInv'
  BY <1>15, <1>16, <1>17, <1>18, <1>20, <1>21, <1>23, <1>24, <1>25, <1>26 DEF LinkInv
<1>28. \A x \in Socket : \/ sock'[x].queue = <<>> /\ sock'[x].size = 0 /\ sent'[x] = 0
                         \/ sock'[x].queue = sock[x].queue /\ sock'[x].size = sock[x].size /\ sent'[x] = sent[x]
  BY <1>2, <1>9, <1>11
<1>29. QueueExact'
  BY <1>2, <1>28 DEF UnixInv, QueueExact, Consumed
<1>30. Numbered'
  BY <1>28 DEF UnixInv, Numbered
<1>31. StreamExact'
  <2>1. Len(<<>>) = 0 OBVIOUS
  <2>2. Stream' <=> Stream BY <1>2 DEF Stream, sockKind
  <2> QED BY <2>1, <2>2, <1>28 DEF UnixInv, StreamExact
<1> QED BY <1>12, <1>14, <1>27, <1>29, <1>30, <1>31 DEF UnixInv

-----------------------------------------------------------------------------
(* The theorem *)

LEMMA UnixStep == UnixInv /\ [UnixNext]_unixVars => UnixInv'
<1> SUFFICES ASSUME UnixInv, [UnixNext]_unixVars PROVE UnixInv' OBVIOUS
<1>1. CASE UNCHANGED unixVars
  BY <1>1, SocketsAlone DEF unixVars, UnixInv, SockTyped, CallsOpen
<1>2. ASSUME NEW s \in Socket,
             \/ SocketCreate(s) \/ Close(s) \/ (\E len \in 1..Buffer : Peek(s, len))
             \/ \E r \in Socket : SocketPair(s, r)
             \/ \E a \in Address : Bind(s, a)
             \/ \E limit \in Backlogs : Listen(s, limit)
             \/ \E n \in BufferSizes : SetRcvBuf(s, n)
             \/ \E how \in ShutHow : Shutdown(s, how)
      PROVE  UnixInv'
  BY <1>2, SocketCreateKeeps, CloseKeeps, PeekKeeps, SocketPairKeeps, BindKeeps, ListenKeeps, SetRcvBufKeeps,
     ShutdownKeeps
<1>3. ASSUME NEW t \in SockThread, NEW s \in CalledOn(t),
             \/ \E call \in ConnectCalls(s) : TryConnect(t, call) \/ TryConnectDgram(t, call)
             \/ TryAccept(t, AcceptCall(s))
             \/ \E call \in SendtoCalls(s) \cup SendmsgCalls(s) : TrySend(t, call)
             \/ \E call \in RecvCalls(s) : TryRecv(t, call)
      PROVE  UnixInv'
  BY TryConnectKeeps, TryConnectDgramKeeps, TryAcceptKeeps, TrySendKeeps, TryRecvKeeps, <1>3 DEF
     CalledOn, UnixInv, CallsOpen
<1>4. ASSUME NEW t \in SockThread, Sleep(t) \/ Interrupted(t) PROVE UnixInv'
  BY <1>4, SleepKeeps, InterruptedKeeps
<1>5. ASSUME NEW a \in Address, UnlinkNode(a) PROVE UnixInv'
  BY <1>5, UnlinkNodeKeeps
<1> QED BY <1>1, <1>2, <1>3, <1>4, <1>5, Zenon DEF UnixNext

LEMMA UnixHolds == UnixInv => ConnectionsExact
<1> SUFFICES ASSUME UnixInv PROVE ConnectionsExact OBVIOUS
<1>1. UnixTypeOK
  <2>1. ASSUME NEW s \in Socket PROVE SockRecord(s)
    BY DEF UnixInv, SockTyped, SockRecord, SockState, Life, Weak
  <2>2. \A s \in Free : sock[s] = Fresh BY DEF UnixInv, LinkInv, FreeAsNew, Free
  <2>3. \A s \in Socket : sock[s].life = "backlog" <=> \E l \in Socket : s \in ToSet(sock[l].backlog)
    BY DEF UnixInv, LinkInv, BacklogHeld
  <2> QED BY <2>1, <2>2, <2>3 DEF UnixTypeOK
<1>2. PendingIndexed BY DEF UnixInv, LinkInv, PendingKnown, PendingIndexed, Upgrades
<1>3. SocketsLinked
  BY <1>1, <1>2 DEF SocketsLinked, UnixInv, LinkInv, PeersLive, PeersMutual, Upgrades, PeerOf
<1> QED BY <1>3 DEF ConnectionsExact, UnixInv, LinkInv

\* The two ends of a connection know each other from connect on and a socket
\* that is gone is nobody's peer; a connect that waits is known to its listener;
\* what is in a receive queue is what was sent and not yet received, in order,
\* and no receive joins bytes across ancillary data; and the address a live
\* socket was bound to leads to it (net/unix.rs).
THEOREM Connections == UnixSpec => []ConnectionsExact
<1> QED BY UnixStart, UnixStep, UnixHolds, PTL DEF UnixSpec

-----------------------------------------------------------------------------
(* Unix sockets: who sleeps *)

\* The socket is in a state in which the call sleeps, or is not told.
AcceptStuck(s) == sock[s].listening /\ sock[s].backlog = <<>>
RecvStuck(s) ==
    /\ ~sock[s].shutRd /\ sock[s].queue = <<>>
    /\ ~(ConnectionOriented /\ PeerShutWr(s))
ConnectStuck(s) ==
    LET l == sock[s].pending IN
    \/ ~ConnectionOriented \/ sock[s].shutWr
    \/ sock[s].established \/ sock[s].listening \/ l \notin Socket \/ Resized(l)
    \/ l \in Socket /\ sock[l].listening /\ BacklogFull(l)
SendStuck(s) ==
    LET p == sock[s].peer IN
    \/ ~ConnectionOriented \/ sock[s].shutWr
    \/ ~Stream /\ p \notin Socket
    \/ p \in Socket /\ (sock[p].shutRd \/ Resized(p))
    \/ <<s, "connect">> \in tuned
    \/ p \in Socket /\ ~HasSpace(p)

\* What is known of a call that has found that it would block.
CallExact(c) ==
    /\ c.op = "accept" => sock[c.s].listening
    /\ c.op \in {"recv", "send"} /\ ConnectionOriented => sock[c.s].established
    /\ c.op = "connect" => ConnectionOriented
    /\ c.op = "send" => c.len >= 1 /\ (ConnectionOriented => c.flag = "none")
CallStuck(c) ==
    /\ c.op = "accept" => AcceptStuck(c.s)
    /\ c.op = "recv" => RecvStuck(c.s)
    /\ c.op = "connect" => ConnectStuck(c.s)
    /\ c.op = "send" => SendStuck(c.s)

EstablishedIdle ==
    \A s \in Socket : (sock[s].established => ~sock[s].listening) /\ (sock[s].listening => ConnectionOriented)
Fits == \A s \in Socket : Resized(s) \/ sock[s].size <= sock[s].rcvbuf
ConnectsAgain ==
    \A s \in Socket : sock[s].established /\ sock[s].pending \in Socket => <<s, "connect">> \in tuned
WaitsExactly == \A t \in SockThread : sockCall[t].pc \in {"again", "asleep"} => CallExact(sockCall[t])
SleepersStuck == \A t \in SockThread : sockCall[t].pc = "asleep" => CallStuck(sockCall[t])

SleepInv == EstablishedIdle /\ Fits /\ ConnectsAgain /\ WaitsExactly /\ SleepersStuck

-----------------------------------------------------------------------------
(* What a step tells *)

ReaderTold(s, N) == <<s, "READ">> \in N \/ <<s, "HUP">> \in N
WriterTold(s, N) == <<s, "WRITE">> \in N \/ <<s, "HUP">> \in N

\* Whatever lets a call on an open socket go on is in N.
ToldAt(s, N) ==
    /\ sock[s].listening => sock'[s].listening
    /\ sock[s].established => sock'[s].established
    /\ AcceptStuck(s) => AcceptStuck(s)' \/ ReaderTold(s, N)
    /\ RecvStuck(s) /\ (ConnectionOriented => sock[s].established) => RecvStuck(s)' \/ ReaderTold(s, N)
    /\ ConnectStuck(s) => ConnectStuck(s)' \/ WriterTold(s, N)
    /\ SendStuck(s) /\ (ConnectionOriented => sock[s].established) => SendStuck(s)' \/ WriterTold(s, N)
Told(N) == \A s \in Socket : sock[s].life = "open" /\ sock'[s].life = "open" => ToldAt(s, N)

\* Who sleeps after the step slept before and was not told; who is about to
\* sleep was, or has found that it would block.
CallsLeft(N) ==
    \A t \in SockThread : sockCall'[t].pc \in {"again", "asleep"} =>
        \/ sockCall'[t] = sockCall[t] /\ (sockCall[t].pc = "asleep" => ~Hears(sockCall[t], N))
        \/ sockCall'[t].pc = "again" /\ \E c \in CallState : sockCall'[t] = c /\ CallExact(c)'

LEMMA SleepersTold ==
    ASSUME UnixInv, UnixInv', SleepInv, NEW N, Told(N), CallsLeft(N), SameKind
    PROVE  WaitsExactly' /\ SleepersStuck'
<1>0. ConnectionOriented' <=> ConnectionOriented BY DEF SameKind, ConnectionOriented, sockKind
<1>1. ASSUME NEW t \in SockThread, sockCall'[t].pc \in {"again", "asleep"}, sockCall'[t] = sockCall[t]
      PROVE  \E s \in Socket : /\ s = sockCall[t].s /\ ToldAt(s, N)
                               /\ CallExact(sockCall[t]) /\ CallExact(sockCall[t])'
  <2>1. PICK c \in CallState : c = sockCall[t] BY DEF UnixInv, SockTyped
  <2>2. c.s \in Socket /\ sock[c.s].life = "open" BY <2>1, <1>1 DEF UnixInv, CallsOpen
  <2>3. sock'[c.s].life = "open" BY <2>1, <1>1 DEF UnixInv, CallsOpen
  <2>4. ToldAt(c.s, N) BY <2>2, <2>3 DEF Told
  <2>5. CallExact(c) BY <2>1, <1>1 DEF SleepInv, WaitsExactly
  <2>6. CallExact(c)' BY <2>4, <2>5, <1>0 DEF ToldAt, CallExact
  <2>7. sockCall'[t] = c BY <2>1, <1>1
  <2>8. CallExact(sockCall[t])' BY <2>6, <2>7 DEF CallExact
  <2> QED BY <2>1, <2>2, <2>4, <2>5, <2>8
<1>2. WaitsExactly'
  BY <1>1 DEF WaitsExactly, CallExact, CallsLeft
<1>3. SleepersStuck'
  <2> SUFFICES ASSUME NEW t \in SockThread, sockCall'[t].pc = "asleep"
               PROVE  CallStuck(sockCall[t])'
    BY DEF SleepersStuck
  <2>1. sockCall'[t] = sockCall[t] /\ ~Hears(sockCall[t], N) BY DEF CallsLeft
  <2>2. PICK c \in CallState : c = sockCall[t] BY DEF UnixInv, SockTyped
  <2>3. ToldAt(c.s, N) /\ CallExact(c) BY <1>1, <2>1, <2>2
  <2>4. CallStuck(c) BY <2>1, <2>2 DEF SleepInv, SleepersStuck
  <2>5. /\ c.op \in {"recv", "accept"} => ~ReaderTold(c.s, N)
        /\ c.op \in {"send", "connect"} => ~WriterTold(c.s, N)
    BY <2>1, <2>2 DEF Hears, OpEvent, ReaderTold, WriterTold
  <2>6. CallStuck(c)'
    BY <2>3, <2>4, <2>5 DEF ToldAt, CallStuck, CallExact
  <2>7. sockCall'[t] = c BY <2>1, <2>2
  <2> QED BY <2>6, <2>7 DEF CallStuck
<1> QED BY <1>2, <1>3

\* The calls after a notification, after a call that returns and after one that
\* waits.
LEMMA NotifyLeaves ==
    ASSUME NEW calls \in [SockThread -> CallState], NEW N, NEW t \in SockThread,
           Notify(calls, N)[t].pc \in {"again", "asleep"}
    PROVE  Notify(calls, N)[t] = calls[t] /\ (calls[t].pc = "asleep" => ~Hears(calls[t], N))
  BY DEF CallState, Notify

LEMMA AfterNotify ==
    ASSUME UnixInv, NEW N, sockCall' = Notify(sockCall, N)
    PROVE  CallsLeft(N)
BY NotifyLeaves DEF CallsLeft, UnixInv, SockTyped

LEMMA AfterReturn ==
    ASSUME UnixInv, NEW t \in SockThread, NEW N, Returns(t, N)
    PROVE  CallsLeft(N)
<1> DEFINE calls == [sockCall EXCEPT ![t] = Idle]
<1>1. Idle \in CallState /\ Idle.pc = "user" BY DEF Idle, Call, CallState, Flag
<1>2. calls \in [SockThread -> CallState] BY <1>1 DEF UnixInv, SockTyped
<1>3. \A u \in SockThread : calls[u].pc # "user" => calls[u] = sockCall[u]
  BY <1>1 DEF UnixInv, SockTyped
<1>4. sockCall' = Notify(calls, N) BY DEF Returns
<1> HIDE DEF calls
<1> SUFFICES ASSUME NEW u \in SockThread, sockCall'[u].pc \in {"again", "asleep"}
             PROVE  sockCall'[u] = sockCall[u] /\ (sockCall[u].pc = "asleep" => ~Hears(sockCall[u], N))
  BY DEF CallsLeft
<1>5. sockCall'[u] = calls[u] /\ (calls[u].pc = "asleep" => ~Hears(calls[u], N)) BY <1>2, <1>4, NotifyLeaves
<1>6. calls[u].pc # "user" BY <1>5
<1> QED BY <1>3, <1>5, <1>6

LEMMA AfterWait ==
    ASSUME UnixInv, NEW t \in SockThread, NEW call \in CallState, WouldBlockIn(t, call), CallExact(call)'
    PROVE  CallsLeft({})
  BY DEF Idle, Call, CallState, CallExact, Hears, UnixInv, SockTyped, CallsLeft, WouldBlockIn

-----------------------------------------------------------------------------
(* Steps that let no call go on *)

\* What the calls look at.
Looks(n, r) ==
    /\ n.established = r.established /\ n.listening = r.listening /\ n.limit = r.limit
    /\ n.backlog = r.backlog /\ n.peer = r.peer /\ n.pending = r.pending /\ n.queue = r.queue
    /\ n.size = r.size /\ n.rcvbuf = r.rcvbuf /\ n.shutRd = r.shutRd /\ n.shutWr = r.shutWr

LEMMA ToldNothing ==
    ASSUME UnixInv, SameKind, tuned' = tuned, NEW N,
           \A x \in Socket : sock[x].life # "free" => Looks(sock'[x], sock[x])
    PROVE  Told(N)
<1> SUFFICES ASSUME NEW s \in Socket, sock[s].life = "open" PROVE ToldAt(s, N)
  BY DEF Told
<1>0. (ConnectionOriented' <=> ConnectionOriented) /\ (Stream' <=> Stream)
  BY DEF SameKind, ConnectionOriented, sockKind, Stream
<1>1. Looks(sock'[s], sock[s]) OBVIOUS
<1>2. PICK p : p = sock[s].peer OBVIOUS
<1>3. PICK l : l = sock[s].pending OBVIOUS
<1>4. sock'[s].peer = p /\ sock'[s].pending = l BY <1>1, <1>2, <1>3 DEF Looks
<1>5. p \in Socket => Looks(sock'[p], sock[p]) BY <1>2 DEF UnixInv, LinkInv, PeersLive
<1>6. l \in Socket => Looks(sock'[l], sock[l]) BY <1>3 DEF UnixInv, LinkInv, PendingLive
<1>7. AcceptStuck(s) => AcceptStuck(s)' BY <1>1 DEF AcceptStuck, Looks
<1>8. RecvStuck(s) => RecvStuck(s)'
  BY <1>0, <1>1, <1>2, <1>4, <1>5 DEF RecvStuck, PeerShutWr, PeerOf, Upgrades, Looks
<1>9. ConnectStuck(s) => ConnectStuck(s)'
  BY <1>0, <1>1, <1>3, <1>4, <1>6 DEF ConnectStuck, BacklogFull, Resized, Looks
<1>10. SendStuck(s) => SendStuck(s)'
  BY <1>0, <1>1, <1>2, <1>4, <1>5 DEF SendStuck, HasSpace, Resized, Looks
<1>11. (sock[s].listening => sock'[s].listening) /\ (sock[s].established => sock'[s].established)
  BY <1>1 DEF Looks
<1> QED BY <1>7, <1>8, <1>9, <1>10, <1>11 DEF ToldAt

\* The same of all sockets.
LEMMA NothingDone ==
    ASSUME UnixInv, UnixInv', SleepInv, SameKind, tuned' = tuned, NEW N, CallsLeft(N),
           \A x \in Socket : Looks(sock'[x], sock[x])
    PROVE  SleepInv'
<1>1. Told(N) BY ToldNothing
<1>2. WaitsExactly' /\ SleepersStuck' BY <1>1, SleepersTold
<1>3. EstablishedIdle' BY DEF SleepInv, EstablishedIdle, SameKind, ConnectionOriented, sockKind, Looks
<1>4. Fits' BY DEF SleepInv, Fits, Resized, Looks
<1>5. ConnectsAgain' BY DEF SleepInv, ConnectsAgain, Looks
<1> QED BY <1>2, <1>3, <1>4, <1>5 DEF SleepInv

LEMMA SameLooks == \A r : Looks(r, r)
BY DEF Looks


LEMMA SleepStart == UnixInit => SleepInv
<1> SUFFICES ASSUME UnixInit PROVE SleepInv OBVIOUS
<1>1. \A s \in Socket : sock[s] = Fresh BY DEF UnixInit
<1>2. /\ Fresh.established = FALSE /\ Fresh.listening = FALSE /\ Fresh.size = 0 /\ Fresh.rcvbuf = Buffer
  BY DEF Fresh
<1>3. EstablishedIdle BY <1>1, <1>2 DEF EstablishedIdle
<1>4. Fits BY <1>1, <1>2, SockSizeAssumption DEF Fits
<1>5. ConnectsAgain BY <1>1, <1>2 DEF ConnectsAgain
<1>6. \A t \in SockThread : sockCall[t].pc = "user" BY DEF UnixInit, Idle, Call
<1> QED BY <1>3, <1>4, <1>5, <1>6 DEF SleepInv, WaitsExactly, SleepersStuck

\* Nothing of a socket changes, and some call ends or waits.
LEMMA CallsOnly ==
    ASSUME UnixInv, UnixInv', SleepInv, UNCHANGED <<sock, budget, tuned>>, NEW N, CallsLeft(N)
    PROVE  SleepInv'
  BY SameLooks, NothingDone DEF SameKind

LEMMA CallsSame ==
    ASSUME UNCHANGED sockCall
    PROVE  CallsLeft({})
  BY DEF Hears, CallsLeft

LEMMA SocketCreateTells ==
    ASSUME UnixInv, UnixInv', SleepInv, NEW s \in Socket, SocketCreate(s)
    PROVE  SleepInv'
<1>1. /\ sock' = [sock EXCEPT ![s].life = "open"] /\ UNCHANGED <<sockCall, tuned>>
      /\ budget' = [budget EXCEPT !.opens = @ - 1]
  BY DEF SocketCreate
<1>2. sock \in [Socket -> SockState] /\ budget \in Budget BY DEF UnixInv, SockTyped
<1>3. SameKind BY <1>1, <1>2 DEF SameKind, Budget
<1>4. PICK new : new = [sock[s] EXCEPT !.life = "open"] OBVIOUS
<1>5. Looks(new, sock[s])
  BY <1>2, <1>4, WithLife DEF Life, Looks
<1>6. \A x \in Socket : sock'[x] = IF x = s THEN new ELSE sock[x] BY <1>1, <1>2, <1>4
<1>7. \A x \in Socket : Looks(sock'[x], sock[x]) BY <1>5, <1>6, SameLooks
<1>8. CallsLeft({}) BY <1>1, CallsSame
<1> QED BY <1>1, <1>3, <1>7, <1>8, NothingDone

LEMMA BindTells ==
    ASSUME UnixInv, UnixInv', SleepInv, NEW s \in Socket, NEW a \in Address, Bind(s, a)
    PROVE  SleepInv'
<1>1. UNCHANGED <<sockCall, budget, tuned>> BY DEF Bind
<1>2. CallsLeft({}) BY <1>1, CallsSame
<1>3. CASE UNCHANGED sock BY <1>1, <1>2, <1>3, CallsOnly
<1>4. CASE sock' = [sock EXCEPT ![s].addr = a, ![s].owner = TRUE]
  <2>1. sock \in [Socket -> SockState] /\ sock[s] \in SockState BY DEF UnixInv, SockTyped
  <2>2. PICK one : one = [sock[s] EXCEPT !.addr = a] OBVIOUS
  <2>3. PICK new : new = [one EXCEPT !.owner = TRUE] OBVIOUS
  <2>4. a \in Address \cup {NoSocket} /\ TRUE \in Flag BY DEF Flag
  <2>5. one \in SockState /\ Looks(one, sock[s]) BY <2>1, <2>2, <2>4, WithAddr DEF Looks
  <2>6. Looks(new, one) BY <2>3, <2>4, <2>5, WithOwner DEF Looks
  <2>7. \A x \in Socket : sock'[x] = IF x = s THEN new ELSE sock[x] BY <1>4, <2>1, <2>2, <2>3 DEF SockState
  <2>8. \A x \in Socket : Looks(sock'[x], sock[x]) BY <2>5, <2>6, <2>7 DEF Looks
  <2>9. SameKind BY <1>1 DEF SameKind
  <2> QED BY <1>1, <1>2, <2>8, <2>9, NothingDone
<1> QED BY <1>3, <1>4 DEF Bind

LEMMA UnlinkNodeTells ==
    ASSUME UnixInv, UnixInv', SleepInv, NEW a, UnlinkNode(a)
    PROVE  SleepInv'
  BY CallsSame, CallsOnly DEF UnlinkNode

LEMMA PeekTells ==
    ASSUME UnixInv, UnixInv', SleepInv, NEW s, NEW len, Peek(s, len)
    PROVE  SleepInv'
  BY CallsSame, CallsOnly DEF Peek

LEMMA InterruptedTells ==
    ASSUME UnixInv, UnixInv', SleepInv, NEW t \in SockThread, Interrupted(t)
    PROVE  SleepInv'
<1>1. sockCall' = [sockCall EXCEPT ![t] = Idle] /\ UNCHANGED <<sock, budget, tuned>> BY DEF Interrupted
<1>2. Idle.pc = "user" /\ \A d : ~Hears(d, {}) BY DEF Idle, Call, Hears
<1>3. sockCall \in [SockThread -> CallState] BY DEF UnixInv, SockTyped
<1>4. \A u \in SockThread : sockCall'[u] = IF u = t THEN Idle ELSE sockCall[u] BY <1>1, <1>3
<1>5. CallsLeft({}) BY <1>2, <1>4 DEF CallsLeft
<1> QED BY <1>1, <1>5, CallsOnly

\* A call that goes to sleep has been told by poll that it would block.
LEMMA SleepTells ==
    ASSUME UnixInv, UnixInv', SleepInv, NEW t \in SockThread, Sleep(t)
    PROVE  SleepInv'
<1>1. sockCall[t].pc = "again" /\ UNCHANGED <<sock, budget, tuned>> BY DEF Sleep
<1>2. PICK c \in CallState : c = sockCall[t] BY DEF UnixInv, SockTyped
<1>3. PICK s \in Socket : s = c.s /\ sock[s].life = "open" BY <1>1, <1>2 DEF UnixInv, CallsOpen
<1>4. PICK ready : ready = IF PollReady(s, OpEvent(c.op)) THEN "try" ELSE "asleep" OBVIOUS
<1>5. sockCall' = [sockCall EXCEPT ![t].pc = ready] BY <1>2, <1>3, <1>4 DEF Sleep, Self
<1>6. PICK d : d = [c EXCEPT !.pc = ready] OBVIOUS
<1>7. d.op = c.op /\ d.s = c.s /\ d.len = c.len /\ d.flag = c.flag /\ d.pc = ready BY <1>6 DEF CallState
<1>8. \A u \in SockThread : sockCall'[u] = IF u = t THEN d ELSE sockCall[u]
  BY <1>2, <1>5, <1>6 DEF UnixInv, SockTyped, CallState
<1>9. CallExact(c) BY <1>1, <1>2 DEF SleepInv, WaitsExactly
<1>10. CallExact(d) BY <1>7, <1>9 DEF CallExact
<1>11. ASSUME ready = "asleep" PROVE CallStuck(c)
  <2>1. ~PollReady(s, OpEvent(c.op)) BY <1>4, <1>11
  <2>2. c.op = "accept" => AcceptStuck(s)
    BY <2>1, <1>3, <1>9 DEF PollReady, ReadReady, OpEvent, CallExact, AcceptStuck
  <2>3. (sock[s].established => ~sock[s].listening) /\ (sock[s].listening => ConnectionOriented)
    BY DEF SleepInv, EstablishedIdle
  <2>4. (ConnectionOriented <=> sockKind # "dgram") /\ (Stream => ConnectionOriented)
    BY DEF UnixInv, SockTyped, Budget, ConnectionOriented, Stream, sockKind
  <2>5. c.op = "recv" => RecvStuck(s)
    BY <2>3, <1>3, <1>9, <2>1 DEF CallExact, PollReady, OpEvent, ReadReady, RecvStuck
  <2>6. c.op = "connect" => ConnectStuck(s)
    <3> SUFFICES ASSUME c.op = "connect", ~ConnectStuck(s) PROVE FALSE OBVIOUS
    <3>1. PICK l : l = sock[s].pending OBVIOUS
    <3>2. /\ ConnectionOriented /\ ~sock[s].shutWr /\ ~sock[s].established /\ ~sock[s].listening /\ l \in Socket
          /\ ~(sock[l].listening /\ BacklogFull(l))
      BY <3>1 DEF ConnectStuck
    <3>3. sock[l].limit \in Nat /\ Len(sock[l].backlog) \in Nat
      <4>1. sock[l] \in SockState BY <3>2 DEF UnixInv, SockTyped
      <4> QED BY <4>1 DEF SockState
    <3>4. ~sock[l].listening \/ (sock[l].limit # 0 /\ Len(sock[l].backlog) < sock[l].limit)
      BY <3>2, <3>3 DEF BacklogFull
    <3>5. WriteReady(s) BY <3>1, <3>2, <3>4, <2>4 DEF WriteReady, Upgrades
    <3> QED BY <2>1, <3>1, <3>2, <3>5 DEF PollReady, OpEvent, Upgrades
  <2>7. c.op = "send" => SendStuck(s)
    <3> SUFFICES ASSUME c.op = "send", ~SendStuck(s) PROVE FALSE OBVIOUS
    <3>1. PICK p : p = sock[s].peer OBVIOUS
    <3>2. /\ ConnectionOriented /\ ~sock[s].shutWr /\ (Stream \/ p \in Socket) /\ <<s, "connect">> \notin tuned
          /\ p \in Socket => ~sock[p].shutRd /\ HasSpace(p)
      BY <3>1 DEF SendStuck
    <3>3. sock[s].established /\ ~sock[s].listening BY <3>2, <2>3, <1>3, <1>9 DEF CallExact
    <3>4. sock[s].pending \notin Socket BY <3>2, <3>3 DEF SleepInv, ConnectsAgain
    <3>5. CASE p \in Socket
      <4>1. WriteReady(s) BY <3>1, <3>2, <3>3, <3>4, <3>5, <2>4 DEF WriteReady, Upgrades, PeerOf
      <4> QED BY <2>1, <4>1, <3>1, <3>2, <3>5 DEF PollReady, OpEvent, Upgrades, PeerOf
    <3>6. CASE p \notin Socket
      BY <3>1, <3>3, <3>6, <2>1, <3>2 DEF PeerShutWr, Upgrades, PeerOf, PollReady
    <3> QED BY <3>5, <3>6
  <2> QED BY <2>2, <2>5, <2>6, <2>7, <1>3 DEF CallStuck
<1>12. ASSUME ready = "asleep" PROVE CallStuck(d) BY <1>7, <1>11, <1>12 DEF CallStuck
<1>13. ready \in {"try", "asleep"} BY <1>4
<1>14. ConnectionOriented' <=> ConnectionOriented BY <1>1 DEF ConnectionOriented, sockKind
<1>15. \A e : (CallExact(e) => CallExact(e)') /\ (CallStuck(e) => CallStuck(e)')
  BY <1>1 DEF CallExact, CallStuck, AcceptStuck, RecvStuck, ConnectStuck, SendStuck, PeerShutWr, PeerOf, Resized,
              BacklogFull, HasSpace, ConnectionOriented, Stream, sockKind
<1>16. WaitsExactly'
  BY <1>8, <1>10, <1>15 DEF WaitsExactly, SleepInv, CallExact
<1>17. SleepersStuck'
  BY <1>7, <1>8, <1>12, <1>15 DEF SleepersStuck, SleepInv, CallStuck
<1>18. EstablishedIdle' BY <1>1, <1>14 DEF SleepInv, EstablishedIdle
<1>19. Fits' /\ ConnectsAgain' BY <1>1 DEF SleepInv, Fits, ConnectsAgain, Resized
<1> QED BY <1>16, <1>17, <1>18, <1>19 DEF SleepInv

-----------------------------------------------------------------------------
(* Steps on one socket *)

\* One socket changes in none but these: listening and limit, rcvbuf, shutRd and
\* shutWr.
Links(n, r) ==
    /\ n.established = r.established /\ n.backlog = r.backlog /\ n.peer = r.peer /\ n.pending = r.pending
    /\ n.queue = r.queue /\ n.size = r.size

LEMMA KindSame ==
    ASSUME SameKind
    PROVE  (ConnectionOriented' <=> ConnectionOriented) /\ (Stream' <=> Stream)
BY DEF SameKind, ConnectionOriented, sockKind, Stream

LEMMA ListenTells ==
    ASSUME UnixInv, UnixInv', SleepInv, NEW s \in Socket, NEW limit \in Backlogs, Listen(s, limit)
    PROVE  SleepInv'
<1>1. /\ sock[s].life = "open" /\ sock' = [sock EXCEPT ![s].listening = TRUE, ![s].limit = limit]
      /\ ConnectionOriented /\ ~sock[s].established
      /\ tuned' = IF sock[s].listening THEN tuned \cup {<<s, "limit">>} ELSE tuned
      /\ sockCall' = Notify(sockCall, {<<s, "WRITE">>}) /\ UNCHANGED budget
  BY DEF Listen, UserOf
<1>2. PICK N : N = {<<s, "WRITE">>} OBVIOUS
<1>3. CallsLeft(N) BY <1>1, <1>2, AfterNotify
<1>4. SameKind BY <1>1 DEF SameKind
<1>5. sock \in [Socket -> SockState] /\ sock[s] \in SockState BY DEF UnixInv, SockTyped
<1>6. PICK one : one = [sock[s] EXCEPT !.listening = TRUE] OBVIOUS
<1>7. PICK new : new = [one EXCEPT !.limit = limit] OBVIOUS
<1>8. TRUE \in Flag /\ limit \in Nat BY SockSizeAssumption DEF Flag
<1>9. /\ one \in SockState /\ one.listening = TRUE /\ one.shutRd = sock[s].shutRd /\ one.shutWr = sock[s].shutWr
      /\ one.rcvbuf = sock[s].rcvbuf /\ Links(one, sock[s])
  BY <1>5, <1>6, <1>8, WithListening DEF Links
<1>10. /\ new.listening = TRUE /\ new.shutRd = sock[s].shutRd /\ new.shutWr = sock[s].shutWr
       /\ new.rcvbuf = sock[s].rcvbuf /\ Links(new, sock[s])
  BY <1>7, <1>8, <1>9, WithLimit DEF Links
<1>11. \A x \in Socket : sock'[x] = IF x = s THEN new ELSE sock[x] BY <1>1, <1>5, <1>6, <1>7 DEF SockState
<1>12. \A x \in Socket : Links(sock'[x], sock[x]) /\ sock'[x].shutRd = sock[x].shutRd
          /\ sock'[x].shutWr = sock[x].shutWr /\ sock'[x].rcvbuf = sock[x].rcvbuf
          /\ (sock[x].listening => sock'[x].listening)
  BY <1>10, <1>11 DEF Links
<1>13. Told(N)
  <2> SUFFICES ASSUME NEW x \in Socket, sock[x].life = "open" PROVE ToldAt(x, N) BY DEF Told
  <2>1. PICK p : p = sock[x].peer /\ p = sock'[x].peer BY <1>12 DEF Links
  <2>2. PICK l : l = sock[x].pending /\ l = sock'[x].pending BY <1>12 DEF Links
  <2>3. AcceptStuck(x) => AcceptStuck(x)' BY <1>12 DEF AcceptStuck, Links
  <2>4. RecvStuck(x) => RecvStuck(x)'
    BY <2>1, <1>4, <1>12, KindSame DEF RecvStuck, PeerShutWr, PeerOf, Upgrades, Links
  <2>5. ConnectStuck(x) => ConnectStuck(x)' \/ WriterTold(x, N)
    <3>1. CASE x = s BY <3>1, <1>2 DEF WriterTold
    <3>2. CASE l = s /\ sock[s].listening
      <4>1. Resized(l)' BY <3>2, <1>1 DEF Resized
      <4> QED BY <4>1, <2>2 DEF ConnectStuck
    <3>3. CASE x # s /\ (l # s \/ ~sock[s].listening)
      <4>1. sock'[x] = sock[x] /\ (l \in Socket /\ l # s => sock'[l] = sock[l]) BY <3>3, <1>11
      <4>2. Resized(l) => Resized(l)' BY <1>1 DEF Resized
      <4> QED BY <4>1, <4>2, <3>3, <2>2, <1>4, KindSame DEF ConnectStuck, BacklogFull
    <3> QED BY <3>1, <3>2, <3>3
  <2>6. SendStuck(x) => SendStuck(x)'
    <3>1. (Resized(p) => Resized(p)') /\ (<<x, "connect">> \in tuned => <<x, "connect">> \in tuned') BY <1>1 DEF Resized
    <3>2. p \in Socket => (HasSpace(p)' <=> HasSpace(p)) BY <1>12 DEF HasSpace, Links
    <3> QED BY <3>1, <3>2, <2>1, <1>4, <1>12, KindSame DEF SendStuck
  <2> QED BY <2>3, <2>4, <2>5, <2>6, <1>12 DEF ToldAt, Links
<1>14. EstablishedIdle'
  <2>1. ~sock[s].established /\ ConnectionOriented BY <1>1
  <2>2. \A x \in Socket : x # s => sock'[x] = sock[x] BY <1>11
  <2>3. \A x \in Socket : sock'[x].established = sock[x].established BY <1>12 DEF Links
  <2> QED BY <2>1, <2>2, <2>3, <1>4, KindSame DEF SleepInv, EstablishedIdle
<1>15. Fits' BY <1>1, <1>12 DEF SleepInv, Fits, Resized, Links
<1>16. ConnectsAgain' BY <1>1, <1>12 DEF SleepInv, ConnectsAgain, Links
<1> QED BY <1>3, <1>4, <1>13, <1>14, <1>15, <1>16, SleepersTold DEF SleepInv

LEMMA SetRcvBufTells ==
    ASSUME UnixInv, UnixInv', SleepInv, NEW s \in Socket, NEW n \in BufferSizes, SetRcvBuf(s, n)
    PROVE  SleepInv'
<1>1. /\ sock' = [sock EXCEPT ![s].rcvbuf = n] /\ budget' = [budget EXCEPT !.shuts = @ - 1]
      /\ tuned' = tuned \cup {<<s, "limit">>} /\ UNCHANGED sockCall
  BY DEF SetRcvBuf
<1>2. CallsLeft({}) BY <1>1, CallsSame
<1>3. SameKind BY <1>1 DEF UnixInv, SockTyped, SameKind, Budget
<1>4. sock \in [Socket -> SockState] /\ sock[s] \in SockState BY DEF UnixInv, SockTyped
<1>5. PICK new : new = [sock[s] EXCEPT !.rcvbuf = n] OBVIOUS
<1>6. n \in Nat BY SockSizeAssumption
<1>7. /\ Links(new, sock[s]) /\ new.listening = sock[s].listening /\ new.limit = sock[s].limit
      /\ new.shutRd = sock[s].shutRd /\ new.shutWr = sock[s].shutWr
  BY <1>4, <1>5, <1>6, WithRcvbuf DEF Links
<1>8. \A x \in Socket : sock'[x] = IF x = s THEN new ELSE sock[x] BY <1>1, <1>4, <1>5 DEF SockState
<1>9. \A x \in Socket : Links(sock'[x], sock[x]) /\ sock'[x].listening = sock[x].listening
         /\ sock'[x].limit = sock[x].limit /\ sock'[x].shutRd = sock[x].shutRd /\ sock'[x].shutWr = sock[x].shutWr
  BY <1>7, <1>8 DEF Links
<1>10. \A x, k : <<x, k>> \in tuned => <<x, k>> \in tuned' BY <1>1
<1>11. Told({})
  <2> SUFFICES ASSUME NEW x \in Socket, sock[x].life = "open" PROVE ToldAt(x, {}) BY DEF Told
  <2>1. PICK p : p = sock[x].peer /\ p = sock'[x].peer BY <1>9 DEF Links
  <2>2. PICK l : l = sock[x].pending /\ l = sock'[x].pending BY <1>9 DEF Links
  <2>3. AcceptStuck(x) => AcceptStuck(x)' BY <1>9 DEF AcceptStuck, Links
  <2>4. RecvStuck(x) => RecvStuck(x)'
    BY <2>1, <1>3, <1>9, KindSame DEF RecvStuck, PeerShutWr, PeerOf, Upgrades, Links
  <2>5. ConnectStuck(x) => ConnectStuck(x)'
    BY <2>2, <1>3, <1>9, <1>10, KindSame DEF ConnectStuck, BacklogFull, Resized, Links
  <2>6. SendStuck(x) => SendStuck(x)'
    <3>1. CASE p = s
      <4>1. Resized(p)' BY <3>1, <1>1 DEF Resized
      <4> QED BY <4>1, <3>1, <2>1 DEF SendStuck
    <3>2. CASE p # s
      <4>1. p \in Socket => sock'[p] = sock[p] BY <3>2, <1>8
      <4> QED BY <4>1, <2>1, <1>3, <1>9, <1>10, KindSame DEF SendStuck, Resized, HasSpace
    <3> QED BY <3>1, <3>2
  <2> QED BY <2>3, <2>4, <2>5, <2>6, <1>9 DEF ToldAt, Links
<1>12. EstablishedIdle' BY <1>3, <1>9, KindSame DEF SleepInv, EstablishedIdle, Links
<1>13. Fits'
  BY <1>8, <1>1 DEF SleepInv, Fits, Resized
<1>14. ConnectsAgain' BY <1>9, <1>10 DEF SleepInv, ConnectsAgain, Links
<1> QED BY <1>2, <1>3, <1>11, <1>12, <1>13, <1>14, SleepersTold DEF SleepInv

LEMMA ShutdownTells ==
    ASSUME UnixInv, UnixInv', SleepInv, NEW s \in Socket, NEW how, Shutdown(s, how)
    PROVE  SleepInv'
<1> DEFINE rd == sock[s].shutRd \/ how # "wr"
           wr == sock[s].shutWr \/ how # "rd"
<1>1. /\ sock' = [sock EXCEPT ![s].shutRd = rd, ![s].shutWr = wr]
      /\ budget' = [budget EXCEPT !.shuts = @ - 1]
      /\ sockCall' = Notify(sockCall, {s, PeerOf(s)} \X Everyone) /\ UNCHANGED tuned
  BY DEF Shutdown
<1>2. PICK N : N = {s, PeerOf(s)} \X Everyone OBVIOUS
<1>3. CallsLeft(N) BY <1>1, <1>2, AfterNotify
<1>4. SameKind BY <1>1 DEF UnixInv, SockTyped, SameKind, Budget
<1>5. sock \in [Socket -> SockState] /\ sock[s] \in SockState BY DEF UnixInv, SockTyped
<1>6. rd \in Flag /\ wr \in Flag BY DEF Flag
<1>7. (sock[s].shutRd => rd) /\ (sock[s].shutWr => wr) OBVIOUS
<1> HIDE DEF rd, wr
<1>8. PICK one : one = [sock[s] EXCEPT !.shutRd = rd] OBVIOUS
<1>9. PICK new : new = [one EXCEPT !.shutWr = wr] OBVIOUS
<1>10. /\ one \in SockState /\ Links(one, sock[s]) /\ one.listening = sock[s].listening /\ one.limit = sock[s].limit
       /\ one.rcvbuf = sock[s].rcvbuf /\ one.shutRd = rd
  BY <1>5, <1>6, <1>8, WithShutRd DEF Links
<1>11. /\ Links(new, sock[s]) /\ new.listening = sock[s].listening /\ new.limit = sock[s].limit
       /\ new.rcvbuf = sock[s].rcvbuf /\ new.shutRd = rd /\ new.shutWr = wr
  BY <1>6, <1>9, <1>10, WithShutWr DEF Links
<1>12. \A x \in Socket : sock'[x] = IF x = s THEN new ELSE sock[x] BY <1>1, <1>5, <1>8, <1>9 DEF SockState
<1>13. \A x \in Socket : Links(sock'[x], sock[x]) /\ sock'[x].listening = sock[x].listening
          /\ sock'[x].limit = sock[x].limit /\ sock'[x].rcvbuf = sock[x].rcvbuf
          /\ (sock[x].shutRd => sock'[x].shutRd) /\ (sock[x].shutWr => sock'[x].shutWr)
  BY <1>7, <1>11, <1>12 DEF Links
<1>14. ReaderTold(s, N) /\ WriterTold(s, N) /\ ReaderTold(PeerOf(s), N)
  BY <1>2 DEF ReaderTold, WriterTold, Everyone
<1>a. tuned' = tuned BY <1>1
<1>15. Told(N)
  <2> SUFFICES ASSUME NEW x \in Socket, sock[x].life = "open" PROVE ToldAt(x, N) BY DEF Told
  <2>1. PICK p : p = sock[x].peer /\ p = sock'[x].peer BY <1>13 DEF Links
  <2>2. PICK l : l = sock[x].pending /\ l = sock'[x].pending BY <1>13 DEF Links
  <2>3. AcceptStuck(x) => AcceptStuck(x)' BY <1>13 DEF AcceptStuck, Links
  <2>4. RecvStuck(x) => RecvStuck(x)' \/ ReaderTold(x, N)
    <3>1. CASE x = s BY <3>1, <1>14
    <3>2. CASE x # s /\ p = s /\ ConnectionOriented
      <4>1. PeerOf(s) = x BY <3>2, <2>1 DEF UnixInv, LinkInv, PeersMutual, PeerOf
      <4> QED BY <4>1, <1>14
    <3>3. CASE x # s /\ ~(p = s /\ ConnectionOriented)
      BY <3>3, <1>12, <2>1, <1>4, KindSame DEF RecvStuck, PeerShutWr, PeerOf, Upgrades
    <3> QED BY <3>1, <3>2, <3>3
  <2>5. ConnectStuck(x) => ConnectStuck(x)'
    BY <2>2, <1>a, <1>4, <1>13, KindSame DEF ConnectStuck, BacklogFull, Resized, Links
  <2>6. SendStuck(x) => SendStuck(x)'
    BY <2>1, <1>a, <1>4, <1>13, KindSame DEF SendStuck, HasSpace, Resized, Links
  <2> QED BY <2>3, <2>4, <2>5, <2>6, <1>13 DEF ToldAt, Links
<1>16. EstablishedIdle' BY <1>4, <1>13, KindSame DEF SleepInv, EstablishedIdle, Links
<1>17. Fits' BY <1>a, <1>13 DEF SleepInv, Fits, Resized, Links
<1>18. ConnectsAgain' BY <1>a, <1>13 DEF SleepInv, ConnectsAgain, Links
<1> QED BY <1>3, <1>4, <1>15, <1>16, <1>17, <1>18, SleepersTold DEF SleepInv

\* Sockets that were free are nobody's peer and have no call.
LEMMA SocketPairTells ==
    ASSUME UnixInv, UnixInv', SleepInv, NEW s \in Socket, NEW r \in Socket, SocketPair(s, r)
    PROVE  SleepInv'
<1> DEFINE n(p) == [Fresh EXCEPT !.life = "open", !.peer = p, !.established = TRUE]
<1>3. /\ s = NextFree /\ Cardinality(Free) > 1 /\ r = CHOOSE x \in Free \ {s} : TRUE
      /\ sock' = [x \in Socket |-> IF x = s THEN n(r) ELSE IF x = r THEN n(s) ELSE sock[x]]
      /\ budget' = [budget EXCEPT !.opens = @ - 1] /\ UNCHANGED <<sockCall, tuned>>
  BY DEF SocketPair
<1>4. SameKind BY <1>3 DEF UnixInv, SockTyped, SameKind, Budget
<1>5. CallsLeft({}) BY <1>3, CallsSame
<1>6. sock[s].life = "free" /\ sock[r].life = "free"
  <2>1. Cardinality({}) = 0 /\ Cardinality({s}) = 1 BY FS_EmptySet, FS_Singleton
  <2>0. Cardinality(Free) > 1 BY <1>3
  <2>2. Free # {} /\ Free # {s} BY <2>0, <2>1
  <2>a. s \in Free BY <1>3, <2>2 DEF NextFree
  <2>b. Free \ {s} # {} BY <2>2
  <2>3. s \in Free /\ r \in Free BY <1>3, <2>a, <2>b
  <2> QED BY <2>3 DEF Free
<1>7. \A x \in Socket : x = s \/ x = r \/ sock'[x] = sock[x] BY <1>3
<1>8. Told({})
  BY <1>6, <1>7, SameLooks, <1>3, <1>4, ToldNothing
<1>9. \A p : n(p).listening = FALSE /\ n(p).size = 0 /\ n(p).rcvbuf = Buffer /\ n(p).pending = NoSocket
  BY DEF Fresh
<1> HIDE DEF n
<1>10. \A x \in Socket : \/ sock'[x] = sock[x]
                         \/ /\ sock'[x].listening = FALSE /\ sock'[x].size = 0 /\ sock'[x].rcvbuf = Buffer
                            /\ sock'[x].pending \notin Socket
  BY <1>3, <1>9, SockNoneAssumption
<1>a. tuned' = tuned BY <1>3
<1>11. EstablishedIdle' BY <1>4, <1>10, KindSame DEF SleepInv, EstablishedIdle
<1>12. Fits'
  <2> SUFFICES ASSUME NEW x \in Socket PROVE Resized(x)' \/ sock'[x].size <= sock'[x].rcvbuf BY DEF Fits
  <2>1. CASE sock'[x] = sock[x] BY <2>1, <1>a DEF SleepInv, Fits, Resized
  <2>2. CASE sock'[x].size = 0 /\ sock'[x].rcvbuf = Buffer BY <2>2, SockSizeAssumption
  <2> QED BY <2>1, <2>2, <1>10
<1>13. ConnectsAgain' BY <1>a, <1>10 DEF SleepInv, ConnectsAgain
<1> QED BY <1>4, <1>5, <1>8, <1>11, <1>12, <1>13, SleepersTold DEF SleepInv

-----------------------------------------------------------------------------
(* connect and accept *)

LEMMA ConnectCallIs ==
    ASSUME NEW s \in Socket, NEW call \in ConnectCalls(s)
    PROVE  call.op = "connect"
BY DEF ConnectCalls, Call

\* What connect leaves alone of a socket.
Rest(n, r) ==
    /\ n.listening = r.listening /\ n.limit = r.limit /\ n.rcvbuf = r.rcvbuf
    /\ n.shutRd = r.shutRd /\ n.shutWr = r.shutWr

LEMMA ClearedRest ==
    ASSUME UnixInv, NEW c \in Socket, NEW x \in Socket
    PROVE  Rest(Cleared(sock, c)[x], sock[x])
  BY WithPending, WithConnects DEF UnixInv, SockTyped, Weak, Rest, SockState, Cleared

LEMMA PendedRest ==
    ASSUME UnixInv, NEW c \in Socket, NEW l \in Socket, c # l, NEW x \in Socket
    PROVE  Rest(Pended(c, l)[x], sock[x])
<1>1. PICK k \in [Socket -> SockState] : k = Cleared(sock, c) BY ClearedFact
<1>2. k[x] \in SockState /\ Rest(k[x], sock[x]) BY <1>1, ClearedRest
<1>3. PICK a : a = [k[x] EXCEPT !.pending = l] OBVIOUS
<1>4. PICK b : b = [k[x] EXCEPT !.connects = @ \cup {c}] OBVIOUS
<1>5. Rest(a, k[x])
  BY <1>2, <1>3, WithPending DEF Weak, Rest
<1>6. Rest(b, k[x])
  BY <1>2, <1>4, WithConnects DEF SockState, Rest
<1>7. Pended(c, l) = [k EXCEPT ![c].pending = l, ![l].connects = @ \cup {c}] BY <1>1 DEF Pended
<1>8. Pended(c, l)[x] \in {a, b, k[x]} BY <1>1, <1>3, <1>4, <1>7 DEF SockState
<1> QED BY <1>2, <1>5, <1>6, <1>8 DEF Rest

LEMMA EstablishedRest ==
    ASSUME UnixInv, NEW c \in Socket, NEW l \in Socket, NEW v \in Socket, c # l, c # v, l # v, NEW x \in Socket
    PROVE  LET k == Established(Cleared(sock, c), c, l, v) IN
           /\ x # v => Rest(k[x], sock[x])
           /\ k[v].listening = FALSE /\ k[v].size = 0 /\ k[v].rcvbuf = sock[l].rcvbuf /\ k[v].pending = NoSocket
<1>1. PICK k \in [Socket -> SockState] : k = Cleared(sock, c) BY ClearedFact
<1>2. /\ k[x] \in SockState /\ Rest(k[x], sock[x]) /\ k[l].rcvbuf = sock[l].rcvbuf BY <1>1, ClearedRest DEF Rest
<1>3. PICK e : e = Established(k, c, l, v) OBVIOUS
<1>4. PICK w : w = [Fresh EXCEPT !.life = "backlog", !.addr = k[l].addr, !.rcvbuf = k[l].rcvbuf,
                                 !.established = TRUE, !.peer = c]
  OBVIOUS
<1>5. w.listening = FALSE /\ w.size = 0 /\ w.rcvbuf = k[l].rcvbuf /\ w.pending = NoSocket BY <1>4 DEF Fresh
<1>6. e = [k EXCEPT ![v] = w, ![c].peer = v, ![c].established = TRUE, ![l].backlog = Append(@, v)]
  BY <1>3, <1>4 DEF Established
<1>7. e[v] = w BY <1>6
<1>8. PICK a1 : a1 = [k[x] EXCEPT !.peer = v] OBVIOUS
<1>9. PICK a2 : a2 = [a1 EXCEPT !.established = TRUE] OBVIOUS
<1>10. PICK b : b = [k[x] EXCEPT !.backlog = Append(@, v)] OBVIOUS
<1>11. a1 \in SockState /\ Rest(a1, k[x])
  BY <1>2, <1>8, WithPeer DEF Weak, Rest
<1>12. Rest(a2, a1)
  BY <1>9, <1>11, WithEstablished DEF Flag, Rest
<1>13. Rest(b, k[x])
  BY <1>2, <1>10, WithBacklog DEF SockState, Rest
<1>14. x # v => e[x] \in {a2, b, k[x]} BY <1>1, <1>6, <1>8, <1>9, <1>10 DEF SockState
<1> QED BY <1>1, <1>2, <1>3, <1>5, <1>7, <1>11, <1>12, <1>13, <1>14 DEF Rest

\* Only the listener a socket waits for changes.
Repended(c) ==
    \A x \in Socket :
        /\ Rest(sock'[x], sock[x]) /\ sock'[x].established = sock[x].established
        /\ sock'[x].backlog = sock[x].backlog /\ sock'[x].peer = sock[x].peer
        /\ sock'[x].queue = sock[x].queue /\ sock'[x].size = sock[x].size
        /\ x # c => sock'[x].pending = sock[x].pending

LEMMA RependedTells ==
    ASSUME UnixInv, UnixInv', SleepInv, NEW c \in Socket, Repended(c), SameKind, ConnectStuck(c)', CallsLeft({}),
           tuned' = IF sock[c].established /\ Upgrades(sock'[c].pending) THEN tuned \cup {<<c, "connect">>} ELSE tuned
    PROVE  SleepInv'
<1>1. \A x : /\ Resized(x)' <=> Resized(x)
             /\ <<x, "connect">> \in tuned => <<x, "connect">> \in tuned'
  BY DEF Resized
<1>2. Told({})
  <2> SUFFICES ASSUME NEW x \in Socket, sock[x].life = "open" PROVE ToldAt(x, {}) BY DEF Told
  <2>1. PICK p : p = sock[x].peer /\ p = sock'[x].peer BY DEF Repended
  <2>2. AcceptStuck(x) => AcceptStuck(x)' BY DEF AcceptStuck, Repended, Rest
  <2>3. RecvStuck(x) => RecvStuck(x)'
    BY <2>1, KindSame DEF RecvStuck, PeerShutWr, PeerOf, Upgrades, Repended, Rest
  <2>4. ConnectStuck(x) => ConnectStuck(x)'
    <3>1. CASE x = c BY <3>1
    <3>2. CASE x # c
      <4>1. PICK l : l = sock[x].pending /\ l = sock'[x].pending BY <3>2 DEF Repended
      <4> QED BY <4>1, <1>1, KindSame DEF ConnectStuck, BacklogFull, Repended, Rest
    <3> QED BY <3>1, <3>2
  <2>5. SendStuck(x) => SendStuck(x)'
    BY <2>1, <1>1, KindSame DEF SendStuck, HasSpace, Repended, Rest
  <2> QED BY <2>2, <2>3, <2>4, <2>5 DEF ToldAt, Repended, Rest
<1>3. EstablishedIdle' BY KindSame DEF SleepInv, EstablishedIdle, Repended, Rest
<1>4. Fits' BY <1>1 DEF SleepInv, Fits, Repended, Rest
<1>5. ConnectsAgain'
  BY <1>1 DEF ConnectsAgain, Repended, Upgrades, SleepInv
<1> QED BY <1>2, <1>3, <1>4, <1>5, SleepersTold DEF SleepInv

\* Making the connection tells the listener and the socket that connects.
LEMMA EstablishedTells ==
    ASSUME UnixInv, UnixInv', SleepInv, NEW c \in Socket, NEW l \in Socket, NEW v \in Socket, c # l, c # v, l # v,
           sock[v] = Fresh, sock' = Established(Cleared(sock, c), c, l, v),
           ConnectionOriented, ~sock[c].listening, ~BacklogFull(l), sock[c].peer \notin Socket, SameKind, tuned' = tuned,
           CallsLeft({<<l, "READ">>, <<c, "WRITE">>})
    PROVE  SleepInv'
<1>1. IsEstablished(sock', c, l, v) BY EstablishedFact
<1>2. \A x \in Socket : x # v => Rest(sock'[x], sock[x]) BY EstablishedRest
<1>3. sock'[v].listening = FALSE /\ sock'[v].size = 0 /\ sock'[v].rcvbuf = sock[l].rcvbuf /\ sock'[v].pending = NoSocket
  BY EstablishedRest
<1>4. \A x \in Socket :
         /\ sock'[x].queue = sock[x].queue /\ sock'[x].size = sock[x].size
         /\ x # c /\ x # v => /\ sock'[x].peer = sock[x].peer /\ sock'[x].established = sock[x].established
                              /\ sock'[x].pending = sock[x].pending
         /\ x # l => sock'[x].backlog = sock[x].backlog
         /\ sock'[c].established /\ sock'[c].pending = NoSocket
  BY <1>1 DEF IsEstablished
<1>5. PICK N : N = {<<l, "READ">>, <<c, "WRITE">>} OBVIOUS
<1>6. ReaderTold(l, N) /\ WriterTold(c, N) BY <1>5 DEF ReaderTold, WriterTold
<1>7. sock[v].life = "free" BY DEF Fresh
<1>8. Told(N)
  <2> SUFFICES ASSUME NEW x \in Socket, sock[x].life = "open" PROVE ToldAt(x, N) BY DEF Told
  <2>0. x # v /\ Rest(sock'[x], sock[x]) BY <1>2, <1>7
  <2>1. PICK p : p = sock[x].peer OBVIOUS
  <2>2. PICK m : m = sock[x].pending OBVIOUS
  <2>3. p \in Socket => p # v /\ Rest(sock'[p], sock[p]) BY <1>2, <1>7, <2>1 DEF UnixInv, LinkInv, PeersLive
  <2>4. m \in Socket => m # v /\ Rest(sock'[m], sock[m]) BY <1>2, <1>7, <2>2 DEF UnixInv, LinkInv, PendingLive
  <2>5. AcceptStuck(x) => AcceptStuck(x)' \/ ReaderTold(x, N)
    BY <2>0, <1>4, <1>6 DEF AcceptStuck, Rest
  <2>6. RecvStuck(x) /\ (ConnectionOriented => sock[x].established) => RecvStuck(x)'
    <3> SUFFICES ASSUME RecvStuck(x), sock[x].established PROVE RecvStuck(x)' OBVIOUS
    <3>1. x # c
      BY DEF PeerShutWr, PeerOf, Upgrades, RecvStuck
    <3>2. sock'[x].peer = p /\ sock'[x].established = sock[x].established /\ sock'[x].queue = sock[x].queue
      BY <3>1, <2>0, <2>1, <1>4
    <3> QED BY <3>2, <2>0, <2>1, <2>3, KindSame DEF RecvStuck, PeerShutWr, PeerOf, Upgrades, Rest
  <2>7. ConnectStuck(x) => ConnectStuck(x)' \/ WriterTold(x, N)
    <3>1. CASE x = c BY <3>1, <1>6
    <3>2. CASE x # c
      <4>1. sock'[x].pending = m /\ sock'[x].established = sock[x].established BY <3>2, <2>0, <2>2, <1>4
      <4>2. CASE m = l
        BY <4>1, <4>2, <2>0, <2>2, <2>4, KindSame DEF Resized, ConnectStuck, Rest
      <4>3. CASE m # l
        <5>1. m \in Socket => (BacklogFull(m)' <=> BacklogFull(m)) BY <4>3, <2>4, <1>4 DEF BacklogFull, Rest
        <5>2. Resized(m)' <=> Resized(m) BY DEF Resized
        <5> QED BY <4>1, <5>1, <5>2, <2>0, <2>2, <2>4, KindSame DEF ConnectStuck, Rest
      <4> QED BY <4>2, <4>3
    <3> QED BY <3>1, <3>2
  <2>8. SendStuck(x) => SendStuck(x)' \/ WriterTold(x, N)
    <3>1. CASE x = c BY <3>1, <1>6
    <3>2. CASE x # c
      <4>1. sock'[x].peer = p BY <3>2, <2>0, <2>1, <1>4
      <4>2. p \in Socket => (HasSpace(p)' <=> HasSpace(p)) BY <2>3, <1>4 DEF HasSpace, Rest
      <4>3. Resized(p)' <=> Resized(p) BY DEF Resized
      <4> QED BY <4>1, <4>2, <4>3, <2>0, <2>1, <2>3, KindSame DEF SendStuck, Rest
    <3> QED BY <3>1, <3>2
  <2>9. /\ sock[x].listening => sock'[x].listening
        /\ sock[x].established => sock'[x].established
    BY <2>0, <1>4 DEF Rest
  <2> QED BY <2>5, <2>6, <2>7, <2>8, <2>9 DEF ToldAt
<1>9. EstablishedIdle'
  BY <1>3, <1>2, KindSame, <1>4 DEF EstablishedIdle, Rest, SleepInv
<1>10. Fits'
  <2> SUFFICES ASSUME NEW x \in Socket PROVE Resized(x)' \/ sock'[x].size <= sock'[x].rcvbuf BY DEF Fits
  <2>1. CASE x = v
    BY <2>1, <1>3 DEF UnixInv, SockTyped, SockState
  <2>2. CASE x # v BY <2>2, <1>2, <1>4 DEF Rest, SleepInv, Fits, Resized
  <2> QED BY <2>1, <2>2
<1>11. ConnectsAgain' BY <1>3, <1>4, SockNoneAssumption DEF SleepInv, ConnectsAgain
<1> QED BY <1>5, <1>8, <1>9, <1>10, <1>11, SleepersTold DEF SleepInv

LEMMA TryConnectTells ==
    ASSUME UnixInv, UnixInv', SleepInv, NEW t \in SockThread, NEW c \in Socket, NEW call \in ConnectCalls(c),
           TryConnect(t, call)
    PROVE  SleepInv'
<1>1. call \in CallState /\ call.s = c /\ call.flag \in Address /\ call.op = "connect"
  BY ConnectCallTyped, ConnectCallIs
<1>2. PICK l : l = bound[call.flag] OBVIOUS
<1>3. /\ Calling(t, call) /\ ConnectionOriented /\ ~sock[c].listening /\ UNCHANGED <<budget, bound, sent, spliced>>
      /\ tuned' = IF sock[c].established /\ Upgrades(sock'[c].pending) THEN tuned \cup {<<c, "connect">>} ELSE tuned
  BY <1>1 DEF TryConnect, KeepQueues
<1>4. sock[c].life = "open" BY <1>1, <1>3, CalledOpen
<1>5. \/ Returns(t, {}) /\ UNCHANGED sock
      \/ Returns(t, {}) /\ sock' = Cleared(sock, c)
      \/ l \in Socket /\ sock[l].listening /\ BacklogFull(l) /\ sock' = Pended(c, l) /\ WouldBlockIn(t, call)
      \/ /\ l \in Socket /\ sock[l].listening /\ ~BacklogFull(l) /\ Free # {} /\ sock[c].peer \notin Socket
         /\ sock' = Established(Cleared(sock, c), c, l, NextFree) /\ Returns(t, {<<l, "READ">>, <<c, "WRITE">>})
  BY <1>1, <1>2, Zenon DEF TryConnect, Resolves, Upgrades, PeerOf, Pended
<1>6. l \in Socket => sock[l].life = "open" BY <1>1, <1>2 DEF UnixInv, LinkInv, BoundExact
<1>7. l \in Socket /\ sock[l].listening => c # l BY <1>3
<1>8. SameKind BY <1>3 DEF SameKind
<1>9. CASE Returns(t, {}) /\ UNCHANGED sock
  BY <1>3, <1>9, AfterReturn, CallsOnly DEF SleepInv, ConnectsAgain, Upgrades
<1>10. CASE Returns(t, {}) /\ sock' = Cleared(sock, c)
  <2>1. Repended(c) /\ sock'[c].pending = NoSocket BY <1>10, ClearedFact, ClearedRest DEF Repended
  <2>2. CallsLeft({}) BY <1>10, AfterReturn
  <2>3. ConnectStuck(c)' BY <2>1, SockNoneAssumption DEF ConnectStuck
  <2> QED BY <2>1, <2>2, <2>3, <1>3, <1>8, RependedTells
<1>11. CASE l \in Socket /\ sock[l].listening /\ BacklogFull(l) /\ sock' = Pended(c, l) /\ WouldBlockIn(t, call)
  <2>1. Repended(c) /\ sock'[c].pending = l BY <1>7, <1>11, PendedFact, PendedRest DEF Repended
  <2>2. ConnectStuck(c)'
    BY <2>1, <1>11 DEF Repended, Rest, BacklogFull, ConnectStuck
  <2>3. CallExact(call)' BY <1>1, <1>3, <1>8, KindSame DEF CallExact
  <2>4. CallsLeft({}) BY <2>3, <1>1, <1>11, AfterWait
  <2> QED BY <2>1, <2>2, <2>4, <1>3, <1>8, RependedTells
<1>12. CASE /\ l \in Socket /\ sock[l].listening /\ ~BacklogFull(l) /\ Free # {} /\ sock[c].peer \notin Socket
            /\ sock' = Established(Cleared(sock, c), c, l, NextFree) /\ Returns(t, {<<l, "READ">>, <<c, "WRITE">>})
  <2>1. PICK v \in Socket : v = NextFree /\ sock[v] = Fresh /\ sock[v].life = "free" BY <1>12, FreeIsNew
  <2>2. c # v /\ l # v /\ c # l BY <2>1, <1>4, <1>6, <1>7, <1>12
  <2>3. sock' = Established(Cleared(sock, c), c, l, v) BY <2>1, <1>12
  <2>4. IsEstablished(sock', c, l, v) BY <2>1, <2>2, <2>3, <1>12, EstablishedFact
  <2>5. sock'[c].pending = NoSocket BY <2>4 DEF IsEstablished
  <2>6. tuned' = tuned BY <2>5, <1>3, SockNoneAssumption DEF Upgrades
  <2>7. CallsLeft({<<l, "READ">>, <<c, "WRITE">>}) BY <1>12, AfterReturn
  <2> QED BY <2>1, <2>2, <2>3, <2>6, <2>7, <1>3, <1>8, <1>12, EstablishedTells
<1> QED BY <1>5, <1>9, <1>10, <1>11, <1>12

LEMMA TryConnectDgramTells ==
    ASSUME UnixInv, UnixInv', SleepInv, NEW t \in SockThread, NEW c \in Socket, NEW call \in ConnectCalls(c),
           TryConnectDgram(t, call)
    PROVE  SleepInv'
<1>1. call.s = c BY ConnectCallTyped
<1>2. /\ ~ConnectionOriented /\ UNCHANGED <<budget, tuned>>
  BY DEF TryConnectDgram, ConnectionOriented
<1>3. SameKind BY <1>2 DEF SameKind
<1>4. CASE ~Resolves(call.flag)
  BY <1>4, <1>2, AfterReturn, CallsOnly DEF TryConnectDgram
<1>5. CASE Resolves(call.flag)
  <2>1. PICK p : p = bound[call.flag] /\ p \in Socket BY <1>5 DEF Resolves, Upgrades
  <2>2. /\ Returns(t, {<<c, "WRITE">>})
        /\ sock' = [sock EXCEPT ![c].peer = p, ![c].pending = NoSocket, ![c].established = TRUE]
    BY <1>1, <1>5, <2>1 DEF TryConnectDgram
  <2>3. sock \in [Socket -> SockState] /\ sock[c] \in SockState BY DEF UnixInv, SockTyped
  <2>4. PICK n1 : n1 = [sock[c] EXCEPT !.peer = p] OBVIOUS
  <2>5. PICK n2 : n2 = [n1 EXCEPT !.pending = NoSocket] OBVIOUS
  <2>6. PICK n3 : n3 = [n2 EXCEPT !.established = TRUE] OBVIOUS
  <2>7. p \in Weak /\ NoSocket \in Weak /\ TRUE \in Flag BY <2>1 DEF Weak, Flag
  <2>8. /\ n1 \in SockState /\ Rest(n1, sock[c]) /\ n1.backlog = sock[c].backlog
        /\ n1.queue = sock[c].queue /\ n1.size = sock[c].size
    BY <2>3, <2>4, <2>7, WithPeer DEF Rest
  <2>9. /\ n2 \in SockState /\ Rest(n2, sock[c]) /\ n2.backlog = sock[c].backlog
        /\ n2.queue = sock[c].queue /\ n2.size = sock[c].size /\ n2.pending = NoSocket
    BY <2>5, <2>7, <2>8, WithPending DEF Rest
  <2>10. /\ Rest(n3, sock[c]) /\ n3.backlog = sock[c].backlog /\ n3.established = TRUE
         /\ n3.queue = sock[c].queue /\ n3.size = sock[c].size /\ n3.pending = NoSocket
    BY <2>6, <2>7, <2>9, WithEstablished DEF Rest
  <2>11. \A x \in Socket : sock'[x] = IF x = c THEN n3 ELSE sock[x]
    BY <2>2, <2>3, <2>4, <2>5, <2>6 DEF SockState
  <2>12. \A x \in Socket :
            /\ Rest(sock'[x], sock[x]) /\ sock'[x].backlog = sock[x].backlog
            /\ sock'[x].queue = sock[x].queue /\ sock'[x].size = sock[x].size
            /\ (sock[x].established => sock'[x].established)
            /\ sock'[x] = sock[x] \/ sock'[x].pending = NoSocket
    BY <2>10, <2>11 DEF Rest
  <2>13. PICK N : N = {<<c, "WRITE">>} OBVIOUS
  <2>14. CallsLeft(N) BY <2>2, <2>13, AfterReturn
  <2>15. Told(N)
    <3> SUFFICES ASSUME NEW x \in Socket PROVE ToldAt(x, N) BY DEF Told
    <3>1. AcceptStuck(x) => AcceptStuck(x)' BY <2>12 DEF AcceptStuck, Rest
    <3>2. RecvStuck(x) => RecvStuck(x)' BY <1>2, <1>3, <2>12, KindSame DEF RecvStuck, Rest
    <3>3. ConnectStuck(x)' /\ SendStuck(x)' BY <1>2, <1>3, KindSame DEF ConnectStuck, SendStuck
    <3> QED BY <3>1, <3>2, <3>3, <2>12 DEF ToldAt, Rest
  <2>16. EstablishedIdle' BY <1>2, <1>3, <2>12, KindSame DEF SleepInv, EstablishedIdle, Rest
  <2>17. Fits' BY <1>2, <2>12 DEF SleepInv, Fits, Resized, Rest
  <2>18. ConnectsAgain' BY <1>2, <2>12, SockNoneAssumption DEF SleepInv, ConnectsAgain
  <2> QED BY <1>3, <2>14, <2>15, <2>16, <2>17, <2>18, SleepersTold DEF SleepInv
<1> QED BY <1>4, <1>5

LEMMA TryAcceptTells ==
    ASSUME UnixInv, UnixInv', SleepInv, NEW t \in SockThread, NEW l \in Socket, TryAccept(t, AcceptCall(l))
    PROVE  SleepInv'
<1>0. AcceptCall(l) \in CallState /\ AcceptCall(l).s = l /\ AcceptCall(l).op = "accept"
  BY CallTyped DEF Flag, AcceptCall, IsCall, Call
<1>1. PICK call \in CallState : call = AcceptCall(l) /\ call.s = l /\ call.op = "accept" BY <1>0
<1>2. UNCHANGED <<budget, tuned>> BY <1>1 DEF TryAccept
<1>3. \/ UNCHANGED sock /\ sock[l].listening /\ WouldBlockIn(t, call)
      \/ UNCHANGED sock /\ Returns(t, {})
      \/ /\ sock[l].backlog # <<>> /\ Returns(t, AcceptHeard(l))
         /\ sock' = [sock EXCEPT ![l].backlog = Tail(@), ![Head(sock[l].backlog)].life = "open"]
  BY <1>1, Zenon DEF TryAccept
<1>4. CASE UNCHANGED sock /\ sock[l].listening /\ WouldBlockIn(t, call)
  BY <1>1, <1>4, <1>2, AfterWait, CallsOnly DEF CallExact
<1>5. CASE UNCHANGED sock /\ Returns(t, {}) BY <1>2, <1>5, AfterReturn, CallsOnly
<1>6. CASE /\ sock[l].backlog # <<>> /\ Returns(t, AcceptHeard(l))
           /\ sock' = [sock EXCEPT ![l].backlog = Tail(@), ![Head(sock[l].backlog)].life = "open"]
  <2>0. sock \in [Socket -> SockState] /\ sock[l] \in SockState BY DEF UnixInv, SockTyped
  <2>1. PICK b \in Seq(Socket) : b = sock[l].backlog /\ b # <<>> BY <1>6, <2>0 DEF SockState
  <2>2. PICK h : h = Head(b) OBVIOUS
  <2>3. PICK rest : rest = Tail(b) OBVIOUS
  <2>4. /\ h \in Socket /\ rest \in Seq(Socket) /\ Len(b) \in Nat /\ h = b[1] /\ Len(b) >= 1
    BY <2>1, <2>2, <2>3
  <2>5. sock[l].life = "open" BY <2>1 DEF UnixInv, LinkInv, BacklogOpen
  <2>6. sock[h].life = "backlog"
    BY <2>1, <2>4 DEF ToSet, UnixInv, LinkInv, BacklogHeld
  <2>7. h # l BY <2>5, <2>6
  <2>a. PICK nl : nl = [sock[l] EXCEPT !.backlog = rest] OBVIOUS
  <2>b. PICK nh : nh = [sock[h] EXCEPT !.life = "open"] OBVIOUS
  <2>8. \A x \in Socket : sock'[x] = IF x = l THEN nl ELSE IF x = h THEN nh ELSE sock[x]
    <3>1. sock' = [sock EXCEPT ![l].backlog = rest, ![h].life = "open"] BY <1>6, <2>0, <2>1, <2>2, <2>3 DEF SockState
    <3> QED BY <3>1, <2>0, <2>4, <2>7, <2>a, <2>b DEF SockState
  <2>9. /\ Rest(nl, sock[l]) /\ nl.peer = sock[l].peer /\ nl.established = sock[l].established
        /\ nl.queue = sock[l].queue /\ nl.size = sock[l].size /\ nl.pending = sock[l].pending
    BY <2>0, <2>4, <2>a, WithBacklog DEF Rest
  <2>10. Looks(nh, sock[h])
    BY <2>0, <2>4, <2>b, WithLife DEF Life, Looks
  <2>11. \A x \in Socket :
            /\ Rest(sock'[x], sock[x]) /\ sock'[x].peer = sock[x].peer
            /\ sock'[x].established = sock[x].established /\ sock'[x].pending = sock[x].pending
            /\ sock'[x].queue = sock[x].queue /\ sock'[x].size = sock[x].size
            /\ x # l => sock'[x].backlog = sock[x].backlog
    BY <2>8, <2>9, <2>10 DEF Looks, Rest
  <2>12. PICK N : N = AcceptHeard(l) OBVIOUS
  <2>13. CallsLeft(N) BY <1>6, <2>12, AfterReturn
  <2>14. \A x \in Socket : sock[x].pending = l => WriterTold(x, N)
    BY <2>12 DEF UnixInv, LinkInv, PendingKnown, AcceptHeard, WriterTold
  <2>15. SameKind BY <1>2 DEF SameKind
  <2>16. Told(N)
    <3> SUFFICES ASSUME NEW x \in Socket PROVE ToldAt(x, N) BY DEF Told
    <3>1. PICK p : p = sock[x].peer /\ p = sock'[x].peer BY <2>11
    <3>2. PICK m : m = sock[x].pending /\ m = sock'[x].pending BY <2>11
    <3>3. AcceptStuck(x) => AcceptStuck(x)' BY <1>6, <2>11 DEF AcceptStuck, Rest
    <3>4. RecvStuck(x) => RecvStuck(x)'
      BY <3>1, <2>11, <2>15, KindSame DEF RecvStuck, PeerShutWr, PeerOf, Upgrades, Rest
    <3>5. ConnectStuck(x) => ConnectStuck(x)' \/ WriterTold(x, N)
      <4>1. CASE m = l BY <4>1, <3>2, <2>14
      <4>2. CASE m # l
        <5>1. m \in Socket => (BacklogFull(m)' <=> BacklogFull(m)) BY <4>2, <2>11 DEF BacklogFull, Rest
        <5>2. Resized(m)' <=> Resized(m) BY <1>2 DEF Resized
        <5> QED BY <5>1, <5>2, <3>2, <2>11, <2>15, KindSame DEF ConnectStuck, Rest
      <4> QED BY <4>1, <4>2
    <3>6. SendStuck(x) => SendStuck(x)'
      BY <2>11, <1>2, <3>1, <2>15, KindSame DEF HasSpace, Rest, Resized, SendStuck
    <3> QED BY <3>3, <3>4, <3>5, <3>6, <2>11 DEF ToldAt, Rest
  <2>17. EstablishedIdle' BY <2>11, <2>15, KindSame DEF SleepInv, EstablishedIdle, Rest
  <2>18. Fits' BY <1>2, <2>11 DEF SleepInv, Fits, Resized, Rest
  <2>19. ConnectsAgain' BY <1>2, <2>11 DEF SleepInv, ConnectsAgain
  <2> QED BY <2>13, <2>15, <2>16, <2>17, <2>18, <2>19, SleepersTold DEF SleepInv
<1> QED BY <1>3, <1>4, <1>5, <1>6

-----------------------------------------------------------------------------
(* send and receive *)

\* The rest of the socket whose queue changes.
LEMMA QueueRest ==
    ASSUME UnixInv, NEW s \in Socket, NEW q \in Seq(Item), NEW n \in Nat, OneQueue(s, q, n)
    PROVE  /\ \A x \in Socket : /\ Rest(sock'[x], sock[x]) /\ sock'[x].peer = sock[x].peer
                                /\ sock'[x].established = sock[x].established /\ sock'[x].pending = sock[x].pending
                                /\ sock'[x].backlog = sock[x].backlog
                                /\ x # s => sock'[x] = sock[x]
           /\ sock'[s].size = n
  BY WithQueue, WithSize DEF UnixInv, SockTyped, OneQueue, SockState, Rest

\* What a queue has to do with: who receives from it, and who sends to it.
LEMMA QueueTells ==
    ASSUME UnixInv, UnixInv', SleepInv, NEW s \in Socket, NEW q \in Seq(Item), NEW n \in Nat, OneQueue(s, q, n),
           SameKind, tuned' = tuned, NEW N, CallsLeft(N),
           sock[s].queue # <<>> \/ ReaderTold(s, N),
           Resized(s) \/ n <= sock[s].rcvbuf,
           \A x \in Socket : ConnectionOriented /\ sock[x].peer = s /\ ~HasSpace(s) =>
               Resized(s) \/ n >= sock[s].rcvbuf \/ WriterTold(x, N)
    PROVE  SleepInv'
<1>1. \A x \in Socket : /\ Rest(sock'[x], sock[x]) /\ sock'[x].peer = sock[x].peer
                        /\ sock'[x].established = sock[x].established /\ sock'[x].pending = sock[x].pending
                        /\ sock'[x].backlog = sock[x].backlog
                        /\ x # s => sock'[x] = sock[x]
  BY QueueRest
<1>2. sock'[s].size = n BY QueueRest
<1>3. Told(N)
  <2> SUFFICES ASSUME NEW x \in Socket PROVE ToldAt(x, N) BY DEF Told
  <2>1. PICK p : p = sock[x].peer /\ p = sock'[x].peer BY <1>1
  <2>2. PICK l : l = sock[x].pending /\ l = sock'[x].pending BY <1>1
  <2>3. AcceptStuck(x) => AcceptStuck(x)' BY <1>1 DEF AcceptStuck, Rest
  <2>4. RecvStuck(x) => RecvStuck(x)' \/ ReaderTold(x, N)
    BY <2>1, <1>1, KindSame DEF RecvStuck, PeerShutWr, PeerOf, Upgrades, Rest
  <2>5. ConnectStuck(x) => ConnectStuck(x)'
    BY <2>2, <1>1, KindSame, SMTT(40) DEF ConnectStuck, BacklogFull, Resized, Rest
  <2>6. SendStuck(x) => SendStuck(x)' \/ WriterTold(x, N)
    <3>1. CASE p = s
      <4>1. sock[s].rcvbuf \in Nat /\ sock'[s].rcvbuf = sock[s].rcvbuf
        BY <1>1 DEF UnixInv, SockTyped, SockState, Rest
      <4>2. Resized(s)' <=> Resized(s) BY DEF Resized
      <4>3. n >= sock[s].rcvbuf => ~HasSpace(s)' BY <4>1, <1>2 DEF HasSpace
      <4> QED BY <3>1, <4>2, <4>3, <2>1, <1>1, KindSame DEF SendStuck, Rest
    <3>2. CASE p # s
      BY <3>2, <1>1, <2>1, KindSame DEF SendStuck, HasSpace, Resized, Rest
    <3> QED BY <3>1, <3>2
  <2> QED BY <2>3, <2>4, <2>5, <2>6, <1>1 DEF ToldAt, Rest
<1>4. EstablishedIdle' BY <1>1, KindSame DEF SleepInv, EstablishedIdle, Rest
<1>5. Fits'
  BY <1>1, <1>2 DEF Fits, Resized, Rest, SleepInv
<1>6. ConnectsAgain' BY <1>1 DEF SleepInv, ConnectsAgain
<1> QED BY <1>3, <1>4, <1>5, <1>6, SleepersTold DEF SleepInv

LEMMA SendCallIs ==
    ASSUME NEW s \in Socket, NEW call \in SendtoCalls(s) \cup SendmsgCalls(s)
    PROVE  call.op = "send" /\ (sockKind # "dgram" => call.flag = "none")
  BY DEF Destinations, SendtoCalls, Call, SendmsgCalls

LEMMA TrySendTells ==
    ASSUME UnixInv, UnixInv', SleepInv, NEW t \in SockThread, NEW s \in Socket,
           NEW call \in SendtoCalls(s) \cup SendmsgCalls(s), TrySend(t, call)
    PROVE  SleepInv'
<1>1. /\ call \in CallState /\ call.s = s /\ call.len \in Nat /\ call.len >= 1 /\ call.op = "send"
      /\ sockKind # "dgram" => call.flag = "none"
  BY SendCallTyped, SendCallIs
<1>2. PICK p : p = Target(call) OBVIOUS
<1>3. PICK count : count = IF Stream THEN Lowest(Space(p), call.len) ELSE call.len OBVIOUS
<1>4. PICK items : items = IF Stream THEN StreamItems(p, count, call.anc) ELSE PacketItem(p, call.len, call.anc)
  OBVIOUS
<1>5. UNCHANGED <<bound, tuned>> BY DEF TrySend
<1>6. \/ UNCHANGED <<sock, sent, budget>> /\ Returns(t, {})
      \/ UNCHANGED <<sock, sent, budget>> /\ WouldBlockIn(t, call) /\ Upgrades(p)
      \/ /\ Upgrades(p) /\ ~(Stream /\ Space(p) = 0) /\ ~(~Stream /\ sock[p].size + call.len > sock[p].rcvbuf)
         /\ sock' = [sock EXCEPT ![p].queue = @ \o items, ![p].size = @ + count]
         /\ budget' = [budget EXCEPT !.items = @ - Len(items)]
         /\ Returns(t, {<<p, "READ">>})
  BY <1>2, <1>3, <1>4, Zenon DEF TrySend
<1>7. CASE UNCHANGED <<sock, sent, budget>> /\ Returns(t, {}) BY <1>5, <1>7, AfterReturn, CallsOnly
<1>8. CASE UNCHANGED <<sock, sent, budget>> /\ WouldBlockIn(t, call) /\ Upgrades(p)
  <2>1. ConnectionOriented => call.flag = "none" /\ sock[s].established
    <3> SUFFICES ASSUME ConnectionOriented PROVE call.flag = "none" /\ sock[s].established OBVIOUS
    <3>1. call.flag = "none" BY <1>1 DEF ConnectionOriented
    <3>2. p = sock[s].peer BY <3>1, <1>1, <1>2, SockNoneAssumption DEF Target, PeerOf
    <3> QED BY <3>1, <3>2, <1>8 DEF UnixInv, LinkInv, PeersMutual, Upgrades
  <2>2. ConnectionOriented' <=> ConnectionOriented BY <1>8 DEF ConnectionOriented, sockKind
  <2>3. CallExact(call)' BY <2>1, <2>2, <1>1, <1>8 DEF CallExact
  <2> QED BY <2>3, <1>1, <1>5, <1>8, AfterWait, CallsOnly
<1>9. CASE /\ Upgrades(p) /\ ~(Stream /\ Space(p) = 0) /\ ~(~Stream /\ sock[p].size + call.len > sock[p].rcvbuf)
           /\ sock' = [sock EXCEPT ![p].queue = @ \o items, ![p].size = @ + count]
           /\ budget' = [budget EXCEPT !.items = @ - Len(items)]
           /\ Returns(t, {<<p, "READ">>})
  <2>1. p \in Socket BY <1>9 DEF Upgrades
  <2>2. sock \in [Socket -> SockState] /\ sock[p] \in SockState BY <2>1 DEF UnixInv, SockTyped
  <2>3. PICK q : q = sock[p].queue \o items OBVIOUS
  <2>4. PICK n : n = sock[p].size + count OBVIOUS
  <2>5. sock' = [sock EXCEPT ![p].queue = q, ![p].size = n] BY <1>9, <2>2, <2>3, <2>4 DEF SockState
  <2>6. q \in Seq(Item) /\ n \in Nat
    BY <2>1, <2>2, <2>5 DEF UnixInv, SockTyped, SockState
  <2>7. OneQueue(p, q, n) BY <2>5, <1>5 DEF OneQueue
  <2>8. HasSpace(p) /\ n <= sock[p].rcvbuf
    <3>1. PICK a \in Nat : a = sock[p].size BY <2>2 DEF SockState
    <3>2. PICK b \in Nat : b = sock[p].rcvbuf BY <2>2 DEF SockState
    <3>3. CASE Stream
      <4>1. Space(p) # 0 /\ count = Lowest(Space(p), call.len) BY <3>3, <1>3, <1>9
      <4>2. b > a /\ Space(p) = b - a BY <4>1, <3>1, <3>2 DEF Space
      <4>3. count <= b - a /\ count \in Nat BY <4>1, <4>2, <1>1 DEF Lowest
      <4> QED BY <4>2, <4>3, <3>1, <3>2, <2>4 DEF HasSpace
    <3>4. CASE ~Stream
      BY <3>4, <1>1, <1>3, <1>9, <3>1, <3>2, <2>4 DEF HasSpace
    <3> QED BY <3>3, <3>4
  <2>9. SameKind BY <1>9 DEF UnixInv, SockTyped, SameKind, Budget
  <2>10. PICK N : N = {<<p, "READ">>} OBVIOUS
  <2>11. CallsLeft(N) /\ ReaderTold(p, N) BY <2>10, <1>9, AfterReturn DEF ReaderTold
  <2> QED BY <2>1, <2>6, <2>7, <2>8, <2>9, <2>11, <1>5, QueueTells
<1> QED BY <1>6, <1>7, <1>8, <1>9

LEMMA TryRecvTells ==
    ASSUME UnixInv, UnixInv', SleepInv, NEW t \in SockThread, NEW s \in Socket, NEW call \in RecvCalls(s),
           TryRecv(t, call)
    PROVE  SleepInv'
<1>1. call \in CallState /\ call.s = s /\ call.len \in Nat /\ call.len >= 1 /\ call.op = "recv"
  BY RecvCallTyped DEF RecvCalls, Call
<1>2. PICK q : q = sock[s].queue OBVIOUS
<1>3. PICK n : n = IF Stream THEN Lowest(call.len, Joined(q)) ELSE 1 OBVIOUS
<1>4. PICK taken : taken = IF Stream THEN n ELSE q[1].len OBVIOUS
<1>5. UNCHANGED <<bound, budget, tuned>> BY DEF TryRecv
<1>6. \/ UNCHANGED sock /\ Returns(t, {})
      \/ UNCHANGED sock /\ WouldBlockIn(t, call) /\ (ConnectionOriented => sock[s].established)
      \/ /\ q # <<>> /\ Returns(t, SpaceHeard(s))
         /\ sock' = [sock EXCEPT ![s].queue = SubSeq(q, n + 1, Len(q)), ![s].size = @ - taken]
  BY <1>1, <1>2, <1>3, <1>4, Zenon DEF TryRecv
<1>7. CASE UNCHANGED sock /\ Returns(t, {}) BY <1>5, <1>7, AfterReturn, CallsOnly
<1>8. CASE UNCHANGED sock /\ WouldBlockIn(t, call) /\ (ConnectionOriented => sock[s].established)
  BY <1>5, <1>1, <1>8, AfterWait, CallsOnly DEF ConnectionOriented, sockKind, CallExact
<1>9. CASE /\ q # <<>> /\ Returns(t, SpaceHeard(s))
           /\ sock' = [sock EXCEPT ![s].queue = SubSeq(q, n + 1, Len(q)), ![s].size = @ - taken]
  <2>1. taken \in Nat BY <1>1, <1>2, <1>3, <1>4, <1>9, Received
  <2>2. sock \in [Socket -> SockState] /\ sock[s] \in SockState BY DEF UnixInv, SockTyped
  <2>3. PICK r : r = SubSeq(q, n + 1, Len(q)) OBVIOUS
  <2>4. PICK m : m = sock[s].size - taken OBVIOUS
  <2>5. sock' = [sock EXCEPT ![s].queue = r, ![s].size = m] BY <1>9, <2>2, <2>3, <2>4 DEF SockState
  <2>6. r \in Seq(Item) /\ m \in Nat
    BY <2>2, <2>5 DEF UnixInv, SockTyped, SockState
  <2>7. OneQueue(s, r, m) BY <2>5, <1>5 DEF OneQueue
  <2>8. SameKind BY <1>5 DEF SameKind
  <2>9. PICK N : N = SpaceHeard(s) OBVIOUS
  <2>10. CallsLeft(N) BY <2>9, <1>9, AfterReturn
  <2>11. PICK a \in Nat : a = sock[s].size BY <2>2 DEF SockState
  <2>12. PICK b \in Nat : b = sock[s].rcvbuf BY <2>2 DEF SockState
  <2>13. Resized(s) \/ a <= b BY <2>11, <2>12 DEF SleepInv, Fits
  <2>14. Resized(s) \/ m <= sock[s].rcvbuf BY <2>1, <2>4, <2>11, <2>12, <2>13
  <2>15. ASSUME NEW x \in Socket, ConnectionOriented, sock[x].peer = s, ~HasSpace(s)
         PROVE  Resized(s) \/ WriterTold(x, N)
    <3> SUFFICES ASSUME ~Resized(s) PROVE WriterTold(x, N) OBVIOUS
    <3>1. a = b BY <2>11, <2>12, <2>13, <2>15 DEF HasSpace
    <3>2. N = {<<PeerOf(s), "WRITE">>} BY <3>1, <2>9, <2>11, <2>12 DEF SpaceHeard
    <3>3. PeerOf(s) = x BY <2>15 DEF UnixInv, LinkInv, PeersMutual, PeerOf
    <3> QED BY <3>2, <3>3 DEF WriterTold
  <2> QED BY <1>2, <1>5, <1>9, <2>6, <2>7, <2>8, <2>10, <2>14, <2>15, QueueTells
<1> QED BY <1>6, <1>7, <1>8, <1>9

-----------------------------------------------------------------------------
(* The end of a connection *)

LEMMA CloseTells ==
    ASSUME UnixInv, UnixInv', SleepInv, NEW s \in Socket, Close(s)
    PROVE  SleepInv'
<1>1. PICK D : D = {s} \cup ToSet(sock[s].backlog) OBVIOUS
<1> DEFINE weak(x, w) == IF w \notin D THEN w ELSE IF sock[w].peer = x THEN NoSocket ELSE Dead
           dead(w) == IF w \in D THEN Dead ELSE w
           kept(x) == [sock[x] EXCEPT !.peer = weak(x, @), !.pending = dead(@), !.connects = @ \ D]
<1>2. /\ sock' = [x \in Socket |-> IF x \in D THEN Fresh ELSE kept(x)]
      /\ sockCall' = Notify(sockCall, DropHeard(D))
      /\ tuned' = tuned \ (D \X {"limit", "connect"}) /\ UNCHANGED budget
  BY <1>1 DEF Close
<1>3. sock \in [Socket -> SockState] /\ sock[s].backlog \in Seq(Socket) BY DEF UnixInv, SockTyped, SockState
<1>4. D \subseteq Socket BY <1>1, <1>3 DEF ToSet
<1>5. PICK N : N = DropHeard(D) OBVIOUS
<1>6. CallsLeft(N) BY <1>2, <1>5, AfterNotify
<1>7. SameKind BY <1>2 DEF SameKind
<1>8. ASSUME NEW x \in Socket, x \notin D
      PROVE  /\ Rest(sock'[x], sock[x]) /\ sock'[x].established = sock[x].established
             /\ sock'[x].backlog = sock[x].backlog /\ sock'[x].queue = sock[x].queue
             /\ sock'[x].size = sock[x].size
             /\ sock'[x].peer = weak(x, sock[x].peer) /\ sock'[x].pending = dead(sock[x].pending)
  <2>1. sock[x] \in SockState BY <1>3
  <2>2. PICK p \in Weak : p = weak(x, sock[x].peer)
    BY <2>1 DEF SockState, Weak
  <2>3. PICK w \in Weak : w = dead(sock[x].pending)
    BY <2>1 DEF SockState, Weak
  <2>4. sock'[x] = kept(x) BY <1>2, <1>8
  <2> HIDE DEF weak, dead
  <2>5. PICK n1 : n1 = [sock[x] EXCEPT !.peer = p] OBVIOUS
  <2>6. PICK n2 : n2 = [n1 EXCEPT !.pending = w] OBVIOUS
  <2>7. PICK n3 : n3 = [n2 EXCEPT !.connects = sock[x].connects \ D] OBVIOUS
  <2>8. sock'[x] = n3 BY <2>1, <2>2, <2>3, <2>4, <2>5, <2>6, <2>7 DEF SockState
  <2> HIDE DEF kept
  <2>9. /\ n1 \in SockState /\ Rest(n1, sock[x]) /\ n1.established = sock[x].established
        /\ n1.backlog = sock[x].backlog /\ n1.queue = sock[x].queue /\ n1.size = sock[x].size /\ n1.peer = p
    BY <2>1, <2>5, WithPeer DEF Rest
  <2>10. /\ n2 \in SockState /\ Rest(n2, sock[x]) /\ n2.established = sock[x].established
         /\ n2.backlog = sock[x].backlog /\ n2.queue = sock[x].queue /\ n2.size = sock[x].size /\ n2.peer = p
         /\ n2.pending = w
    BY <2>9, <2>6, WithPending DEF Rest
  <2>11. /\ Rest(n3, sock[x]) /\ n3.established = sock[x].established
         /\ n3.backlog = sock[x].backlog /\ n3.queue = sock[x].queue /\ n3.size = sock[x].size /\ n3.peer = p
         /\ n3.pending = w
    BY <2>1, <2>10, <2>7, WithConnects DEF SockState, Rest
  <2> QED BY <2>2, <2>3, <2>8, <2>11
<1>9. \A x \in D : sock'[x] = Fresh BY <1>2, <1>4
<1> HIDE DEF kept
<1>10. /\ Fresh.life = "free" /\ Fresh.established = FALSE /\ Fresh.listening = FALSE /\ Fresh.size = 0
       /\ Fresh.rcvbuf = Buffer
  BY DEF Fresh
<1>11. \A x \in Socket : x \notin D => \A k : <<x, k>> \in tuned' <=> <<x, k>> \in tuned BY <1>2
<1>12. \A x \in Socket : ConnectionOriented /\ sock[x].peer \in D => ReaderTold(x, N) /\ WriterTold(x, N)
  BY <1>4, <1>5 DEF UnixInv, LinkInv, PeersMutual, DropHeard, Everyone, ReaderTold, WriterTold
<1>13. Told(N)
  <2> SUFFICES ASSUME NEW x \in Socket, sock'[x].life = "open" PROVE ToldAt(x, N) BY DEF Told
  <2>0. x \notin D BY <1>9, <1>10
  <2>1. /\ Rest(sock'[x], sock[x]) /\ sock'[x].established = sock[x].established
        /\ sock'[x].backlog = sock[x].backlog /\ sock'[x].queue = sock[x].queue
        /\ sock'[x].size = sock[x].size
        /\ sock'[x].peer = weak(x, sock[x].peer) /\ sock'[x].pending = dead(sock[x].pending)
    BY <2>0, <1>8
  <2>2. PICK p : p = sock[x].peer OBVIOUS
  <2>3. PICK l : l = sock[x].pending OBVIOUS
  <2>4. AcceptStuck(x) => AcceptStuck(x)' BY <2>1 DEF AcceptStuck, Rest
  <2>5. RecvStuck(x) => RecvStuck(x)' \/ ReaderTold(x, N)
    <3>1. CASE ~ConnectionOriented BY <3>1, <2>1, <1>7, KindSame DEF RecvStuck, Rest
    <3>2. CASE ConnectionOriented /\ p \in D BY <3>2, <2>2, <1>12
    <3>3. CASE p \notin D
      <4>1. sock'[x].peer = p BY <3>3, <2>1, <2>2
      <4>2. p \in Socket => sock'[p].shutWr = sock[p].shutWr BY <3>3, <1>8 DEF Rest
      <4> QED BY <4>1, <4>2, <2>1, <2>2, <1>7, KindSame DEF RecvStuck, PeerShutWr, PeerOf, Upgrades, Rest
    <3> QED BY <3>1, <3>2, <3>3
  <2>6. ConnectStuck(x) => ConnectStuck(x)'
    <3>1. CASE l \in D
      BY <3>1, <2>1, <2>3, SockNoneAssumption DEF ConnectStuck
    <3>2. CASE l \notin D
      <4>1. sock'[x].pending = l BY <3>2, <2>1, <2>3
      <4>2. l \in Socket => /\ (BacklogFull(l)' <=> BacklogFull(l)) /\ (Resized(l)' <=> Resized(l))
                            /\ sock'[l].listening = sock[l].listening
        BY <3>2, <1>8, <1>11 DEF Rest, BacklogFull, Resized
      <4> QED BY <4>1, <4>2, <2>1, <2>3, <1>7, KindSame DEF ConnectStuck, Rest
    <3> QED BY <3>1, <3>2
  <2>7. SendStuck(x) => SendStuck(x)' \/ WriterTold(x, N)
    <3>1. CASE ~ConnectionOriented BY <3>1, <1>7, KindSame DEF SendStuck
    <3>2. CASE ConnectionOriented /\ p \in D BY <3>2, <2>2, <1>12
    <3>3. CASE p \notin D
      <4>1. sock'[x].peer = p BY <3>3, <2>1, <2>2
      <4>2. p \in Socket => /\ (HasSpace(p)' <=> HasSpace(p)) /\ (Resized(p)' <=> Resized(p))
                            /\ sock'[p].shutRd = sock[p].shutRd
        BY <3>3, <1>8, <1>11 DEF Rest, HasSpace, Resized
      <4>3. <<x, "connect">> \in tuned => <<x, "connect">> \in tuned' BY <2>0, <1>11
      <4> QED BY <4>1, <4>2, <4>3, <2>1, <2>2, <1>7, KindSame DEF SendStuck, Rest
    <3> QED BY <3>1, <3>2, <3>3
  <2> QED BY <2>1, <2>4, <2>5, <2>6, <2>7 DEF ToldAt, Rest
<1>14. EstablishedIdle'
  BY <1>9, <1>10, <1>7, <1>8, KindSame DEF EstablishedIdle, Rest, SleepInv
<1>15. Fits'
  <2> SUFFICES ASSUME NEW x \in Socket PROVE Resized(x)' \/ sock'[x].size <= sock'[x].rcvbuf BY DEF Fits
  <2>1. CASE x \in D BY <2>1, <1>9, <1>10, SockSizeAssumption
  <2>2. CASE x \notin D BY <2>2, <1>8, <1>11 DEF Rest, SleepInv, Fits, Resized
  <2> QED BY <2>1, <2>2
<1>16. ConnectsAgain'
  BY <1>9, <1>10, <1>8, SockNoneAssumption, <1>11 DEF ConnectsAgain, SleepInv
<1> QED BY <1>6, <1>7, <1>13, <1>14, <1>15, <1>16, SleepersTold DEF SleepInv

-----------------------------------------------------------------------------
(* The theorem about sleepers *)

LEMMA SleepStep == UnixInv /\ SleepInv /\ UnixInv' /\ [UnixNext]_unixVars => SleepInv'
<1> SUFFICES ASSUME UnixInv, SleepInv, UnixInv', [UnixNext]_unixVars PROVE SleepInv' OBVIOUS
<1>1. CASE UNCHANGED unixVars
  BY <1>1, CallsSame, CallsOnly DEF unixVars
<1>2. ASSUME NEW s \in Socket,
             \/ SocketCreate(s) \/ Close(s) \/ (\E len \in 1..Buffer : Peek(s, len))
             \/ \E r \in Socket : SocketPair(s, r)
             \/ \E a \in Address : Bind(s, a)
             \/ \E limit \in Backlogs : Listen(s, limit)
             \/ \E n \in BufferSizes : SetRcvBuf(s, n)
             \/ \E how \in ShutHow : Shutdown(s, how)
      PROVE  SleepInv'
  BY <1>2, SocketCreateTells, CloseTells, PeekTells, SocketPairTells, BindTells, ListenTells, SetRcvBufTells,
     ShutdownTells
<1>3. ASSUME NEW t \in SockThread, NEW s \in CalledOn(t),
             \/ \E call \in ConnectCalls(s) : TryConnect(t, call) \/ TryConnectDgram(t, call)
             \/ TryAccept(t, AcceptCall(s))
             \/ \E call \in SendtoCalls(s) \cup SendmsgCalls(s) : TrySend(t, call)
             \/ \E call \in RecvCalls(s) : TryRecv(t, call)
      PROVE  SleepInv'
  BY TryConnectTells, TryConnectDgramTells, TryAcceptTells, TrySendTells, TryRecvTells, <1>3 DEF
     CalledOn, UnixInv, CallsOpen
<1>4. ASSUME NEW t \in SockThread, Sleep(t) \/ Interrupted(t) PROVE SleepInv'
  BY <1>4, SleepTells, InterruptedTells
<1>5. ASSUME NEW a \in Address, UnlinkNode(a) PROVE SleepInv'
  BY <1>5, UnlinkNodeTells
<1> QED BY <1>1, <1>2, <1>3, <1>4, <1>5, Zenon DEF UnixNext

LEMMA SleepHolds == UnixInv /\ SleepInv => NoStrandedSleeper
<1> SUFFICES ASSUME UnixInv, SleepInv, NEW t \in SockThread, sockCall[t].pc = "asleep"
             PROVE  BlocksAgain(t) \/ (OpEvent(sockCall[t].op) = "WRITE" /\ Overlooked(t))
  BY DEF NoStrandedSleeper
<1>1. PICK c \in CallState : c = sockCall[t] BY DEF UnixInv, SockTyped
<1>2. PICK s \in Socket : s = c.s BY <1>1 DEF UnixInv, CallsOpen
<1>3. CallExact(c) /\ CallStuck(c) BY <1>1 DEF SleepInv, WaitsExactly, SleepersStuck
<1>4. ConnectionOriented <=> sockKind # "dgram"
  BY DEF UnixInv, SockTyped, Budget, ConnectionOriented, sockKind
<1>5. Self(t) = s BY <1>1, <1>2 DEF Self
<1>6. CASE c.op = "accept"
  BY <1>2, <1>3, <1>6, <1>1, <1>5 DEF CallStuck, BlocksAgain, AcceptStuck
<1>7. CASE c.op = "recv"
  BY <1>2, <1>3, <1>7, <1>1, <1>5 DEF CallStuck, BlocksAgain, RecvStuck
<1>8. CASE c.op = "connect"
  <2>1. ConnectStuck(s) BY <1>2, <1>3, <1>8 DEF CallStuck
  <2>2. OpEvent(c.op) = "WRITE" BY <1>8 DEF OpEvent
  <2>3. PICK l : l = sock[s].pending OBVIOUS
  <2>4. CASE l \in Socket /\ sock[l].listening /\ BacklogFull(l)
    BY <2>3, <2>4, <1>1, <1>5, <1>8 DEF BlocksAgain, Upgrades
  <2>5. CASE ~(l \in Socket /\ sock[l].listening /\ BacklogFull(l))
    <3>1. Overlooked(t) BY <2>1, <2>3, <2>5, <1>1, <1>4, <1>5, <1>8 DEF Overlooked, ConnectStuck, Upgrades
    <3> QED BY <3>1, <2>2, <1>1
  <2> QED BY <2>4, <2>5
<1>9. CASE c.op = "send"
  <2>1. SendStuck(s) BY <1>2, <1>3, <1>9 DEF CallStuck
  <2>2. OpEvent(c.op) = "WRITE" BY <1>9 DEF OpEvent
  <2>3. PICK p : p = sock[s].peer OBVIOUS
  <2>4. CASE Overlooked(t) BY <2>2, <2>4, <1>1
  <2>5. CASE ~Overlooked(t)
    <3>1. ConnectionOriented /\ p \in Socket /\ ~sock[p].shutRd /\ ~HasSpace(p)
      BY <2>1, <2>3, <2>5, <1>1, <1>4, <1>5, <1>9 DEF Overlooked, SendStuck, Upgrades, PeerOf
    <3>2. Target(c) = p
      BY <3>1, <2>3, <1>2, <1>3, <1>9, SockNoneAssumption DEF Target, PeerOf, CallExact
    <3>3. Space(p) = 0 /\ c.len >= 1 /\ c.len \in Nat
      <4>1. sock[p] \in SockState BY <3>1 DEF UnixInv, SockTyped
      <4>2. sock[p].size \in Nat /\ sock[p].rcvbuf \in Nat BY <4>1 DEF SockState
      <4>3. c.len >= 1 /\ c.len \in Nat BY <1>3, <1>9 DEF CallExact, CallState
      <4> QED BY <3>1, <4>2, <4>3 DEF Space, HasSpace
    <3>4. Space(p) < (IF Stream THEN 1 ELSE c.len) BY <3>3
    <3> QED BY <3>1, <3>2, <3>4, <1>1, <1>9 DEF BlocksAgain, Upgrades
  <2> QED BY <2>4, <2>5
<1>10. c.op \in {"connect", "accept", "send", "recv"} BY DEF CallState
<1> QED BY <1>6, <1>7, <1>8, <1>9, <1>10

\* No thread sleeps in accept, receive, connect or send on a socket while the
\* call would return, but for the calls to write that poll or the wait queue
\* overlook (net/unix.rs, poll, notify; file_blocking_syscall).
THEOREM Sleepers == UnixSpec => []NoStrandedSleeper
<1>1. UnixInit => UnixInv /\ SleepInv BY UnixStart, SleepStart
<1>2. UnixInv /\ SleepInv /\ [UnixNext]_unixVars => (UnixInv /\ SleepInv)' BY UnixStep, SleepStep
<1> QED BY <1>1, <1>2, SleepHolds, PTL DEF UnixSpec

=============================================================================
