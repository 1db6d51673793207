--------------------------- MODULE FileWaitProofs ---------------------------
(***************************************************************************)
(* No wake-up is lost, for any number of threads, calls and capacities.    *)
(*                                                                         *)
(* A thread is exposed from the moment its second look has passed over a   *)
(* descriptor, not only once it is blocked: AwaitedHeard says so, and with *)
(* the lock it holds until it blocks, the descriptors it has open and the  *)
(* pids on their way to the queue it makes WakeupsExact inductive.         *)
(***************************************************************************)
EXTENDS FileWait, TLAPS

Waiting(t) == pc[t] \in {"registered", "blocked"}
Heard(t) == Queued(t) \/ OnItsWay(t)

\* What the second look has found not ready and is ready since has been heard of.
Awaited(t) ==
    Waiting(t) => \A event \in op[t].fds \ unpolled[t] : PollAnswers(op[t], event) => Heard(t)
AwaitedHeard == \A t \in Thread : Awaited(t)

\* The descriptors a call has yet to poll; the others, and those it has registered
\* with, the thread has open.
CallExact(t) ==
    /\ pc[t] = "user" => op[t] = NoCall
    /\ pc[t] \notin {"try", "registered"} \/ (pc[t] = "try" /\ op[t] \notin PollCall)
          => unpolled[t] = {}
    /\ \A event \in op[t].fds :
          pc[t] = "registered" \/ event \notin unpolled[t] => Opened(t, event)
CallsExact == \A t \in Thread : CallExact(t)

\* Between registering and blocking a thread holds the manager's lock.
LockHeld == \A t \in Thread : pc[t] = "registered" => lock = t

\* A pid about to be pushed is not queued, and pushed by one thread only.
PushesExact ==
    \A u \in Thread : pc[u] = "push" =>
        /\ waking[u] \in Thread /\ ~Queued(waking[u])
        /\ \A v \in Thread : pc[v] = "push" /\ waking[v] = waking[u] => v = u

\* Only a thread that is notifying has collected listeners.
TodoExact == \A u \in Thread : pc[u] \notin {"wake", "push", "flag"} => todo[u] = {}

WakeInv ==
    WaitQueuesExact /\ AwaitedHeard /\ CallsExact /\ LockHeld /\ PushesExact /\ TodoExact

\* The system calls of the threads.
Calls == {FileCall(event) : event \in Event} \cup Polls \cup {NoCall}

\* What a call names.
LEMMA CallFacts ==
    /\ \A c \in Calls : c.fds \subseteq Event /\ c.wants \subseteq c.fds
    /\ \A e \in Event : /\ FileCall(e) \in Calls /\ FileCall(e) \notin PollCall
                        /\ FileCall(e).fds = {e} /\ FileCall(e).wants = {e} /\ FileCall(e).api = "file"
    /\ NoCall \in Calls /\ NoCall.fds = {} /\ NoCall \notin PollCall
    /\ \A c \in Polls : c \in Calls /\ c \in PollCall /\ c.api # "file"
<1>1. \A c \in Polls : c \in PollCall /\ c.fds \subseteq Event /\ c.wants \subseteq c.fds /\ c.api # "file"
   BY PollsAssumption DEF PollCall
<1>2. \A e \in Event : /\ FileCall(e).fds = {e} /\ FileCall(e).wants = {e} /\ FileCall(e).api = "file"
                       /\ FileCall(e) \notin PollCall
   BY DEF FileCall, PollCall
<1>3. NoCall.fds = {} /\ NoCall.wants = {} /\ NoCall \notin PollCall BY DEF NoCall, PollCall
<1> QED BY <1>1, <1>2, <1>3 DEF Calls

\* A notification on its way stays there while the threads that carry it do.
LEMMA HeardKept ==
    ASSUME NEW t \in Thread, Heard(t), op'[t] = op[t], UNCHANGED <<queue, todo>>,
           \A u \in Thread : pc[u] \in {"changed", "push"} =>
               pc'[u] = pc[u] /\ notify'[u] = notify[u] /\ waking'[u] = waking[u]
    PROVE  Heard(t)'
<1>1. CASE Queued(t) BY <1>1 DEF Heard, Queued
<1>2. CASE OnItsWay(t)
  BY <1>2 DEF OnItsWay, Heard, Hears
<1> QED BY <1>1, <1>2 DEF Heard

\* A step of thread a outside the notification: it neither collects nor queues
\* listeners.  What it makes ready for others it has to notify.
LEMMA OutsideStep ==
    ASSUME WakeInv, NEW a \in Thread, NEW w \in PC, TypeOK',
           pc' = [pc EXCEPT ![a] = w], pc[a] \notin {"changed", "push", "flag"},
           w \notin {"push", "flag"}, pc[a] = "wake" => todo[a] = {},
           \A u \in Thread \ {a} : op'[u] = op[u] /\ unpolled'[u] = unpolled[u] /\ notify'[u] = notify[u],
           UNCHANGED <<enqueued, queue, pending, todo, waking>>,
           \A u \in Thread : u \in registrations' <=>
               IF u = a THEN w \in {"registered", "blocked"} ELSE u \in registrations,
           lock = "drain" => lock' = "drain",
           \A u \in Thread \ {a} : lock = u => lock' = u,
           w = "registered" => lock' = a,
           readers \ {a} \subseteq readers', writers \ {a} \subseteq writers',
           CallExact(a)', Awaited(a)',
           \A t \in Thread \ {a} : Waiting(t) => \A e \in op[t].fds :
               PollAnswers(op[t], e)' => PollAnswers(op[t], e) \/ Heard(t)'
    PROVE  WakeInv'
<1>0. TypeOK /\ QueueIsSeen /\ EnqueuedExact /\ RegistrationsExact
   BY DEF WakeInv, WaitQueuesExact
<1>1. \A u \in Thread : pc'[u] = IF u = a THEN w ELSE pc[u] BY <1>0 DEF TypeOK
<1>2. \A u \in Thread : /\ pc'[u] = "push" <=> pc[u] = "push"
                        /\ pc'[u] = "flag" <=> pc[u] = "flag"
   BY <1>1
<1>3. QueueIsSeen' BY <1>0, <1>2 DEF QueueIsSeen
<1>4. EnqueuedExact' BY <1>0, <1>2 DEF EnqueuedExact, Queued
<1>5. RegistrationsExact' BY <1>0, <1>1 DEF RegistrationsExact, TypeOK
<1>6. LockHeld' BY <1>1 DEF LockHeld, WakeInv
<1>7. PushesExact' BY <1>2 DEF PushesExact, Queued, WakeInv
<1>8. CallsExact'
  BY <1>1 DEF WakeInv, CallsExact, Opened, CallExact
<1>9. AwaitedHeard'
  BY <1>1, HeardKept DEF Waiting, WakeInv, AwaitedHeard, Awaited
<1>10. TodoExact' BY <1>1 DEF TodoExact, WakeInv
<1> QED BY <1>3, <1>4, <1>5, <1>6, <1>7, <1>8, <1>9, <1>10 DEF WakeInv, WaitQueuesExact

\* What a file answers depends on the file only.
LEMMA SameAnswers ==
    ASSUME UNCHANGED fileVars, NEW t \in Thread, op'[t] = op[t], NEW e
    PROVE  PollAnswers(op[t], e)' <=> PollAnswers(op[t], e)
BY DEF PollAnswers, Has, HungUp, fileVars

\* Calls of the threads, and their returns.
LEMMA CallActions ==
    ASSUME WakeInv, NEW a \in Thread,
           \/ \E event \in Event, amount \in 0..Max : Call(a, event, amount)
           \/ \E call \in Polls : CallPoll(a, call)
    PROVE  WakeInv'
<1>0. TypeOK BY DEF WakeInv, WaitQueuesExact
<1>c. CallExact(a) /\ RegistrationsExact BY DEF WakeInv, CallsExact, WaitQueuesExact
<1>1. ASSUME NEW c \in Calls, c # NoCall, Started(a, c), rest' \in [Thread -> 0..Max],
             c \notin PollCall => c.api = "file" /\ \A e \in c.fds : Opened(a, e),
             c \in PollCall => c.api # "file"
      PROVE  WakeInv'
  <2> DEFINE left == IF c.api = "file" THEN {} ELSE c.fds
  <2>1. /\ pc[a] = "user" /\ pc' = [pc EXCEPT ![a] = "try"] /\ op' = [op EXCEPT ![a] = c]
        /\ unpolled' = [unpolled EXCEPT ![a] = left]
        /\ UNCHANGED <<kind, level, readers, writers, wrote, notify, todo, waking, registrations,
                       enqueued, queue, pending, lock>>
     BY <1>1 DEF Started, fileVars, notifyVars, waitVars
  <2>2. c.fds \subseteq Event /\ left \subseteq c.fds BY CallFacts
  <2>3. /\ \A u \in Thread : /\ op'[u] = IF u = a THEN c ELSE op[u]
                             /\ unpolled'[u] = IF u = a THEN left ELSE unpolled[u]
                             /\ pc'[u] = IF u = a THEN "try" ELSE pc[u]
        /\ op' \in [Thread -> Calls] /\ unpolled' \in [Thread -> SUBSET Event]
        /\ pc' \in [Thread -> PC] /\ "try" \in PC
    <3> HIDE DEF left
    <3>1. op \in [Thread -> Calls] /\ unpolled \in [Thread -> SUBSET Event] /\ pc \in [Thread -> PC]
       BY <1>0 DEF TypeOK, Calls
    <3>2. left \in SUBSET Event /\ "try" \in PC BY <2>2 DEF PC
    <3> QED BY <2>1, <3>1, <3>2
  <2>4. TypeOK' BY <1>0, <1>1, <2>1, <2>2, <2>3 DEF TypeOK, Calls
  <2>5. CallExact(a)' BY <1>1, <2>1, <2>3 DEF CallExact, Opened
  <2>6. Awaited(a)' BY <2>3 DEF Awaited, Waiting
  <2>7. \A t \in Thread \ {a}, e \in Event : PollAnswers(op[t], e)' => PollAnswers(op[t], e)
     BY <2>1, <2>3, SameAnswers DEF fileVars
  <2>8. \A t \in Thread \ {a} : op[t].fds \subseteq Event BY <1>0, CallFacts DEF TypeOK, Calls
  <2>9. a \notin registrations BY <1>c, <2>1 DEF RegistrationsExact
  <2>10. \A u \in Thread \ {a} : op'[u] = op[u] /\ unpolled'[u] = unpolled[u] /\ notify'[u] = notify[u]
     BY <2>1, <2>3
  <2>11. \A t \in Thread \ {a} : Waiting(t) => \A e \in op[t].fds :
            PollAnswers(op[t], e)' => PollAnswers(op[t], e) \/ Heard(t)'
     BY <2>7, <2>8
  <2>12. "try" \in PC BY DEF PC
  <2> HIDE DEF left
  <2> QED BY <2>1, <2>4, <2>5, <2>6, <2>9, <2>10, <2>11, <2>12, OutsideStep
<1>2. ASSUME NEW event \in Event, NEW amount \in 0..Max, Call(a, event, amount) PROVE WakeInv'
  BY <1>2, <1>0, <1>1, CallFacts DEF Call, TypeOK, FileCall, NoCall
<1>3. ASSUME NEW call \in Polls, CallPoll(a, call) PROVE WakeInv'
  BY <1>3, <1>0, CallFacts, <1>1 DEF CallPoll, TypeOK
<1> QED BY <1>2, <1>3

\* A step after which thread a is back in user mode, or at the start or the end
\* of an attempt, and the file is as it was.
LEMMA QuietStep ==
    ASSUME WakeInv, NEW a \in Thread, NEW w \in {"user", "try", "again"}, TypeOK',
           pc' = [pc EXCEPT ![a] = w], pc[a] \in {"try", "wake"}, pc[a] = "wake" => todo[a] = {},
           \A u \in Thread \ {a} : op'[u] = op[u] /\ unpolled'[u] = unpolled[u],
           UNCHANGED <<fileVars, notifyVars, waitVars, lock>>, CallExact(a)'
    PROVE  WakeInv'
<1>0. TypeOK /\ RegistrationsExact BY DEF WakeInv, WaitQueuesExact
<1>1. a \notin registrations BY <1>0 DEF RegistrationsExact
<1>2. pc'[a] = w BY <1>0 DEF TypeOK
<1>3. Awaited(a)' BY <1>2 DEF Awaited, Waiting
<1>4. \A t \in Thread \ {a}, e \in Event : PollAnswers(op[t], e)' => PollAnswers(op[t], e)
   BY SameAnswers
<1>5. \A t \in Thread \ {a} : op[t].fds \subseteq Event BY <1>0, CallFacts DEF TypeOK, Calls
<1>6. w \in PC BY DEF PC
<1>7. /\ UNCHANGED <<enqueued, queue, pending, todo, waking, registrations, lock, readers, writers>>
      /\ \A u \in Thread \ {a} : notify'[u] = notify[u]
   BY DEF fileVars, notifyVars, waitVars
<1> QED BY <1>1, <1>3, <1>4, <1>5, <1>6, <1>7, OutsideStep

\* The types of what an attempt leaves behind.
LEMMA Parts ==
    ASSUME TypeOK
    PROVE  /\ op \in [Thread -> Calls] /\ unpolled \in [Thread -> SUBSET Event]
           /\ pc \in [Thread -> PC] /\ rest \in [Thread -> 0..Max] /\ wrote \subseteq Thread
           /\ notify \in [Thread -> SUBSET Event] /\ level \in 0..Max /\ Max \in Nat \ {0}
           /\ \A t \in Thread : unpolled[t] \subseteq op[t].fds /\ op[t].fds \subseteq Event
                                /\ op[t].wants \subseteq op[t].fds
BY CallFacts, MaxAssumption DEF TypeOK, Calls

\* The end of a system call, with the file as it was.
LEMMA EndedStep ==
    ASSUME WakeInv, NEW a \in Thread, pc[a] \in {"try", "wake"}, Ended(a),
           pc[a] = "wake" => todo[a] = {},
           UNCHANGED <<fileVars, notifyVars, waitVars, lock>>
    PROVE  WakeInv'
<1>0. TypeOK BY DEF WakeInv, WaitQueuesExact
<1>1. /\ pc' = [pc EXCEPT ![a] = "user"] /\ op' = [op EXCEPT ![a] = NoCall]
      /\ unpolled' = [unpolled EXCEPT ![a] = {}] /\ rest' = [rest EXCEPT ![a] = 0]
      /\ wrote' = wrote \ {a}
   BY DEF Ended
<1>2. /\ pc' \in [Thread -> PC] /\ op' \in [Thread -> Calls] /\ unpolled' \in [Thread -> SUBSET Event]
      /\ rest' \in [Thread -> 0..Max] /\ wrote' \subseteq Thread
   BY <1>0, <1>1, Parts, CallFacts DEF PC
<1>3. \A u \in Thread : /\ op'[u] = IF u = a THEN NoCall ELSE op[u]
                        /\ unpolled'[u] = IF u = a THEN {} ELSE unpolled[u]
                        /\ pc'[u] = IF u = a THEN "user" ELSE pc[u]
   BY <1>0, <1>1, Parts
<1>4. TypeOK'
  BY <1>0, <1>3, <1>2 DEF TypeOK, Calls, fileVars, notifyVars, waitVars
<1>5. CallExact(a)' BY <1>3, CallFacts DEF CallExact
<1> QED BY <1>1, <1>3, <1>4, <1>5, QuietStep

\* An attempt that would block: nothing is left to poll.
LEMMA WouldBlockStep ==
    ASSUME WakeInv, NEW a \in Thread, pc[a] = "try", unpolled[a] = {}, WouldBlock(a),
           UNCHANGED <<fileVars, todo, waking, waitVars, lock>>
    PROVE  WakeInv'
<1>0. TypeOK BY DEF WakeInv, WaitQueuesExact
<1>1. /\ pc' = [pc EXCEPT ![a] = "again"] /\ UNCHANGED <<op, unpolled, rest, wrote, notify>>
   BY DEF WouldBlock, callVars
<1>2. pc' \in [Thread -> PC] /\ pc'[a] = "again" BY <1>0, <1>1, Parts DEF PC
<1>3. TypeOK' BY <1>0, <1>1, <1>2 DEF TypeOK, fileVars, waitVars
<1>4. CallExact(a) BY DEF WakeInv, CallsExact
<1>5. CallExact(a)' BY <1>1, <1>2, <1>4 DEF CallExact, Opened, fileVars
<1> QED BY <1>1, <1>3, <1>5, QuietStep DEF notifyVars

\* A change of the file, by a read, a write or the close of an end: who waits for
\* what has become ready hears of it.
LEMMA ChangedStep ==
    ASSUME WakeInv, NEW a \in Thread, NEW E \in SUBSET Event, pc[a] \in {"user", "try"},
           unpolled[a] = {}, Changed(a, E), TypeOK',
           UNCHANGED <<kind, todo, waking, waitVars, lock>>,
           readers \ {a} \subseteq readers', writers \ {a} \subseteq writers',
           op[a].fds # {} => UNCHANGED <<readers, writers>>,
           \A c \in Calls : \A e \in c.fds :
               PollAnswers(c, e)' => PollAnswers(c, e) \/ c.wants \cap E # {} \/ E = Event
    PROVE  WakeInv'
<1>0. TypeOK /\ RegistrationsExact BY DEF WakeInv, WaitQueuesExact
<1>1. /\ pc' = [pc EXCEPT ![a] = "changed"] /\ notify' = [notify EXCEPT ![a] = E]
      /\ UNCHANGED <<op, unpolled>>
   BY DEF Changed
<1>2. pc'[a] = "changed" /\ notify'[a] = E /\ \A u \in Thread \ {a} : notify'[u] = notify[u]
   BY <1>0, <1>1, Parts
<1>3. a \notin registrations BY <1>0 DEF RegistrationsExact
<1>4. CallExact(a)'
  BY <1>1, <1>2 DEF WakeInv, CallsExact, CallExact, Opened
<1>5. Awaited(a)' BY <1>2 DEF Awaited, Waiting
<1>6. ASSUME NEW t \in Thread \ {a}, NEW e \in op[t].fds, PollAnswers(op[t], e)'
      PROVE  PollAnswers(op[t], e) \/ Heard(t)'
  BY <1>0, <1>1, Parts, <1>6, <1>2 DEF PollAnswers, Hears, Heard, OnItsWay
<1>7. "changed" \in PC BY DEF PC
<1>8. UNCHANGED <<enqueued, queue, pending, registrations>> BY DEF waitVars
<1> QED BY <1>1, <1>2, <1>3, <1>4, <1>5, <1>6, <1>7, <1>8, OutsideStep

\* FileOperations::read.
LEMMA ReadAction == ASSUME WakeInv, NEW a \in Thread, TryRead(a) PROVE WakeInv'
<1>0. TypeOK /\ CallExact(a) BY DEF WakeInv, WaitQueuesExact, CallsExact
<1>1. /\ pc[a] = "try" /\ op[a] = FileCall("READ")
      /\ UNCHANGED <<kind, readers, writers, todo, waking, waitVars, lock>>
   BY DEF TryRead
<1>2. unpolled[a] = {} BY <1>0, <1>1, CallFacts DEF CallExact, Event
<1>3. ASSUME NEW n \in 1..Max, n <= level, level' = level - n,
             Changed(a, IF WhenFull(level) THEN {"WRITE"} ELSE {}), UNCHANGED <<rest, wrote>>
      PROVE  WakeInv'
  <2> DEFINE E == IF WhenFull(level) THEN {"WRITE"} ELSE {}
  <2>1. E \in SUBSET Event BY DEF Event
  <2>2. pc' \in [Thread -> PC] /\ notify' \in [Thread -> SUBSET Event] /\ UNCHANGED <<op, unpolled>>
    <3>1. "changed" \in PC BY DEF PC
    <3> HIDE DEF E
    <3> QED BY <1>0, <1>3, <2>1, <3>1, Parts DEF Changed, E
  <2>3. level' \in 0..Max BY <1>0, <1>3, Parts
  <2>4. TypeOK' BY <1>0, <1>1, <1>3, <2>2, <2>3 DEF TypeOK, waitVars
  <2>5. ASSUME NEW c \in Calls, NEW e \in c.fds, PollAnswers(c, e)'
        PROVE  PollAnswers(c, e) \/ c.wants \cap E # {}
    <3>1. e \in Event BY CallFacts
    <3>2. HungUp(e)' <=> HungUp(e) BY <1>1 DEF HungUp
    <3>3. CASE e = "READ" /\ Has(e)'
      BY <3>3, <1>0, <1>3, Parts, <3>2, <2>5 DEF Has, PollAnswers
    <3>4. CASE e # "READ" /\ Has(e)' /\ ~Has(e)
      <4>1. e = "WRITE" BY <3>1, <3>4 DEF Event
      <4>2. level = Max BY <3>4, <1>0, <1>1, <1>3, Parts DEF Has
      <4>3. E = {"WRITE"} BY <4>2 DEF WhenFull
      <4> QED BY <4>1, <4>3, <3>2, <2>5 DEF PollAnswers
    <3> QED BY <3>2, <3>3, <3>4, <2>5 DEF PollAnswers
  <2> HIDE DEF E
  <2>6. Changed(a, E) BY <1>3 DEF E
  <2> QED BY <1>1, <1>2, <2>1, <2>4, <2>5, <2>6, ChangedStep
<1>4. CASE level' = level /\ Return(a)
   BY <1>1, <1>4, EndedStep DEF Return, fileVars, notifyVars
<1>5. CASE level' = level /\ WouldBlock(a)
   BY <1>1, <1>2, <1>5, WouldBlockStep DEF fileVars
<1> QED BY <1>3, <1>4, <1>5 DEF TryRead

\* FileOperations::write, of an event counter and of a pipe.
LEMMA WriteActions ==
    ASSUME WakeInv, NEW a \in Thread, TryWriteEventFd(a) \/ TryWritePipe(a) PROVE WakeInv'
<1>0. TypeOK /\ CallExact(a) BY DEF WakeInv, WaitQueuesExact, CallsExact
<1>1. /\ pc[a] = "try" /\ op[a] = FileCall("WRITE")
      /\ UNCHANGED <<kind, readers, writers, todo, waking, waitVars, lock>>
   BY DEF TryWriteEventFd, TryWritePipe
<1>2. unpolled[a] = {} BY <1>0, <1>1, CallFacts DEF CallExact, Event
<1>3. ASSUME NEW n \in 0..Max, n <= Max - level, level' = level + n, NEW r \in 0..Max,
             NEW E \in SUBSET Event, level = 0 /\ n > 0 => E = {"READ"},
             Changed(a, E), rest' = [rest EXCEPT ![a] = r], wrote' \subseteq Thread
      PROVE  WakeInv'
  <2>1. pc' \in [Thread -> PC] /\ notify' \in [Thread -> SUBSET Event] /\ UNCHANGED <<op, unpolled>>
    BY <1>0, <1>3, Parts DEF PC, Changed
  <2>2. level' \in 0..Max /\ rest' \in [Thread -> 0..Max] BY <1>0, <1>3, Parts
  <2>3. TypeOK' BY <1>0, <1>1, <1>3, <2>1, <2>2 DEF TypeOK, waitVars
  <2>4. ASSUME NEW c \in Calls, NEW e \in c.fds, PollAnswers(c, e)'
        PROVE  PollAnswers(c, e) \/ c.wants \cap E # {}
    BY CallFacts, <1>1, <1>0, <1>3, Parts, <2>4 DEF HungUp, Has, PollAnswers
  <2> QED BY <1>1, <1>2, <1>3, <2>3, <2>4, ChangedStep
<1>4. CASE level' = level /\ Return(a)
   BY <1>1, <1>4, EndedStep DEF Return, fileVars, notifyVars
<1>5. CASE level' = level /\ WouldBlock(a)
   BY <1>1, <1>2, <1>5, WouldBlockStep DEF fileVars
<1>6. CASE TryWriteEventFd(a)
  <2>1. CASE Fits(rest[a])
    <3> DEFINE E == IF level = 0 /\ rest[a] > 0 THEN {"READ"} ELSE {}
    <3>1. /\ rest[a] \in 0..Max /\ rest[a] <= Max - level /\ level' = level + rest[a]
          /\ Changed(a, E) /\ rest' = [rest EXCEPT ![a] = 0] /\ wrote' = wrote
       BY <1>0, <1>6, <2>1, Parts DEF TryWriteEventFd, Fits
    <3>2. E \in SUBSET Event /\ (level = 0 /\ rest[a] > 0 => E = {"READ"}) BY DEF Event
    <3>3. 0 \in 0..Max /\ wrote' \subseteq Thread BY <1>0, <3>1, Parts
    <3> HIDE DEF E
    <3> QED BY <3>1, <3>2, <3>3, <1>3
  <2>2. CASE ~Fits(rest[a]) BY <2>2, <1>5, <1>6 DEF TryWriteEventFd
  <2> QED BY <2>1, <2>2
<1>7. CASE TryWritePipe(a)
  <2> DEFINE space == Max - level
             chunk == IF rest[a] < space THEN rest[a] ELSE space
  <2>1. CASE readers = {} \/ rest[a] = 0 \/ (space = 0 /\ a \in wrote)
     BY <2>1, <1>4, <1>7 DEF TryWritePipe
  <2>2. CASE ~(readers = {} \/ rest[a] = 0 \/ (space = 0 /\ a \in wrote)) /\ space = 0
     BY <2>2, <1>5, <1>7 DEF TryWritePipe
  <2>3. CASE ~(readers = {} \/ rest[a] = 0 \/ (space = 0 /\ a \in wrote)) /\ space # 0
    <3>1. /\ level' = level + chunk /\ rest' = [rest EXCEPT ![a] = @ - chunk]
          /\ wrote' = wrote \cup {a} /\ Changed(a, {"READ"})
       BY <1>7, <2>3 DEF TryWritePipe
    <3>2. rest' = [rest EXCEPT ![a] = rest[a] - chunk] BY <3>1
    <3>3. chunk \in 0..Max /\ chunk <= Max - level /\ rest[a] - chunk \in 0..Max
       BY <1>0, Parts
    <3>4. wrote' \subseteq Thread /\ {"READ"} \in SUBSET Event BY <1>0, <3>1, Parts DEF Event
    <3> HIDE DEF chunk
    <3> QED BY <3>1, <3>2, <3>3, <3>4, <1>3
  <2> QED BY <2>1, <2>2, <2>3
<1> QED BY <1>6, <1>7

\* remove_reader, remove_writer: a hang-up is notified as every event.
LEMMA ReleaseAction ==
    ASSUME WakeInv, NEW a \in Thread, NEW event \in Event, Release(a, event) PROVE WakeInv'
<1>0. TypeOK /\ CallExact(a) BY DEF WakeInv, WaitQueuesExact, CallsExact
<1>1. /\ pc[a] = "user" /\ Changed(a, Event)
      /\ UNCHANGED <<kind, level, rest, wrote, todo, waking, waitVars, lock>>
      /\ readers \ {a} \subseteq readers' /\ writers \ {a} \subseteq writers'
      /\ readers' \subseteq readers /\ writers' \subseteq writers
   BY DEF Release, Hangup
<1>2. op[a] = NoCall /\ unpolled[a] = {} BY <1>0, <1>1 DEF CallExact
<1>3. pc' \in [Thread -> PC] /\ notify' \in [Thread -> SUBSET Event] /\ UNCHANGED <<op, unpolled>>
  BY <1>0, <1>1, Parts DEF PC, Changed
<1>4. TypeOK' BY <1>0, <1>1, <1>3 DEF TypeOK, waitVars
<1> QED BY <1>1, <1>2, <1>4, ChangedStep, CallFacts

\* evaluate_poll_fds and evaluate_select_fd_sets, and their verdict.
LEMMA PollActions ==
    ASSUME WakeInv, NEW a \in Thread,
           (\E event \in Event : EvaluateFd(a, event)) \/ NoneReady(a) \/ Notified(a)
    PROVE  WakeInv'
<1>0. TypeOK /\ CallExact(a) BY DEF WakeInv, WaitQueuesExact, CallsExact
<1>1. ASSUME NEW e \in Event, EvaluateFd(a, e) PROVE WakeInv'
  <2>1. /\ pc[a] = "try" /\ e \in unpolled[a]
        /\ UNCHANGED <<fileVars, notifyVars, waitVars, lock>>
     BY <1>1 DEF EvaluateFd
  <2>2. CASE Opened(a, e) /\ ~Answers(op[a], e)
    <3>1. unpolled' = [unpolled EXCEPT ![a] = unpolled[a] \ {e}] /\ UNCHANGED <<pc, op, rest, wrote>>
       BY <1>1, <2>2 DEF EvaluateFd
    <3>2. pc' = [pc EXCEPT ![a] = "try"] BY <1>0, <2>1, <3>1, Parts
    <3>3. \A u \in Thread : unpolled'[u] = IF u = a THEN unpolled[a] \ {e} ELSE unpolled[u]
       BY <1>0, <3>1, Parts
    <3>4. unpolled' \in [Thread -> SUBSET Event] BY <1>0, <3>1, Parts
    <3>5. TypeOK' BY <1>0, <2>1, <3>1, <3>3, <3>4 DEF TypeOK, fileVars, notifyVars, waitVars
    <3>6. CallExact(a)'
      BY <1>0, <2>1, <3>1, <3>3, <2>2 DEF CallExact, Opened, fileVars
    <3> QED BY <2>1, <3>1, <3>2, <3>3, <3>5, <3>6, QuietStep
  <2>3. CASE ~(Opened(a, e) /\ ~Answers(op[a], e))
    BY <1>1, <2>3, <2>1, EndedStep DEF EvaluateFd
  <2> QED BY <2>2, <2>3
<1>2. CASE NoneReady(a)
  BY <1>2, EndedStep, WouldBlockStep DEF NoneReady, Return, notifyVars
<1>3. CASE Notified(a)
  <2>1. pc[a] = "wake" /\ todo[a] = {} /\ UNCHANGED <<fileVars, notifyVars, waitVars, lock>>
     BY <1>3 DEF Notified
  <2>2. CASE pc' = [pc EXCEPT ![a] = "try"] /\ UNCHANGED callVars
    <3>1. pc'[a] = "try" /\ pc' \in [Thread -> PC] BY <1>0, <2>2, Parts DEF PC
    <3>2. TypeOK' BY <1>0, <2>1, <2>2, <3>1 DEF TypeOK, fileVars, notifyVars, waitVars, callVars
    <3>3. CallExact(a)' BY <1>0, <2>1, <2>2, <3>1 DEF CallExact, Opened, fileVars, callVars
    <3> QED BY <2>1, <2>2, <3>2, <3>3, QuietStep DEF callVars
  <2>3. CASE Ended(a) BY <2>1, <2>3, EndedStep
  <2> QED BY <1>3, <2>2, <2>3 DEF Notified
<1> QED BY <1>1, <1>2, <1>3

\* ensure_file_wait_registration: every descriptor is polled again from here.
LEMMA RegisterAction == ASSUME WakeInv, NEW a \in Thread, Register(a) PROVE WakeInv'
<1>0. TypeOK /\ CallExact(a) BY DEF WakeInv, WaitQueuesExact, CallsExact
<1>1. /\ pc[a] = "again" /\ lock = None /\ lock' = a /\ registrations' = registrations \cup {a}
      /\ unpolled' = [unpolled EXCEPT ![a] = Watched(a)] /\ pc' = [pc EXCEPT ![a] = "registered"]
      /\ UNCHANGED <<kind, level, readers, writers, op, rest, wrote, notify, todo, waking, enqueued,
                     queue, pending>>
   BY DEF Register, fileVars, notifyVars
<1>2. Watched(a) = op[a].fds BY <1>0, <1>1 DEF Watched, CallExact
<1>3. op[a].fds \in SUBSET Event BY <1>0, Parts
<1>4. \A u \in Thread : /\ unpolled'[u] = IF u = a THEN op[a].fds ELSE unpolled[u]
                        /\ pc'[u] = IF u = a THEN "registered" ELSE pc[u]
   BY <1>0, <1>1, <1>2, Parts
<1>5. TypeOK'
  BY <1>0, <1>1, <1>2, <1>3, Parts, <1>4 DEF PC, TypeOK
<1>6. CallExact(a)' BY <1>0, <1>1, <1>4 DEF CallExact, Opened
<1>7. Awaited(a)' BY <1>1, <1>4 DEF Awaited
<1>8. \A t \in Thread \ {a} : \A e \in op[t].fds : PollAnswers(op[t], e)' => PollAnswers(op[t], e)
   BY <1>1, SameAnswers DEF fileVars
<1>9. \A u \in Thread \ {a} : /\ op'[u] = op[u] /\ unpolled'[u] = unpolled[u] /\ notify'[u] = notify[u]
                              /\ (lock = u => lock' = u)
   BY <1>1, <1>4, NoneAssumption
<1>10. \A u \in Thread : u \in registrations' <=>
          IF u = a THEN "registered" \in {"registered", "blocked"} ELSE u \in registrations
   BY <1>1
<1>11. "registered" \in PC BY DEF PC
<1> QED BY <1>1, <1>5, <1>6, <1>7, <1>8, <1>9, <1>10, <1>11, NoneAssumption, OutsideStep

\* Thread a leaves the wait: its listener goes.
LEMMA LeaveStep ==
    ASSUME WakeInv, NEW a \in Thread, NEW w \in {"user", "try"}, TypeOK', Waiting(a),
           pc' = [pc EXCEPT ![a] = w], registrations' = registrations \ {a}, CallExact(a)',
           \A u \in Thread \ {a} : op'[u] = op[u] /\ unpolled'[u] = unpolled[u] /\ (lock = u => lock' = u),
           lock = "drain" => lock' = "drain",
           UNCHANGED <<fileVars, notifyVars, enqueued, queue, pending>>
    PROVE  WakeInv'
<1>0. TypeOK BY DEF WakeInv, WaitQueuesExact
<1>1. pc'[a] = w BY <1>0, Parts
<1>2. Awaited(a)' BY <1>1 DEF Awaited, Waiting
<1>3. \A t \in Thread \ {a} : \A e \in op[t].fds : PollAnswers(op[t], e)' => PollAnswers(op[t], e)
   BY SameAnswers
<1>4. \A u \in Thread : u \in registrations' <=>
         IF u = a THEN w \in {"registered", "blocked"} ELSE u \in registrations
   OBVIOUS
<1>5. w \in PC /\ w \notin {"push", "flag", "registered"} BY DEF PC
<1>6. UNCHANGED <<readers, writers, notify, todo, waking>> BY DEF fileVars, notifyVars
<1>7. pc[a] \notin {"changed", "push", "flag", "wake"} BY DEF Waiting
<1> QED BY <1>2, <1>3, <1>4, <1>5, <1>6, <1>7, OutsideStep

\* requeue_process: the second look, and the end of a blocked call.
LEMMA WaitActions ==
    ASSUME WakeInv, NEW a \in Thread, (\E event \in Event : Track(a, event)) \/ Interrupt(a)
    PROVE  WakeInv'
<1>0. TypeOK /\ CallExact(a) BY DEF WakeInv, WaitQueuesExact, CallsExact
<1>1. ASSUME NEW e \in Event, Track(a, e) PROVE WakeInv'
  <2>1. /\ pc[a] = "registered" /\ e \in unpolled[a]
        /\ UNCHANGED <<kind, level, readers, writers, op, rest, wrote, notify, todo, waking,
                       enqueued, queue, pending>>
     BY <1>1 DEF Track, fileVars, notifyVars
  <2>2. lock = a /\ a # "drain" BY <2>1, NoneAssumption DEF WakeInv, LockHeld
  <2>3. CASE PolledReady(op[a], e)
    <3>1. /\ pc' = [pc EXCEPT ![a] = "try"] /\ unpolled' = Retried({a})
          /\ registrations' = registrations \ {a} /\ lock' = None
       BY <1>1, <2>3 DEF Track
    <3>2. /\ \A u \in Thread \ {a} : unpolled'[u] = unpolled[u]
          /\ unpolled'[a] = IF op[a] \in PollCall THEN op[a].fds ELSE {}
       BY <3>1 DEF Retried
    <3>3. unpolled' \in [Thread -> SUBSET Event]
      BY <1>0, Parts, <3>1, <3>2 DEF Retried
    <3>4. TypeOK'
      BY <1>0, <3>1, Parts, <2>1, <3>2, <3>3 DEF PC, TypeOK
    <3>5. CallExact(a)'
      BY <1>0, <3>1, Parts, <2>1, <3>2 DEF CallExact, Opened
    <3>6. Waiting(a) BY <2>1 DEF Waiting
    <3> QED BY <2>1, <2>2, <3>1, <3>2, <3>4, <3>5, <3>6, LeaveStep DEF fileVars, notifyVars
  <2>4. CASE ~PolledReady(op[a], e)
    <3> DEFINE last == unpolled[a] = {e}
               w == IF last THEN "blocked" ELSE "registered"
    <3>1. /\ unpolled' = [unpolled EXCEPT ![a] = unpolled[a] \ {e}] /\ registrations' = registrations
          /\ pc' = [pc EXCEPT ![a] = IF last THEN "blocked" ELSE @]
          /\ lock' = IF last THEN None ELSE lock
       BY <1>1, <2>4 DEF Track
    <3>2. pc' = [pc EXCEPT ![a] = w] BY <2>1, <3>1
    <3>3. /\ \A u \in Thread : /\ unpolled'[u] = IF u = a THEN unpolled[a] \ {e} ELSE unpolled[u]
                               /\ pc'[u] = IF u = a THEN w ELSE pc[u]
          /\ w \in PC
      <4>1. w \in PC BY DEF PC
      <4> HIDE DEF w, last
      <4> QED BY <1>0, <3>1, <3>2, <4>1, Parts
    <3>4. TypeOK'
      <4>1. pc' \in [Thread -> PC]
        <5> HIDE DEF w
        <5> QED BY <1>0, <3>2, <3>3, Parts
      <4>2. unpolled' \in [Thread -> SUBSET Event] BY <1>0, <3>1, Parts
      <4>3. \A u \in Thread : unpolled'[u] \subseteq op'[u].fds BY <1>0, <2>1, <3>3, Parts
      <4>4. lock' \in Thread \cup {None, "drain"} BY <2>2, <3>1
      <4> HIDE DEF last, w
      <4> QED BY <1>0, <2>1, <3>1, <4>1, <4>2, <4>3, <4>4 DEF TypeOK
    <3>5. CallExact(a)'
      <4>1. /\ pc'[a] = w /\ unpolled'[a] = unpolled[a] \ {e} /\ op'[a] = op[a]
            /\ w = "blocked" => unpolled'[a] = {}
         BY <2>1, <3>3
      <4>2. \A ev \in op[a].fds : Opened(a, ev)' BY <1>0, <2>1 DEF CallExact, Opened
      <4>3. w \in {"blocked", "registered"} OBVIOUS
      <4> HIDE DEF w, last
      <4> QED BY <4>1, <4>2, <4>3 DEF CallExact
    <3>6. Awaited(a)'
      <4>1. ASSUME NEW ev \in op'[a].fds \ unpolled'[a], PollAnswers(op[a], ev)' PROVE Heard(a)'
        <5>1. PollAnswers(op[a], ev) BY <2>1, <4>1, SameAnswers DEF fileVars
        <5>2. ev # e BY <5>1, <2>4 DEF PollAnswers, PolledReady
        <5>3. Awaited(a) /\ Waiting(a) BY <2>1 DEF WakeInv, AwaitedHeard, Waiting
        <5>4. Heard(a) BY <5>1, <5>2, <5>3, <4>1, <2>1, <3>3 DEF Awaited
        <5>5. \A u \in Thread : pc[u] \in {"changed", "push"} =>
                 pc'[u] = pc[u] /\ notify'[u] = notify[u] /\ waking'[u] = waking[u]
           BY <2>1, <3>3
        <5> HIDE DEF w, last
        <5> QED BY <5>4, <5>5, <2>1, HeardKept
      <4> QED BY <4>1 DEF Awaited
    <3>7. \A t \in Thread \ {a} : \A ev \in op[t].fds : PollAnswers(op[t], ev)' => PollAnswers(op[t], ev)
       BY <2>1, SameAnswers DEF fileVars
    <3>8. a \in registrations BY <2>1 DEF WakeInv, WaitQueuesExact, RegistrationsExact
    <3>9. /\ w \in {"registered", "blocked"} /\ (w = "registered" => lock' = a)
          /\ lock # "drain" /\ \A u \in Thread \ {a} : lock # u
       BY <2>2, <3>1
    <3>10. \A u \in Thread \ {a} : op'[u] = op[u] /\ unpolled'[u] = unpolled[u] /\ notify'[u] = notify[u]
       BY <2>1, <3>3
    <3>11. pc[a] \notin {"changed", "push", "flag", "wake"} BY <2>1
    <3> HIDE DEF w, last
    <3> QED BY <2>1, <3>1, <3>2, <3>3, <3>4, <3>5, <3>6, <3>7, <3>8, <3>9, <3>10, <3>11, OutsideStep
  <2> QED BY <2>3, <2>4
<1>2. CASE Interrupt(a)
  <2>1. /\ pc[a] = "blocked" /\ lock = None /\ registrations' = registrations \ {a}
        /\ pc' = [pc EXCEPT ![a] = "user"] /\ op' = [op EXCEPT ![a] = NoCall]
        /\ unpolled' = [unpolled EXCEPT ![a] = {}] /\ rest' = [rest EXCEPT ![a] = 0]
        /\ wrote' = wrote \ {a}
        /\ UNCHANGED <<fileVars, notifyVars, enqueued, queue, pending, lock>>
     BY <1>2 DEF Interrupt, Unregistered, Ended
  <2>2. /\ pc' \in [Thread -> PC] /\ op' \in [Thread -> Calls] /\ unpolled' \in [Thread -> SUBSET Event]
        /\ rest' \in [Thread -> 0..Max] /\ wrote' \subseteq Thread /\ registrations' \subseteq Thread
    BY <1>0, <2>1, Parts, CallFacts DEF TypeOK, PC
  <2>3. \A u \in Thread : /\ op'[u] = IF u = a THEN NoCall ELSE op[u]
                          /\ unpolled'[u] = IF u = a THEN {} ELSE unpolled[u]
                          /\ pc'[u] = IF u = a THEN "user" ELSE pc[u]
     BY <1>0, <2>1, Parts
  <2>4. TypeOK'
    BY <1>0, <2>3, <2>1, <2>2 DEF TypeOK, Calls, fileVars, notifyVars
  <2>5. CallExact(a)' BY <2>3, CallFacts DEF CallExact
  <2>6. Waiting(a) BY <2>1 DEF Waiting
  <2> QED BY <2>1, <2>3, <2>4, <2>5, <2>6, LeaveStep
<1> QED BY <1>1, <1>2

\* A step of the notification: thread a carries the wake-ups on.
LEMMA InsideStep ==
    ASSUME WakeInv, NEW a \in Thread, NEW w \in {"wake", "push", "flag"}, TypeOK',
           pc[a] \in {"changed", "wake", "push", "flag"}, pc' = [pc EXCEPT ![a] = w],
           UNCHANGED <<fileVars, callVars, registrations, lock>>,
           \A u \in Thread \ {a} : todo'[u] = todo[u],
           QueueIsSeen', EnqueuedExact', PushesExact',
           \A t \in Thread : Waiting(t) /\ Heard(t) => Heard(t)'
    PROVE  WakeInv'
<1>0. TypeOK /\ RegistrationsExact BY DEF WakeInv, WaitQueuesExact
<1>1. \A u \in Thread : pc'[u] = IF u = a THEN w ELSE pc[u] BY <1>0, Parts
<1>2. \A u \in Thread : /\ Waiting(u)' <=> Waiting(u)
                        /\ pc'[u] = "registered" <=> pc[u] = "registered"
   BY <1>1 DEF Waiting
<1>3. RegistrationsExact'
  BY <1>1, <1>0 DEF RegistrationsExact
<1>4. LockHeld' BY <1>2 DEF LockHeld, WakeInv
<1>5. CallsExact'
  BY <1>1 DEF WakeInv, CallsExact, callVars, fileVars, CallExact, Opened
<1>6. AwaitedHeard'
  BY SameAnswers, <1>2 DEF callVars, WakeInv, AwaitedHeard, Awaited
<1>7. TodoExact' BY <1>1 DEF TodoExact, WakeInv
<1> QED BY <1>3, <1>4, <1>5, <1>6, <1>7 DEF WakeInv, WaitQueuesExact

\* WaitQueue::notify and FileBlockListener::wake: collected, entered, pushed, flagged.
LEMMA NotifyActions ==
    ASSUME WakeInv, NEW a \in Thread,
           \/ CollectListeners(a) \/ (\E l \in Thread : WakeListener(a, l))
           \/ PushListener(a) \/ RaisePending(a)
    PROVE  WakeInv'
<1>0. TypeOK /\ QueueIsSeen /\ EnqueuedExact /\ RegistrationsExact /\ PushesExact /\ TodoExact
   BY DEF WakeInv, WaitQueuesExact
<1>t. /\ pc \in [Thread -> PC] /\ todo \in [Thread -> SUBSET Thread] /\ queue \in Seq(Thread)
      /\ waking \in [Thread -> Thread \cup {None}] /\ notify \in [Thread -> SUBSET Event]
      /\ {"wake", "push", "flag"} \subseteq PC
   BY <1>0 DEF TypeOK, PC
<1>1. CASE CollectListeners(a)
  <2> DEFINE heard == {l \in registrations : Hears(l, notify[a])}
  <2>1. /\ pc[a] = "changed" /\ todo' = [todo EXCEPT ![a] = heard]
        /\ notify' = [notify EXCEPT ![a] = {}] /\ pc' = [pc EXCEPT ![a] = "wake"]
        /\ UNCHANGED <<fileVars, callVars, waking, waitVars, lock>>
     BY <1>1 DEF CollectListeners
  <2>2. heard \in SUBSET Thread BY <1>0 DEF TypeOK
  <2>3. \A l \in registrations : Hears(l, notify[a]) => l \in heard OBVIOUS
  <2> HIDE DEF heard
  <2>4. /\ \A u \in Thread : /\ pc'[u] = IF u = a THEN "wake" ELSE pc[u]
                             /\ todo'[u] = IF u = a THEN heard ELSE todo[u]
                             /\ notify'[u] = IF u = a THEN {} ELSE notify[u]
        /\ pc' \in [Thread -> PC] /\ todo' \in [Thread -> SUBSET Thread]
        /\ notify' \in [Thread -> SUBSET Event]
     BY <1>t, <2>1, <2>2
  <2>5. TypeOK' BY <1>0, <2>1, <2>4 DEF TypeOK, fileVars, callVars, waitVars
  <2>6. \A u \in Thread : /\ pc'[u] = "push" <=> pc[u] = "push"
                          /\ pc'[u] = "flag" <=> pc[u] = "flag"
     BY <2>1, <2>4
  <2>7. QueueIsSeen' BY <1>0, <2>1, <2>6 DEF QueueIsSeen, waitVars
  <2>8. EnqueuedExact' BY <1>0, <2>1, <2>6 DEF EnqueuedExact, Queued, waitVars
  <2>9. PushesExact' BY <1>0, <2>1, <2>6 DEF PushesExact, Queued, waitVars
  <2>10. ASSUME NEW t \in Thread, Waiting(t), Heard(t) PROVE Heard(t)'
    <3>1. CASE Queued(t) BY <3>1, <2>1 DEF Heard, Queued, waitVars
    <3>2. CASE OnItsWay(t)
      <4>1. PICK u \in Thread : \/ pc[u] = "changed" /\ Hears(t, notify[u])
                                \/ t \in todo[u]
                                \/ pc[u] = "push" /\ waking[u] = t
         BY <3>2 DEF OnItsWay
      <4>2. CASE u = a
        <5>1. todo[a] = {} BY <1>0, <2>1 DEF TodoExact
        <5>2. Hears(t, notify[a]) BY <4>1, <4>2, <5>1, <2>1
        <5>3. t \in registrations BY <1>0, <2>10 DEF RegistrationsExact, Waiting
        <5>4. t \in todo'[a] BY <5>2, <5>3, <2>3, <2>4
        <5> QED BY <5>4 DEF Heard, OnItsWay
      <4>3. CASE u # a
        BY <4>1, <4>3, <2>1, <2>4 DEF Hears, callVars, Heard, OnItsWay
      <4> QED BY <4>2, <4>3
    <3> QED BY <3>1, <3>2, <2>10 DEF Heard
  <2>11. UNCHANGED <<fileVars, callVars, registrations, lock>> BY <2>1 DEF waitVars
  <2> QED BY <2>1, <2>4, <2>5, <2>7, <2>8, <2>9, <2>10, <2>11, InsideStep
<1>2. ASSUME NEW l \in Thread, WakeListener(a, l) PROVE WakeInv'
  <2> DEFINE w == IF ShouldQueue(l) THEN "push" ELSE "flag"
  <2>1. /\ pc[a] = "wake" /\ l \in todo[a] /\ enqueued' = enqueued \cup {l}
        /\ todo' = [todo EXCEPT ![a] = @ \ {l}] /\ waking' = [waking EXCEPT ![a] = l]
        /\ pc' = [pc EXCEPT ![a] = w]
        /\ UNCHANGED <<fileVars, callVars, notify, registrations, queue, pending, lock>>
     BY <1>2 DEF WakeListener
  <2>2. w \in {"push", "flag"} /\ (w = "push" <=> l \notin enqueued) BY DEF ShouldQueue
  <2> HIDE DEF w
  <2>3. /\ \A u \in Thread : /\ pc'[u] = IF u = a THEN w ELSE pc[u]
                             /\ todo'[u] = IF u = a THEN todo[a] \ {l} ELSE todo[u]
                             /\ waking'[u] = IF u = a THEN l ELSE waking[u]
        /\ pc' \in [Thread -> PC] /\ todo' \in [Thread -> SUBSET Thread]
        /\ waking' \in [Thread -> Thread \cup {None}]
     BY <1>t, <2>1, <2>2
  <2>4. TypeOK'
    BY <1>0, <2>1, <2>3 DEF TypeOK, fileVars, callVars
  <2>5. QueueIsSeen'
    BY <2>1, <2>3, <1>0 DEF QueueIsSeen
  <2>6. \A t \in Thread : Queued(t)' <=> Queued(t) BY <2>1 DEF Queued
  <2>7. \A t \in Thread : t \in enqueued <=> Queued(t) \/ \E u \in Thread : pc[u] = "push" /\ waking[u] = t
     BY <1>0 DEF EnqueuedExact
  <2>8. \A u \in Thread : pc'[u] = "push" <=> pc[u] = "push" \/ (u = a /\ w = "push")
     BY <2>1, <2>3
  <2>9. EnqueuedExact'
    <3>1. ASSUME NEW t \in Thread
          PROVE  t \in enqueued' <=> Queued(t)' \/ \E u \in Thread : pc'[u] = "push" /\ waking'[u] = t
      BY <2>1, <2>3, <2>2, <2>6, <2>7, <2>8
    <3>2. enqueued' \subseteq Thread BY <2>4 DEF TypeOK
    <3>3. enqueued' = {t \in Thread : Queued(t)' \/ \E u \in Thread : pc'[u] = "push" /\ waking'[u] = t}
       BY <3>1, <3>2
    <3> QED BY <3>3, <1>0, <2>1 DEF EnqueuedExact, Queued
  <2>10. PushesExact'
    <3>1. ASSUME NEW u \in Thread, pc'[u] = "push"
          PROVE  /\ waking'[u] \in Thread /\ ~Queued(waking[u])'
                 /\ \A v \in Thread : pc'[v] = "push" /\ waking'[v] = waking'[u] => v = u
      BY <3>1, <2>2, <2>3, <2>7, <2>1, <1>0 DEF Queued, PushesExact
    <3> QED BY <3>1 DEF PushesExact
  <2>11. ASSUME NEW t \in Thread, Heard(t) PROVE Heard(t)'
    <3>1. CASE Queued(t) BY <3>1, <2>6 DEF Heard
    <3>2. CASE OnItsWay(t)
      BY <3>2, <2>1, <2>9, <2>3 DEF OnItsWay, EnqueuedExact, Heard, Hears, callVars
    <3> QED BY <3>1, <3>2, <2>11 DEF Heard
  <2>12. \A u \in Thread \ {a} : todo'[u] = todo[u] BY <2>3
  <2> QED BY <2>1, <2>2, <2>4, <2>5, <2>9, <2>10, <2>11, <2>12, InsideStep
<1>3. CASE PushListener(a)
  <2>1. /\ pc[a] = "push" /\ queue' = Append(queue, waking[a]) /\ pc' = [pc EXCEPT ![a] = "flag"]
        /\ UNCHANGED <<fileVars, callVars, notify, todo, waking, registrations, enqueued, pending, lock>>
     BY <1>3 DEF PushListener, notifyVars
  <2>2. waking[a] \in Thread /\ ~Queued(waking[a])
        /\ \A v \in Thread : pc[v] = "push" /\ waking[v] = waking[a] => v = a
     BY <1>0, <2>1 DEF PushesExact
  <2>3. \A u \in Thread : pc'[u] = IF u = a THEN "flag" ELSE pc[u] BY <1>t, <2>1
  <2>4. /\ queue' \in Seq(Thread) /\ Len(queue') = Len(queue) + 1
        /\ \A i \in 1..Len(queue) : queue'[i] = queue[i]
        /\ queue'[Len(queue) + 1] = waking[a] /\ Len(queue) \in Nat
     BY <1>t, <2>1, <2>2
  <2>5. TypeOK'
    BY <1>t, <2>1, <1>0, <2>4 DEF TypeOK, fileVars, callVars
  <2>6. \A t \in Thread : Queued(t)' <=> Queued(t) \/ t = waking[a]
    BY <2>4 DEF Queued
  <2>7. QueueIsSeen' BY <2>3 DEF QueueIsSeen
  <2>8. EnqueuedExact'
    <3>1. ASSUME NEW t \in Thread
          PROVE  t \in enqueued' <=> Queued(t)' \/ \E u \in Thread : pc'[u] = "push" /\ waking'[u] = t
      BY <1>0, <2>1, <2>2, <2>3, <2>6 DEF EnqueuedExact
    <3>2. enqueued' \subseteq Thread BY <2>5 DEF TypeOK
    <3>3. enqueued' = {t \in Thread : Queued(t)' \/ \E u \in Thread : pc'[u] = "push" /\ waking'[u] = t}
       BY <3>1, <3>2
    <3>4. \A i, j \in 1..Len(queue') : queue'[i] = queue'[j] => i = j
      BY <2>2, <1>0, <2>4 DEF Queued, EnqueuedExact
    <3> QED BY <3>3, <3>4 DEF EnqueuedExact
  <2>9. PushesExact'
    BY <2>1, <2>3, <2>2, <1>0, <2>6 DEF PushesExact, Queued
  <2>10. ASSUME NEW t \in Thread, Heard(t) PROVE Heard(t)'
    <3>1. CASE Queued(t) BY <3>1, <2>6 DEF Heard
    <3>2. CASE OnItsWay(t)
      BY <3>2, <2>6, <2>1, <2>3 DEF OnItsWay, Heard, Hears, callVars
    <3> QED BY <3>1, <3>2, <2>10 DEF Heard
  <2>11. \A u \in Thread \ {a} : todo'[u] = todo[u] BY <2>1
  <2> QED BY <2>1, <2>5, <2>7, <2>8, <2>9, <2>10, <2>11, InsideStep
<1>4. CASE RaisePending(a)
  <2>1. /\ pc[a] = "flag" /\ pending' = TRUE /\ waking' = [waking EXCEPT ![a] = None]
        /\ pc' = [pc EXCEPT ![a] = "wake"]
        /\ UNCHANGED <<fileVars, callVars, notify, todo, registrations, enqueued, queue, lock>>
     BY <1>4 DEF RaisePending
  <2>2. /\ \A u \in Thread : /\ pc'[u] = IF u = a THEN "wake" ELSE pc[u]
                             /\ u # a => waking'[u] = waking[u]
        /\ pc' \in [Thread -> PC] /\ waking' \in [Thread -> Thread \cup {None}]
     BY <1>t, <2>1
  <2>3. TypeOK' BY <1>0, <2>1, <2>2 DEF TypeOK, fileVars, callVars
  <2>4. QueueIsSeen' BY <2>1 DEF QueueIsSeen
  <2>5. \A u \in Thread : /\ pc'[u] = "push" <=> pc[u] = "push"
                          /\ pc[u] = "push" => waking'[u] = waking[u]
     BY <2>1, <2>2
  <2>6. EnqueuedExact' BY <1>0, <2>1, <2>5 DEF EnqueuedExact, Queued
  <2>7. PushesExact' BY <1>0, <2>1, <2>5 DEF PushesExact, Queued
  <2>8. \A u \in Thread : pc[u] \in {"changed", "push"} =>
           pc'[u] = pc[u] /\ notify'[u] = notify[u] /\ waking'[u] = waking[u]
     BY <2>1, <2>2
  <2>9. \A t \in Thread : Heard(t) => Heard(t)' BY <2>1, <2>8, HeardKept DEF callVars
  <2>10. \A u \in Thread \ {a} : todo'[u] = todo[u] BY <2>1
  <2> QED BY <2>1, <2>3, <2>4, <2>6, <2>7, <2>9, <2>10, InsideStep
<1> QED BY <1>1, <1>2, <1>3, <1>4

\* wake_ready_file_blocks: the flag, then the queue.  No thread is between its
\* second look and its sleep, which it spends under the lock.
LEMMA DrainActions == ASSUME WakeInv, TakePending \/ DrainQueue PROVE WakeInv'
<1>0. TypeOK /\ QueueIsSeen /\ EnqueuedExact /\ RegistrationsExact /\ PushesExact /\ TodoExact
   BY DEF WakeInv, WaitQueuesExact
<1>1. CASE TakePending
  <2>1. /\ lock = None /\ pending' = FALSE /\ lock' = "drain"
        /\ UNCHANGED <<fileVars, pc, op, unpolled, rest, wrote, notify, todo, waking, registrations,
                       enqueued, queue>>
     BY <1>1 DEF TakePending, callVars, notifyVars
  <2>2. TypeOK' BY <1>0, <2>1 DEF TypeOK, fileVars
  <2>3. QueueIsSeen' /\ EnqueuedExact' /\ RegistrationsExact' /\ PushesExact' /\ TodoExact'
     BY <1>0, <2>1 DEF QueueIsSeen, EnqueuedExact, RegistrationsExact, PushesExact, Queued, TodoExact
  <2>4. LockHeld' BY <2>1, NoneAssumption DEF LockHeld, WakeInv
  <2>5. CallsExact' BY <2>1 DEF CallsExact, CallExact, Opened, WakeInv, fileVars
  <2>6. AwaitedHeard'
    BY <2>1, HeardKept, SameAnswers DEF WakeInv, AwaitedHeard, Awaited, Waiting
  <2> QED BY <2>2, <2>3, <2>4, <2>5, <2>6 DEF WakeInv, WaitQueuesExact
<1>2. CASE DrainQueue
  <2> DEFINE ready == {queue[i] : i \in 1..Len(queue)}
             woken == {t \in ready : pc[t] = "blocked"}
  <2>1. /\ lock = "drain" /\ queue' = <<>> /\ enqueued' = enqueued \ ready
        /\ registrations' = registrations \ woken
        /\ pc' = [t \in Thread |-> IF t \in woken THEN "try" ELSE pc[t]]
        /\ unpolled' = Retried(woken) /\ lock' = None
        /\ UNCHANGED <<fileVars, op, rest, wrote, notify, todo, waking, pending>>
     BY <1>2 DEF DrainQueue, Unregistered, notifyVars
  <2>2. \A t \in Thread : t \in ready <=> Queued(t) BY DEF Queued
  <2>3. \A t \in Thread : t \in woken <=> Queued(t) /\ pc[t] = "blocked" BY <2>2
  <2> HIDE DEF ready, woken
  <2>4. \A t \in Thread : /\ pc'[t] = IF t \in woken THEN "try" ELSE pc[t]
                          /\ unpolled'[t] = IF t \notin woken THEN unpolled[t]
                                            ELSE IF op[t] \in PollCall THEN op[t].fds ELSE {}
     BY <2>1 DEF Retried
  <2>5. TypeOK'
    <3>1. \A t \in Thread : /\ unpolled'[t] \in SUBSET Event /\ unpolled'[t] \subseteq op[t].fds
                            /\ pc'[t] \in PC
       BY <1>0, <2>4, Parts DEF PC
    <3>2. unpolled' \in [Thread -> SUBSET Event] /\ pc' \in [Thread -> PC]
       BY <2>1, <3>1 DEF Retried
    <3>3. enqueued' \subseteq Thread /\ registrations' \subseteq Thread BY <1>0, <2>1 DEF TypeOK
    <3>4. queue' \in Seq(Thread) BY <2>1
    <3> QED BY <1>0, <2>1, <3>1, <3>2, <3>3, <3>4 DEF TypeOK, fileVars
  <2>6. QueueIsSeen' BY <2>1 DEF QueueIsSeen
  <2>7. \A t \in Thread : ~Queued(t)' BY <2>1 DEF Queued
  <2>8. \A u \in Thread : pc'[u] = "push" <=> pc[u] = "push" BY <2>3, <2>4
  <2>9. EnqueuedExact'
    <3>1. ASSUME NEW t \in Thread
          PROVE  t \in enqueued' <=> \E u \in Thread : pc'[u] = "push" /\ waking'[u] = t
      BY <1>0, <2>1, <2>2, <2>8 DEF EnqueuedExact, PushesExact
    <3>2. enqueued' \subseteq Thread BY <2>5 DEF TypeOK
    <3>3. enqueued' = {t \in Thread : Queued(t)' \/ \E u \in Thread : pc'[u] = "push" /\ waking'[u] = t}
       BY <3>1, <3>2, <2>7
    <3> QED BY <3>3, <2>1 DEF EnqueuedExact
  <2>10. PushesExact' BY <1>0, <2>1, <2>7, <2>8 DEF PushesExact
  <2>11. TodoExact' BY <1>0, <2>1, <2>3, <2>4 DEF TodoExact
  <2>12. \A t \in Thread : pc[t] # "registered" BY <2>1, NoneAssumption DEF WakeInv, LockHeld
  <2>13. LockHeld' BY <2>4, <2>12 DEF LockHeld
  <2>14. RegistrationsExact'
    BY <1>0, <2>1, <2>3, <2>4, <2>5 DEF RegistrationsExact, TypeOK
  <2>15. CallsExact'
    <3>1. ASSUME NEW t \in Thread PROVE CallExact(t)'
      BY <2>1, <2>3, <2>4 DEF WakeInv, CallsExact, Opened, fileVars, CallExact
    <3> QED BY <3>1 DEF CallsExact
  <2>16. AwaitedHeard'
    <3>1. ASSUME NEW t \in Thread, Waiting(t)', NEW e \in op'[t].fds \ unpolled'[t], PollAnswers(op[t], e)'
          PROVE  Heard(t)'
      <4>1. t \notin woken /\ Waiting(t) /\ op'[t] = op[t] /\ unpolled'[t] = unpolled[t]
         BY <3>1, <2>1, <2>4 DEF Waiting
      <4>2. ~Queued(t) BY <4>1, <2>3, <2>12 DEF Waiting
      <4>3. PollAnswers(op[t], e) BY <3>1, <4>1, <2>1, SameAnswers
      <4>4. Heard(t) BY <3>1, <4>1, <4>3 DEF WakeInv, AwaitedHeard, Awaited
      <4>5. PICK u \in Thread : \/ pc[u] = "changed" /\ Hears(t, notify[u])
                                \/ t \in todo[u]
                                \/ pc[u] = "push" /\ waking[u] = t
         BY <4>2, <4>4 DEF Heard, OnItsWay
      <4>6. \/ pc'[u] = "changed" /\ Hears(t, notify[u])'
            \/ t \in todo'[u]
            \/ pc'[u] = "push" /\ waking'[u] = t
         BY <4>1, <4>5, <2>1, <2>3, <2>4 DEF Hears
      <4> QED BY <4>6 DEF Heard, OnItsWay
    <3> QED BY <3>1 DEF AwaitedHeard, Awaited
  <2> QED BY <2>5, <2>6, <2>9, <2>10, <2>11, <2>13, <2>14, <2>15, <2>16 DEF WakeInv, WaitQueuesExact
<1> QED BY <1>1, <1>2

\* Nobody waits and nothing is queued at first.
LEMMA WakeInit == Init => WakeInv
<1> SUFFICES ASSUME Init PROVE WakeInv OBVIOUS
<1>1. TypeOK
  <2>1. op \in [Thread -> Calls] BY CallFacts DEF Init
  <2>2. pc \in [Thread -> PC] BY DEF Init, PC
  <2>3. level \in 0..Max /\ rest \in [Thread -> 0..Max] BY MaxAssumption DEF Init
  <2>4. queue \in Seq(Thread) BY DEF Init
  <2> QED BY <2>1, <2>2, <2>3, <2>4 DEF Init, TypeOK, Calls
<1>2. QueueIsSeen /\ EnqueuedExact /\ RegistrationsExact /\ PushesExact /\ TodoExact /\ LockHeld
   BY DEF Init, QueueIsSeen, EnqueuedExact, RegistrationsExact, PushesExact, TodoExact, LockHeld, Queued
<1>3. AwaitedHeard BY DEF Init, AwaitedHeard, Awaited, Waiting
<1>4. CallsExact BY CallFacts DEF Init, CallsExact, CallExact
<1> QED BY <1>1, <1>2, <1>3, <1>4 DEF WakeInv, WaitQueuesExact

\* Every step keeps WakeInv.
LEMMA WakeStep == WakeInv /\ [Next]_vars => WakeInv'
<1> SUFFICES ASSUME WakeInv, [Next]_vars PROVE WakeInv' OBVIOUS
<1>1. CASE UNCHANGED vars
  <2>1. TypeOK' /\ QueueIsSeen' /\ EnqueuedExact' /\ RegistrationsExact'
     BY <1>1 DEF vars, WakeInv, WaitQueuesExact, TypeOK, QueueIsSeen, EnqueuedExact,
        RegistrationsExact, Queued
  <2>2. CallsExact' BY <1>1 DEF vars, WakeInv, CallsExact, CallExact, Opened
  <2>3. LockHeld' /\ PushesExact' /\ TodoExact'
     BY <1>1 DEF vars, WakeInv, LockHeld, PushesExact, Queued, TodoExact
  <2>4. AwaitedHeard'
    BY <1>1, HeardKept, SameAnswers DEF WakeInv, AwaitedHeard, vars, fileVars, Awaited, Waiting
  <2> QED BY <2>1, <2>2, <2>3, <2>4 DEF WakeInv, WaitQueuesExact
<1>2. ASSUME NEW t \in Thread,
             \/ \E event \in Event, amount \in 0..Max : Call(t, event, amount)
             \/ \E event \in Event : Release(t, event)
             \/ \E call \in Polls : CallPoll(t, call)
             \/ Step(t) \/ Interrupt(t)
      PROVE  WakeInv'
   BY <1>2, CallActions, ReadAction, WriteActions, ReleaseAction, PollActions, RegisterAction,
      WaitActions, NotifyActions DEF Step
<1> QED BY <1>1, <1>2, DrainActions DEF Next

\* No wake-up is lost on its way through the wait queues, and their bookkeeping is
\* exact: for any number of threads, any capacity and any calls of poll and select.
THEOREM Wakeups == Spec => []WakeupsExact
<1>1. ASSUME WakeInv PROVE NoLostFileWake
  <2>1. ASSUME NEW t \in Thread, Due(t) PROVE Queued(t) \/ OnItsWay(t)
    <3>1. PICK e \in op[t].fds : PollAnswers(op[t], e) BY <2>1 DEF Due
    <3>2. Waiting(t) /\ unpolled[t] = {} BY <1>1, <2>1 DEF Due, Waiting, WakeInv, CallsExact, CallExact
    <3> QED BY <1>1, <3>1, <3>2 DEF WakeInv, AwaitedHeard, Awaited, Heard
  <2> QED BY <2>1 DEF NoLostFileWake
<1>2. WakeInv => WakeupsExact BY <1>1 DEF WakeInv, WakeupsExact
<1> QED BY <1>2, WakeInit, WakeStep, PTL DEF Spec
=============================================================================
