---------------------------- MODULE SignalProofs ----------------------------
(***************************************************************************)
(* Proofs about Signals, Timers, JobControl and Futex.                     *)
(*                                                                         *)
(*   - Signals: masks, alternate stacks and frames are put back, and no    *)
(*     thread sleeps on a signal it should take (SignalsHold);             *)
(*   - Timers: the deadline indices agree with the timers, and no tick is  *)
(*     lost or told twice (TimersHold);                                    *)
(*   - JobControl: a process group stays in one session, and a signal      *)
(*     queued for a group is not left behind (Jobs);                       *)
(*   - Futex: for any threads, words, values and bitsets the index and the *)
(*     armed entries stay exact (FutexIndex, FutexArmed), and with wakers  *)
(*     that wake everyone no sleeper is left behind (NoLostWakeup).        *)
(*                                                                         *)
(* The four share no state; each part states its inductive invariant,      *)
(* one lemma for each step, and the theorem.                               *)
(***************************************************************************)
EXTENDS Signals, Timers, JobControl, Futex, TLAPS,
        FiniteSetTheorems, SequenceTheorems, WellFoundedInduction

\* The Boolean fields of the records.
Flag == BOOLEAN

\* A nonempty set of numbers has a first element.
LEMMA HasLeast ==
    ASSUME NEW S, S \subseteq Nat, S # {}
    PROVE  \E x \in S : \A y \in S : x <= y
<1>1. IsWellFoundedOn(OpToRel(<, Nat), Nat)
  BY NatLessThanWellFounded, Zenon
<1>2. PICK x \in S : \A y \in S : ~(<<y, x>> \in OpToRel(<, Nat))
  BY <1>1, WFMin, Zenon
<1>3. \A y \in S : x <= y
  <2> SUFFICES ASSUME NEW y \in S PROVE x <= y
    OBVIOUS
  <2>1. x \in Nat /\ y \in Nat
    OBVIOUS
  <2>2. ~(<<y, x>> \in OpToRel(<, Nat))
    BY <1>2
  <2>3. ~(y < x)
    BY <2>1, <2>2 DEF OpToRel
  <2> QED BY <2>1, <2>3
<1> QED BY <1>3

---------------------------------------------------------------------------
(* Signals: the invariant of a thread                                      *)

Places == {"unborn", "table", "woken", "running", "blocking", "asleep", "gone"}
CallNames == {"none", "suspend", "nap", "io", "poll", "select", "epoll"}
MaskOf == SUBSET (Sig \ {SIGKILL, SIGSTOP})
OptMask == {{}} \cup {{m} : m \in MaskOf}
StackOn == [stack : {{x} : x \in AltStack}, auto : Flag]
AltOf == {Off} \cup StackOn
SpOf == {Main} \cup AltStack
FrameOf == [mask : MaskOf, alt : AltOf, sp : SpOf, fresh : SUBSET AltStack]
Results == {"none", "signal", "event", "timeout"}
ThreadOf == [place : Places, call : CallNames, mask : MaskOf, pending : SUBSET Sig,
             queued : Seq(Sig), suspend : OptMask, saved : OptMask, result : Results,
             alt : AltOf, sp : SpOf, frames : Seq(FrameOf),
             home : [mask : MaskOf, alt : AltOf], torn : Flag]

\* What a call has put aside is there while the call lasts, and no longer;
\* a woken sigsuspend has its mask back unless the group exits.
AsideExact(st, exit) ==
    /\ st.call # "suspend" => st.suspend = {}
    /\ st.call \notin Polls => st.saved = {}
    /\ st.place \in {"unborn", "table", "running"} => st.call = "none"
    /\ st.place = "woken" /\ st.call = "suspend" /\ ~exit => st.suspend = {}
\* Put together, the thread and what it has put aside are what the program set.
HomeMask(st) ==
    /\ st.suspend = {} /\ st.saved = {} => st.mask = st.home.mask
    /\ st.suspend # {} => st.suspend = {st.home.mask}
    /\ st.saved # {} => st.saved = {st.home.mask}
HomeKept(st) ==
    IF st.frames = <<>> THEN HomeMask(st) /\ (st.alt = st.home.alt \/ st.torn)
    ELSE st.frames[1].mask = st.home.mask /\ (st.frames[1].alt = st.home.alt \/ st.torn)
\* An alternate stack that holds a frame is used only from that stack itself:
\* by the thread, and by each frame of the ones below it.
StacksKept(st) ==
    /\ \A i \in DOMAIN st.frames : st.alt.stack \cap st.frames[i].fresh # {} => st.sp \in st.alt.stack
    /\ \A i, k \in DOMAIN st.frames :
          i < k => /\ st.frames[i].fresh \cap st.frames[k].fresh = {}
                   /\ st.frames[k].alt.stack \cap st.frames[i].fresh # {}
                         => st.frames[k].sp \in st.frames[k].alt.stack
Quiet(st) ==
    st.place \in {"blocking", "asleep"} /\ st.call \in {"suspend"} \cup Polls => ~HasDeliverable(st)

Core(st) == st \in ThreadOf /\ HomeKept(st) /\ StacksKept(st)
ThreadInv(st, exit) == Core(st) /\ AsideExact(st, exit) /\ Quiet(st)
SigInv ==
    /\ sigs \in [SigThread -> ThreadOf]
    /\ sigaction \in [Sig -> SigActions \cup {DefaultAction}]
    /\ groupExit \in BOOLEAN
    /\ \A t \in SigThread : ThreadInv(sigs[t], groupExit)

---------------------------------------------------------------------------
(* Fields of the records the steps build                                   *)

\* What a step of a thread outside delivery leaves alone.
Level(st) == <<st.alt, st.sp, st.frames, st.home, st.torn>>
Rest(st) == <<st.mask, st.suspend, st.saved>>

LEMMA PlaceSet ==
    ASSUME NEW st \in ThreadOf, NEW p \in Places, NEW n, n = [st EXCEPT !.place = p]
    PROVE  /\ n \in ThreadOf /\ n.place = p /\ n.call = st.call /\ Level(n) = Level(st) /\ Rest(n) = Rest(st)
           /\ n.pending = st.pending /\ n.queued = st.queued
  BY DEF ThreadOf, Level, Rest
LEMMA WokenSet ==
    ASSUME NEW st \in ThreadOf, NEW r \in Results, NEW n, n = [st EXCEPT !.place = "woken", !.result = r]
    PROVE  /\ n \in ThreadOf /\ n.place = "woken" /\ n.call = st.call /\ Level(n) = Level(st) /\ Rest(n) = Rest(st)
           /\ n.pending = st.pending
  BY DEF Places, ThreadOf, Level, Rest
LEMMA ReturnedSet ==
    ASSUME NEW st \in ThreadOf
    PROVE  /\ Returned(st) \in ThreadOf /\ Returned(st).place = "table" /\ Returned(st).call = "none"
           /\ Level(Returned(st)) = Level(st) /\ Rest(Returned(st)) = Rest(st)
           /\ Returned(st).pending = st.pending
  BY DEF Places, CallNames, ThreadOf, Level, Rest, Returned
LEMMA BlockingSet ==
    ASSUME NEW st \in ThreadOf, NEW c \in CallNames
    PROVE  /\ Blocking(st, c) \in ThreadOf /\ Blocking(st, c).place = "blocking" /\ Blocking(st, c).call = c
           /\ Level(Blocking(st, c)) = Level(st) /\ Rest(Blocking(st, c)) = Rest(st)
           /\ Blocking(st, c).pending = st.pending
  BY DEF Places, Results, ThreadOf, Level, Rest, Blocking
LEMMA PendingSet ==
    ASSUME NEW st \in ThreadOf, NEW p \in SUBSET Sig, NEW n, n = [st EXCEPT !.pending = p]
    PROVE  /\ n \in ThreadOf /\ n.place = st.place /\ n.call = st.call /\ Level(n) = Level(st)
           /\ Rest(n) = Rest(st) /\ n.pending = p
  BY DEF ThreadOf, Level, Rest
LEMMA QueuedSet ==
    ASSUME NEW st \in ThreadOf, NEW q \in Seq(Sig), NEW n, n = [st EXCEPT !.queued = q]
    PROVE  /\ n \in ThreadOf /\ n.place = st.place /\ n.call = st.call /\ Level(n) = Level(st)
           /\ Rest(n) = Rest(st) /\ n.pending = st.pending
  BY DEF ThreadOf, Level, Rest

\* Fields out of the tuples.
LEMMA LevelRest ==
    ASSUME NEW n, NEW st
    PROVE  /\ Level(n) = Level(st) => /\ n.alt = st.alt /\ n.sp = st.sp /\ n.frames = st.frames
                                      /\ n.home = st.home /\ n.torn = st.torn
           /\ Rest(n) = Rest(st) => n.mask = st.mask /\ n.suspend = st.suspend /\ n.saved = st.saved
  BY DEF Level, Rest

\* A thread that keeps its level, and its mask or what it put aside of it,
\* keeps the invariant.
LEMMA Carry ==
    ASSUME NEW st, Core(st), NEW n \in ThreadOf, Level(n) = Level(st), HomeMask(st) => HomeMask(n)
    PROVE  Core(n)
<1>1. n.alt = st.alt /\ n.sp = st.sp /\ n.frames = st.frames /\ n.home = st.home /\ n.torn = st.torn
  BY LevelRest
<1>2. StacksKept(n)
  BY <1>1 DEF Core, StacksKept
<1>3. HomeKept(n)
  BY <1>1 DEF Core, HomeKept
<1> QED BY <1>2, <1>3 DEF Core
LEMMA CarryMask ==
    ASSUME NEW st, Core(st), NEW n \in ThreadOf, Level(n) = Level(st), Rest(n) = Rest(st)
    PROVE  Core(n)
  BY LevelRest, Carry DEF HomeMask

LEMMA CoreFacts ==
    ASSUME NEW st, Core(st)
    PROVE  /\ st \in ThreadOf /\ st.place \in Places /\ st.call \in CallNames /\ st.mask \in MaskOf
           /\ st.pending \in SUBSET Sig /\ st.queued \in Seq(Sig) /\ st.suspend \in OptMask /\ st.saved \in OptMask
           /\ st.alt \in AltOf /\ st.sp \in SpOf /\ st.frames \in Seq(FrameOf)
  BY DEF Core, ThreadOf

---------------------------------------------------------------------------
(* What becomes of one thread                                              *)

LEMMA GoneKeeps ==
    ASSUME NEW st, NEW e, NEW d, ThreadInv(st, e)
    PROVE  ThreadInv([st EXCEPT !.place = "gone"], d)
<1> DEFINE n == [st EXCEPT !.place = "gone"]
<1>1. Core(st) /\ st \in ThreadOf /\ AsideExact(st, e) /\ "gone" \in Places
  BY DEF ThreadInv, Core, Places
<1>2. /\ n \in ThreadOf /\ n.place = "gone" /\ n.call = st.call /\ Level(n) = Level(st) /\ Rest(n) = Rest(st)
  BY <1>1, PlaceSet
<1> HIDE DEF n
<1>3. Core(n) /\ n.suspend = st.suspend /\ n.saved = st.saved
  BY <1>1, <1>2, CarryMask, LevelRest
<1>4. AsideExact(n, d) /\ Quiet(n)
  BY <1>1, <1>2, <1>3 DEF AsideExact, Quiet
<1> QED BY <1>3, <1>4 DEF ThreadInv, n

\* The thread leaves the CPU, at the end of its time or asleep.
LEMMA OffCpuKeeps ==
    ASSUME NEW st, NEW e, ThreadInv(st, e), NEW p \in Places,
           \/ st.place = "running" /\ p = "table"
           \/ st.place = "table" /\ p = "running"
           \/ st.place = "blocking" /\ p = "asleep"
    PROVE  ThreadInv([st EXCEPT !.place = p], e)
<1> DEFINE n == [st EXCEPT !.place = p]
<1>1. Core(st) /\ st \in ThreadOf /\ AsideExact(st, e) /\ Quiet(st)
  BY DEF ThreadInv, Core
<1>2. /\ n \in ThreadOf /\ n.place = p /\ n.call = st.call /\ Level(n) = Level(st) /\ Rest(n) = Rest(st)
      /\ n.pending = st.pending
  BY <1>1, PlaceSet
<1> HIDE DEF n
<1>3. Core(n) /\ n.suspend = st.suspend /\ n.saved = st.saved /\ n.mask = st.mask
  BY <1>1, <1>2, CarryMask, LevelRest
<1>4. AsideExact(n, e) /\ Quiet(n)
  BY <1>1, <1>2, <1>3 DEF AsideExact, Quiet, HasDeliverable, Deliverable
<1> QED BY <1>3, <1>4 DEF ThreadInv, n

LEMMA WokenKeeps ==
    ASSUME NEW st, NEW e, ThreadInv(st, e), NEW r \in Results, NEW d, d \/ st.suspend = {}
    PROVE  ThreadInv([st EXCEPT !.place = "woken", !.result = r], d)
<1> DEFINE n == [st EXCEPT !.place = "woken", !.result = r]
<1>1. Core(st) /\ st \in ThreadOf /\ AsideExact(st, e)
  BY DEF ThreadInv, Core
<1>2. /\ n \in ThreadOf /\ n.place = "woken" /\ n.call = st.call /\ Level(n) = Level(st) /\ Rest(n) = Rest(st)
  BY <1>1, WokenSet
<1> HIDE DEF n
<1>3. Core(n) /\ n.suspend = st.suspend /\ n.saved = st.saved /\ n.mask = st.mask
  BY <1>1, <1>2, CarryMask, LevelRest
<1>4. AsideExact(n, d) /\ Quiet(n)
  BY <1>1, <1>2, <1>3 DEF AsideExact, Quiet
<1> QED BY <1>3, <1>4 DEF ThreadInv, n

LEMMA WakenedKeeps ==
    ASSUME NEW st, NEW e, ThreadInv(st, e)
    PROVE  ThreadInv(Wakened(st), TRUE)
  BY WokenKeeps DEF Results, Wakened, ThreadInv, AsideExact

\* A call that has put everything back returns.
LEMMA ReturnedKeeps ==
    ASSUME NEW st, Core(st), st.suspend = {}, st.saved = {}, NEW e
    PROVE  ThreadInv(Returned(st), e)
<1> DEFINE n == Returned(st)
<1>1. /\ n \in ThreadOf /\ n.place = "table" /\ n.call = "none" /\ Level(n) = Level(st) /\ Rest(n) = Rest(st)
  BY ReturnedSet DEF Core
<1> HIDE DEF n
<1>2. Core(n) /\ n.suspend = {} /\ n.saved = {}
  BY <1>1, CarryMask, LevelRest
<1>3. AsideExact(n, e) /\ Quiet(n)
  BY <1>1, <1>2 DEF AsideExact, Quiet, Polls
<1> QED BY <1>2, <1>3 DEF ThreadInv, n

LEMMA BlockingKeeps ==
    ASSUME NEW st, Core(st), NEW c \in CallNames \ {"none"}, NEW e,
           c # "suspend" => st.suspend = {}, c \notin Polls => st.saved = {},
           c \in {"suspend"} \cup Polls => ~HasDeliverable(st)
    PROVE  ThreadInv(Blocking(st, c), e)
<1> DEFINE n == Blocking(st, c)
<1>1. /\ n \in ThreadOf /\ n.place = "blocking" /\ n.call = c /\ Level(n) = Level(st) /\ Rest(n) = Rest(st)
      /\ n.pending = st.pending
  BY BlockingSet DEF Core
<1> HIDE DEF n
<1>2. Core(n) /\ n.suspend = st.suspend /\ n.saved = st.saved /\ n.mask = st.mask
  BY <1>1, CarryMask, LevelRest
<1>3. AsideExact(n, e) /\ Quiet(n)
  BY <1>1, <1>2 DEF AsideExact, Quiet, HasDeliverable, Deliverable
<1> QED BY <1>2, <1>3 DEF ThreadInv, n

LEMMA SanitizeFacts ==
    ASSUME NEW m \in SUBSET Sig
    PROVE  Sanitize(m) \in MaskOf
  BY DEF Sanitize, MaskOf
LEMMA SanitizeSame ==
    ASSUME NEW m \in MaskOf
    PROVE  Sanitize(m) = m
  BY DEF Sanitize, MaskOf
LEMMA OptCases ==
    ASSUME NEW o \in OptMask
    PROVE  o = {} \/ \E m \in MaskOf : o = {m} /\ (CHOOSE x \in o : TRUE) = m
  BY DEF OptMask

\* A thread without its suspended mask, or its saved one, has its own again.
LEMMA LeftSuspendCore ==
    ASSUME NEW st, Core(st), st.saved = {}
    PROVE  /\ Core(LeftSuspend(st)) /\ LeftSuspend(st).suspend = {} /\ LeftSuspend(st).saved = {}
           /\ LeftSuspend(st).call = st.call /\ LeftSuspend(st).place = st.place
<1> DEFINE own == IF st.suspend = {} THEN st.mask ELSE CHOOSE m \in st.suspend : TRUE
           n == [st EXCEPT !.mask = own, !.suspend = {}]
<1>1. st \in ThreadOf /\ st.suspend \in OptMask /\ st.mask \in MaskOf /\ {} \in OptMask
  BY CoreFacts DEF OptMask
<1>2. own \in MaskOf /\ (st.suspend = {} => own = st.mask) /\ (st.suspend # {} => st.suspend = {own})
  BY <1>1, OptCases
<1>3. LeftSuspend(st) = n
  BY DEF LeftSuspend
<1> HIDE DEF own
<1>4. /\ n \in ThreadOf /\ n.mask = own /\ n.suspend = {} /\ n.saved = st.saved /\ Level(n) = Level(st)
      /\ n.call = st.call /\ n.place = st.place
  BY <1>1, <1>2 DEF ThreadOf, Level
<1> HIDE DEF n
<1>5. n.home = st.home
  BY <1>4, LevelRest
<1>6. HomeMask(st) => HomeMask(n)
  BY <1>2, <1>4, <1>5 DEF HomeMask
<1> QED BY <1>3, <1>4, <1>6, Carry

LEMMA PollRestoredKeeps ==
    ASSUME NEW st, Core(st), st.suspend = {}, NEW e
    PROVE  ThreadInv(PollRestored(st), e)
<1> DEFINE own == IF st.saved = {} THEN st.mask ELSE CHOOSE m \in st.saved : TRUE
           n == [st EXCEPT !.mask = own, !.saved = {}]
<1>1. st \in ThreadOf /\ st.saved \in OptMask /\ st.mask \in MaskOf /\ {} \in OptMask
  BY CoreFacts DEF OptMask
<1>2. own \in MaskOf /\ (st.saved = {} => own = st.mask) /\ (st.saved # {} => st.saved = {own})
  BY <1>1, OptCases
<1>3. PollRestored(st) = Returned(n)
  BY DEF PollRestored
<1> HIDE DEF own
<1>4. /\ n \in ThreadOf /\ n.mask = own /\ n.saved = {} /\ n.suspend = st.suspend /\ Level(n) = Level(st)
  BY <1>1, <1>2 DEF ThreadOf, Level
<1> HIDE DEF n
<1>5. n.home = st.home
  BY <1>4, LevelRest
<1>6. HomeMask(st) => HomeMask(n)
  BY <1>2, <1>4, <1>5 DEF HomeMask
<1>7. Core(n)
  BY <1>4, <1>6, Carry
<1> QED BY <1>3, <1>4, <1>7, ReturnedKeeps

LEMMA TurnKeeps ==
    ASSUME NEW st, Core(st), st.suspend = {}, st.call \in Polls, NEW next \in TurnOf(st), NEW e
    PROVE  ThreadInv(next, e)
  BY PollRestoredKeeps, BlockingKeeps DEF TurnOf, SelectTurn, EpollTurn, Polls, CallNames, PollTurn

\* A signal becomes pending.
LEMMA EnqueuedFacts ==
    ASSUME NEW p \in SUBSET Sig, NEW s \in Sig
    PROVE  Enqueued(p, s) \in SUBSET Sig
  BY DEF Enqueued
LEMMA EnqueuedAllFacts ==
    ASSUME NEW p \in SUBSET Sig, NEW q \in Seq(Sig)
    PROVE  EnqueuedAll(p, q) \in SUBSET Sig
  BY DEF EnqueuedAll

LEMMA NotifiedKeeps ==
    ASSUME NEW st, NEW e, ThreadInv(st, e), NEW s \in Sig, InTable(st)
    PROVE  ThreadInv(Notified(st, s), e)
<1> DEFINE hit == [st EXCEPT !.pending = Enqueued(st.pending, s)]
<1>1. Core(st) /\ st \in ThreadOf /\ AsideExact(st, e) /\ Quiet(st)
  BY DEF ThreadInv, Core
<1>2. Enqueued(st.pending, s) \in SUBSET Sig
  BY <1>1, CoreFacts, EnqueuedFacts
<1>3. /\ hit \in ThreadOf /\ hit.place = st.place /\ hit.call = st.call /\ Level(hit) = Level(st)
      /\ Rest(hit) = Rest(st)
  BY <1>1, <1>2, PendingSet
<1>4. Notified(st, s) = IF st.place = "asleep" /\ HasDeliverable(hit) /\ st.call \in {"suspend", "nap"} \cup Polls
                        THEN IF st.call = "suspend" THEN SuspendEnded(hit)
                             ELSE [hit EXCEPT !.place = "woken", !.result = "signal"]
                        ELSE hit
  BY DEF Notified
<1> HIDE DEF hit
<1>5. Core(hit) /\ hit.suspend = st.suspend /\ hit.saved = st.saved
  BY <1>1, <1>3, CarryMask, LevelRest
<1>6. AsideExact(hit, e)
  BY <1>1, <1>3, <1>5 DEF AsideExact
<1>7. "signal" \in Results
  BY DEF Results
<1>8. CASE st.place = "asleep" /\ HasDeliverable(hit) /\ st.call = "suspend"
  <2> DEFINE left == LeftSuspend(hit)
  <2>1. st.saved = {}
    BY <1>1, <1>8 DEF AsideExact, Polls
  <2>2. Core(left) /\ left.suspend = {} /\ left.saved = {} /\ left.call = "suspend" /\ left.place = "asleep"
    BY <1>3, <1>5, <1>8, <2>1, LeftSuspendCore
  <2> DEFINE n == [left EXCEPT !.place = "woken", !.result = "signal"]
  <2>3. Notified(st, s) = n
    BY <1>4, <1>8, Zenon DEF SuspendEnded
  <2> HIDE DEF left
  <2>4. n \in ThreadOf /\ n.place = "woken" /\ n.call = left.call /\ Level(n) = Level(left) /\ Rest(n) = Rest(left)
    BY <1>7, <2>2, WokenSet, ZenonT(40) DEF Core
  <2> HIDE DEF n
  <2>5. Core(n) /\ n.suspend = {} /\ n.saved = {}
    BY <2>2, <2>4, CarryMask, LevelRest
  <2>6. AsideExact(n, e) /\ Quiet(n)
    BY <2>2, <2>4, <2>5 DEF AsideExact, Quiet
  <2> QED BY <2>3, <2>5, <2>6 DEF ThreadInv
<1>9. CASE st.place = "asleep" /\ HasDeliverable(hit) /\ st.call \in {"nap"} \cup Polls
  <2> DEFINE n == [hit EXCEPT !.place = "woken", !.result = "signal"]
  <2>0. st.call # "suspend" /\ st.call \in {"suspend", "nap"} \cup Polls
    BY <1>9 DEF Polls
  <2>1. Notified(st, s) = n
    BY <1>4, <1>9, <2>0, Zenon
  <2>2. n \in ThreadOf /\ n.place = "woken" /\ n.call = hit.call /\ Level(n) = Level(hit) /\ Rest(n) = Rest(hit)
    BY <1>3, <1>7, WokenSet
  <2> HIDE DEF n
  <2>3. Core(n) /\ n.suspend = hit.suspend /\ n.saved = hit.saved
    BY <1>5, <2>2, CarryMask, LevelRest
  <2>4. AsideExact(n, e) /\ Quiet(n)
    BY <1>3, <1>6, <2>0, <2>2, <2>3 DEF AsideExact, Quiet
  <2> QED BY <2>1, <2>3, <2>4 DEF ThreadInv
<1>10. CASE ~(st.place = "asleep" /\ HasDeliverable(hit) /\ st.call \in {"suspend", "nap"} \cup Polls)
  BY <1>4, <1>10, <1>3, <1>5, <1>6 DEF Quiet, InTable, ThreadInv
<1> QED BY <1>8, <1>9, <1>10

LEMMA ParkedKeeps ==
    ASSUME NEW st, NEW e, ThreadInv(st, e), NEW s \in Sig
    PROVE  ThreadInv(Parked(st, s), e)
<1> DEFINE q == Append(st.queued, s)
           n == [st EXCEPT !.queued = q]
<1>1. Core(st) /\ st \in ThreadOf /\ AsideExact(st, e) /\ Quiet(st)
  BY DEF ThreadInv, Core
<1>2. q \in Seq(Sig)
  BY <1>1, CoreFacts
<1> HIDE DEF q
<1>3. /\ n \in ThreadOf /\ n.place = st.place /\ n.call = st.call /\ Level(n) = Level(st)
      /\ Rest(n) = Rest(st) /\ n.pending = st.pending
  BY <1>1, <1>2, QueuedSet
<1> HIDE DEF n
<1>4. Core(n) /\ n.suspend = st.suspend /\ n.saved = st.saved /\ n.mask = st.mask
  BY <1>1, <1>3, CarryMask, LevelRest
<1>5. AsideExact(n, e) /\ Quiet(n)
  BY <1>1, <1>3, <1>4 DEF AsideExact, Quiet, HasDeliverable, Deliverable
<1> QED BY <1>4, <1>5 DEF ThreadInv, n, q, Parked

\* The side queue is merged: nothing else changes.
LEMMA DrainedCore ==
    ASSUME NEW st, Core(st)
    PROVE  /\ Core(Drained(st)) /\ Drained(st).place = st.place /\ Drained(st).call = st.call
           /\ Level(Drained(st)) = Level(st) /\ Rest(Drained(st)) = Rest(st)
<1> DEFINE p == EnqueuedAll(st.pending, st.queued)
           n == [st EXCEPT !.pending = p, !.queued = <<>>]
<1>1. st \in ThreadOf /\ p \in SUBSET Sig /\ <<>> \in Seq(Sig)
  BY CoreFacts, EnqueuedAllFacts
<1>2. Drained(st) = n
  BY DEF Drained
<1> HIDE DEF p
<1>3. /\ n \in ThreadOf /\ n.place = st.place /\ n.call = st.call /\ Level(n) = Level(st) /\ Rest(n) = Rest(st)
  BY <1>1 DEF ThreadOf, Level, Rest
<1> HIDE DEF n
<1> QED BY <1>2, <1>3, CarryMask

---------------------------------------------------------------------------
(* Handlers                                                                *)

LEMMA AltFacts ==
    ASSUME NEW alt \in AltOf
    PROVE  /\ alt = Off => alt.stack = {}
           /\ alt # Off => \E x \in AltStack : alt.stack = {x} /\ (CHOOSE y \in alt.stack : TRUE) = x
           /\ alt.stack \in SUBSET AltStack /\ Off \in AltOf
  BY DEF Off, AltOf, StackOn

\* setup_frame: what a handler that starts makes of the thread.
LEMMA DeliveredCore ==
    ASSUME NEW st, Core(st), st.suspend = {}, st.saved = {}, st.call = "none",
           NEW s \in Sig, NEW a, a.mask \subseteq Sig, NEW e
    PROVE  ThreadInv(Delivered(st, s, a), e)
<1> DEFINE up == UsesAltstack(st, a)
           frame == [mask |-> st.mask, alt |-> st.alt, sp |-> st.sp,
                     fresh |-> IF up THEN st.alt.stack ELSE {}]
           pending == st.pending \ {s}
           frames == Append(st.frames, frame)
           sp == IF up THEN CHOOSE x \in st.alt.stack : TRUE ELSE st.sp
           alt == DisarmedFor(st, a)
           mask == Sanitize(st.mask \cup a.mask \cup IF a.nodefer THEN {} ELSE {s})
           n == [st EXCEPT !.pending = pending, !.frames = frames, !.sp = sp, !.alt = alt,
                           !.mask = mask, !.place = "running"]
<1>1. Delivered(st, s, a) = n
  BY DEF Delivered
<1>2. /\ st \in ThreadOf /\ st.mask \in MaskOf /\ st.pending \in SUBSET Sig /\ st.alt \in AltOf
      /\ st.sp \in SpOf /\ st.frames \in Seq(FrameOf) /\ "running" \in Places
  BY CoreFacts DEF Places
<1>3. up => /\ st.alt # Off /\ st.sp \notin st.alt.stack
            /\ \E x \in AltStack : st.alt.stack = {x} /\ sp = x
  BY <1>2, AltFacts DEF UsesAltstack, Contains
<1>4. sp \in SpOf /\ (up => sp \in st.alt.stack) /\ (~up => sp = st.sp)
  BY <1>2, <1>3 DEF SpOf
<1>5. alt \in AltOf /\ (alt = st.alt \/ (up /\ alt.stack = {}))
  BY <1>2, AltFacts DEF DisarmedFor
<1>6. mask \in MaskOf
  BY <1>2, SanitizeFacts DEF MaskOf
<1>7. /\ frame \in FrameOf /\ frame.mask = st.mask /\ frame.alt = st.alt /\ frame.sp = st.sp
      /\ frame.fresh = IF up THEN st.alt.stack ELSE {}
  <2> DEFINE fresh == IF up THEN st.alt.stack ELSE {}
  <2>1. fresh \in SUBSET AltStack
    BY <1>2, AltFacts
  <2> HIDE DEF fresh, up
  <2>2. frame = [mask |-> st.mask, alt |-> st.alt, sp |-> st.sp, fresh |-> fresh]
    BY DEF fresh
  <2> HIDE DEF frame
  <2>3. frame \in FrameOf /\ frame.mask = st.mask /\ frame.alt = st.alt /\ frame.sp = st.sp /\ frame.fresh = fresh
    BY <1>2, <2>1, <2>2 DEF FrameOf
  <2> QED BY <2>3 DEF fresh
<1>8. pending \in SUBSET Sig
  BY <1>2
<1> HIDE DEF up, frame, sp, alt, mask, pending
<1>9. /\ frames \in Seq(FrameOf) /\ Len(frames) = Len(st.frames) + 1 /\ Len(st.frames) \in Nat
      /\ DOMAIN frames = 1..(Len(st.frames) + 1) /\ DOMAIN st.frames = 1..Len(st.frames)
      /\ \A i \in DOMAIN st.frames : frames[i] = st.frames[i]
      /\ frames[Len(st.frames) + 1] = frame
  BY <1>2, <1>7
<1> HIDE DEF frames
<1>10. /\ n \in ThreadOf /\ n.place = "running" /\ n.call = st.call /\ n.suspend = st.suspend /\ n.saved = st.saved
       /\ n.home = st.home /\ n.torn = st.torn /\ n.alt = alt /\ n.sp = sp /\ n.frames = frames
  BY <1>2, <1>4, <1>5, <1>6, <1>8, <1>9 DEF ThreadOf
<1> HIDE DEF n
<1> DEFINE last == Len(st.frames) + 1
<1>11. StacksKept(st) /\ HomeKept(st)
  BY DEF Core
<1>12. \A i \in DOMAIN st.frames : up => st.alt.stack \cap st.frames[i].fresh = {}
  BY <1>3, <1>11 DEF StacksKept
<1>13. \A i \in DOMAIN frames : i \in DOMAIN st.frames \/ (i = last /\ frames[i] = frame)
  BY <1>9
<1>14. \A i \in DOMAIN frames : alt.stack \cap frames[i].fresh # {} => sp \in alt.stack
  BY <1>5, <1>4, <1>7, <1>13, <1>9, <1>11 DEF StacksKept
<1>15. ASSUME NEW i \in DOMAIN frames, NEW k \in DOMAIN frames, i < k
       PROVE  /\ frames[i].fresh \cap frames[k].fresh = {}
              /\ frames[k].alt.stack \cap frames[i].fresh # {} => frames[k].sp \in frames[k].alt.stack
  BY <1>9, <1>15, <1>11, <1>7, <1>12, <1>13 DEF StacksKept
<1>16. StacksKept(n)
  BY <1>10, <1>14, <1>15 DEF StacksKept
<1>17. HomeKept(n)
  BY <1>9, <1>11, <1>7, <1>10, <1>2 DEF HomeKept, HomeMask
<1>18. AsideExact(n, e) /\ Quiet(n)
  BY <1>10 DEF AsideExact, Quiet
<1> QED BY <1>1, <1>10, <1>16, <1>17, <1>18 DEF ThreadInv, Core

LEMMA SigReturnKeeps ==
    ASSUME NEW st, Core(st), st.suspend = {}, st.saved = {}, st.frames # <<>>, NEW e
    PROVE  ThreadInv(Returned([SigReturned(st, st.frames[Len(st.frames)]) EXCEPT
                                  !.frames = SubSeq(st.frames, 1, Len(st.frames) - 1)]), e)
<1> DEFINE last == Len(st.frames)
           f == st.frames[last]
           frames == SubSeq(st.frames, 1, last - 1)
           mask == Sanitize(f.mask)
           half == [st EXCEPT !.mask = mask, !.sp = f.sp, !.alt = f.alt]
           n == [half EXCEPT !.frames = frames]
<1>1. st \in ThreadOf /\ st.frames \in Seq(FrameOf)
  BY CoreFacts
<1>2. last \in Nat \ {0} /\ DOMAIN st.frames = 1..last /\ f \in FrameOf
  BY <1>1
<1>3. f.mask \in MaskOf /\ f.alt \in AltOf /\ f.sp \in SpOf /\ mask = f.mask
  BY <1>2, SanitizeSame DEF FrameOf
<1>4. /\ frames \in Seq(FrameOf) /\ DOMAIN frames = 1..(last - 1)
      /\ \A i \in DOMAIN frames : frames[i] = st.frames[i]
      /\ frames = <<>> <=> last = 1
  <2>1. 1 \in 1..(last + 1) /\ last - 1 \in 0..last
    BY <1>2
  <2>2. \A i \in 1..(last - 1) : st.frames[i] \in FrameOf
    BY <1>1, <1>2
  <2>3. /\ frames \in Seq(FrameOf) /\ Len(frames) = last - 1
        /\ \A i \in 1..(last - 1) : frames[i] = st.frames[i]
    BY <1>1, <1>2, <2>1, <2>2, SubSeqProperties
  <2> HIDE DEF frames, last
  <2> QED BY <1>2, <2>3
<1>5. SigReturned(st, f) = half
  BY DEF SigReturned
<1> HIDE DEF mask, frames
<1>6. /\ half \in ThreadOf /\ half.mask = mask /\ half.alt = f.alt /\ half.sp = f.sp
      /\ half.suspend = st.suspend /\ half.saved = st.saved /\ half.home = st.home /\ half.torn = st.torn
  BY <1>1, <1>3 DEF ThreadOf
<1> HIDE DEF half
<1>7. /\ n \in ThreadOf /\ n.mask = mask /\ n.alt = f.alt /\ n.sp = f.sp /\ n.frames = frames
      /\ n.suspend = {} /\ n.saved = {} /\ n.home = st.home /\ n.torn = st.torn
  BY <1>4, <1>6 DEF ThreadOf
<1>8. StacksKept(st) /\ HomeKept(st)
  BY DEF Core
<1>9. \A i \in DOMAIN frames : i \in DOMAIN st.frames /\ i < last /\ last \in DOMAIN st.frames
  BY <1>2, <1>4
<1> HIDE DEF n
<1>10. StacksKept(n)
  <2>1. \A i \in DOMAIN frames : f.alt.stack \cap frames[i].fresh # {} => f.sp \in f.alt.stack
    BY <1>4, <1>8, <1>9 DEF StacksKept
  <2>2. \A i, k \in DOMAIN frames :
          i < k => /\ frames[i].fresh \cap frames[k].fresh = {}
                   /\ frames[k].alt.stack \cap frames[i].fresh # {} => frames[k].sp \in frames[k].alt.stack
    BY <1>4, <1>8, <1>9 DEF StacksKept
  <2> QED BY <1>7, <2>1, <2>2 DEF StacksKept
<1>11. HomeKept(n)
  BY <1>8, <1>3, <1>4, <1>7, <1>2 DEF HomeKept, HomeMask
<1>12. ThreadInv(Returned(n), e)
  BY <1>7, <1>10, <1>11, ReturnedKeeps DEF Core
<1>13. n = [SigReturned(st, st.frames[Len(st.frames)]) EXCEPT !.frames = SubSeq(st.frames, 1, Len(st.frames) - 1)]
  BY <1>5 DEF n, frames
<1> QED BY <1>12, <1>13

---------------------------------------------------------------------------
(* The steps of Signals                                                    *)

ActionsOf == [Sig -> SigActions \cup {DefaultAction}]
LEMMA ThreadStep ==
    ASSUME SigInv, NEW t \in SigThread, NEW n, ThreadInv(n, groupExit),
           sigs' = [sigs EXCEPT ![t] = n], groupExit' = groupExit, sigaction' \in ActionsOf
    PROVE  SigInv'
  BY DEF ThreadInv, Core, SigInv, ActionsOf

\* What is known of a thread at a step.
LEMMA AtStep ==
    ASSUME SigInv, NEW t \in SigThread
    PROVE  /\ ThreadInv(sigs[t], groupExit) /\ Core(sigs[t]) /\ AsideExact(sigs[t], groupExit)
           /\ sigs[t] \in ThreadOf /\ sigaction \in ActionsOf /\ sigs \in [SigThread -> ThreadOf]
  BY DEF SigInv, ThreadInv, Core, ActionsOf

LEMMA SendKeeps ==
    ASSUME SigInv, NEW t \in SigThread, NEW s \in Sig, SendTo(t, s)
    PROVE  SigInv'
<1>1. ThreadInv(sigs[t], groupExit) /\ sigaction \in ActionsOf
  BY AtStep
<1>2. CASE InTable(sigs[t])
  BY <1>2, <1>1, NotifiedKeeps, ThreadStep DEF SendTo
<1>3. CASE ~InTable(sigs[t])
  <2> DEFINE n == Parked(sigs[t], s)
  <2>1. sigs' = [sigs EXCEPT ![t] = n]
    BY <1>3 DEF SendTo
  <2>2. ThreadInv(n, groupExit)
    BY <1>1, ParkedKeeps
  <2> HIDE DEF n
  <2> QED BY <1>1, <2>1, <2>2, ThreadStep DEF SendTo
<1> QED BY <1>2, <1>3

LEMMA KillKeeps ==
    ASSUME SigInv, NEW s \in Sig, Kill(s)
    PROVE  SigInv'
  BY SignalsAssumption, SendKeeps DEF Kill, GroupTargets

LEMMA DieKeeps ==
    ASSUME SigInv, NEW t \in SigThread, DieBySignal(t), sigaction' = sigaction
    PROVE  SigInv'
<1>1. \A u \in SigThread : ThreadInv(sigs[u], groupExit)
  BY DEF SigInv
<1> DEFINE gone(u) == [sigs[u] EXCEPT !.place = "gone"]
<1>2. \A u \in SigThread : /\ ThreadInv(gone(u), groupExit) /\ ThreadInv(gone(u), TRUE)
                           /\ ThreadInv(Wakened(sigs[u]), TRUE)
  BY <1>1, GoneKeeps, WakenedKeeps
<1>3. CASE t = Leader
  <2>1. sigs' = [sigs EXCEPT ![t] = gone(t)] /\ groupExit' = groupExit
    BY <1>3 DEF DieBySignal
  <2>2. sigaction' \in ActionsOf
    BY DEF SigInv, ActionsOf
  <2> HIDE DEF gone
  <2> QED BY <1>2, <2>1, <2>2, ThreadStep
<1>4. CASE t # Leader
  <2>1. sigs' = [u \in SigThread |-> IF u = t THEN gone(u) ELSE Wakened(sigs[u])] /\ groupExit' = TRUE
    BY <1>4 DEF DieBySignal
  <2> HIDE DEF gone
  <2>2. \A u \in SigThread : ThreadInv(sigs'[u], TRUE)
    BY <1>2, <2>1
  <2>3. \A u \in SigThread : sigs'[u] \in ThreadOf
    BY <2>2 DEF ThreadInv, Core
  <2>4. sigs' \in [SigThread -> ThreadOf]
    BY <2>1, <2>3
  <2> QED BY <2>1, <2>2, <2>4 DEF SigInv
<1> QED BY <1>3, <1>4

LEMMA NextSignalIn ==
    ASSUME NEW st, st.pending \in SUBSET Sig, HasDeliverable(st)
    PROVE  NextSignal(st) \in Sig
<1> DEFINE set == Deliverable(st)
<1>1. set # {} /\ set \subseteq Nat /\ set \subseteq Sig
  BY SignalsAssumption DEF HasDeliverable, Deliverable
<1> HIDE DEF set
<1>2. PICK s \in set : \A o \in set : s <= o
  BY <1>1, HasLeast
<1>3. Lowest(set) \in set
  BY <1>2 DEF Lowest
<1> QED BY <1>1, <1>3 DEF NextSignal, set

\* A signal is taken off, without a handler: the disarmed stack is a frame
\* that could not be written.
LEMMA TakenKeeps ==
    ASSUME NEW st, Core(st), st.suspend = {}, st.saved = {}, st.call = "none", NEW p \in SUBSET Sig, NEW e
    PROVE  /\ ThreadInv([st EXCEPT !.pending = p, !.place = "running"], e)
           /\ \A alt \in {st.alt, Off} :
                ThreadInv([[st EXCEPT !.pending = p, !.place = "running"] EXCEPT !.alt = alt, !.torn = TRUE], e)
<1> DEFINE n == [st EXCEPT !.pending = p, !.place = "running"]
<1>1. st \in ThreadOf /\ "running" \in Places /\ st.alt \in AltOf
  BY CoreFacts DEF Places
<1>2. /\ n \in ThreadOf /\ n.place = "running" /\ n.call = st.call /\ Level(n) = Level(st) /\ Rest(n) = Rest(st)
  BY <1>1 DEF ThreadOf, Level, Rest
<1>3. Core(n) /\ n.suspend = {} /\ n.saved = {} /\ n.mask = st.mask
      /\ n.alt = st.alt /\ n.sp = st.sp /\ n.frames = st.frames /\ n.home = st.home
  <2> HIDE DEF n
  <2> QED BY <1>2, CarryMask, LevelRest
<1>4. AsideExact(n, e) /\ Quiet(n)
  <2> HIDE DEF n
  <2> QED BY <1>2, <1>3 DEF AsideExact, Quiet, Polls
<1>5. ASSUME NEW alt \in {st.alt, Off}
      PROVE  ThreadInv([n EXCEPT !.alt = alt, !.torn = TRUE], e)
  <2> DEFINE half == [n EXCEPT !.alt = alt]
             all == [half EXCEPT !.torn = TRUE]
  <2>1. alt \in AltOf /\ (alt = st.alt \/ alt.stack = {}) /\ TRUE \in Flag
    BY <1>1, AltFacts DEF Flag
  <2> HIDE DEF n
  <2>2. /\ half \in ThreadOf /\ half.place = n.place /\ half.call = n.call /\ half.sp = n.sp
        /\ half.frames = n.frames /\ half.home = n.home /\ half.alt = alt
        /\ Rest(half) = Rest(n)
    BY <1>2, <2>1 DEF ThreadOf, Rest
  <2> HIDE DEF half
  <2>3. /\ all \in ThreadOf /\ all.place = half.place /\ all.call = half.call /\ all.sp = half.sp
        /\ all.frames = half.frames /\ all.home = half.home /\ all.alt = half.alt
        /\ Rest(all) = Rest(half)
    BY <2>1, <2>2 DEF ThreadOf, Rest
  <2>4. all.torn = TRUE
    BY <2>2, Zenon DEF ThreadOf
  <2>5. all = [n EXCEPT !.alt = alt, !.torn = TRUE]
    BY Zenon DEF half
  <2> HIDE DEF all
  <2>6. all.suspend = {} /\ all.saved = {} /\ all.mask = n.mask
    BY <1>3, <2>2, <2>3, LevelRest
  <2>7. StacksKept(all)
    BY <1>3, <2>1, <2>2, <2>3 DEF Core, StacksKept
  <2>8. HomeKept(all)
    BY <1>3, <2>2, <2>3, <2>4, <2>6 DEF Core, HomeKept, HomeMask
  <2>9. AsideExact(all, e) /\ Quiet(all)
    BY <1>2, <2>2, <2>3, <2>6 DEF AsideExact, Quiet
  <2> QED BY <2>3, <2>5, <2>7, <2>8, <2>9 DEF ThreadInv, Core
<1> QED BY <1>3, <1>4, <1>5 DEF ThreadInv

LEMMA TakeTurnKeeps ==
    ASSUME SigInv, NEW t \in SigThread, TakeTurn(t)
    PROVE  SigInv'
<1> DEFINE st == Drained(sigs[t])
           s == NextSignal(st)
           p == st.pending \ {s}
           taken == [st EXCEPT !.pending = p, !.place = "running"]
<1>0. Core(sigs[t]) /\ AsideExact(sigs[t], groupExit) /\ ThreadInv(sigs[t], groupExit)
  BY AtStep
<1>1. /\ Core(st) /\ st.place = sigs[t].place /\ st.call = sigs[t].call /\ Rest(st) = Rest(sigs[t])
  BY <1>0, DrainedCore
<1>2. st.place = "table" /\ sigaction' = sigaction /\ sigaction' \in ActionsOf
  BY AtStep DEF TakeTurn
<1>3. st.call = "none" /\ st.suspend = {} /\ st.saved = {}
  <2> HIDE DEF st
  <2> QED BY <1>0, <1>1, <1>2, LevelRest DEF AsideExact, Polls
<1>4. st.pending \in SUBSET Sig
  BY <1>1, CoreFacts
<1>5. CASE /\ ~HasDeliverable(st)
           /\ sigs' = [sigs EXCEPT ![t] = [st EXCEPT !.place = "running"]]
           /\ UNCHANGED groupExit
  <2>1. ThreadInv(st, groupExit)
    <3> HIDE DEF st
    <3> QED BY <1>1, <1>2, <1>3 DEF ThreadInv, AsideExact, Quiet
  <2>2. "running" \in Places
    BY DEF Places
  <2> HIDE DEF st
  <2>3. ThreadInv([st EXCEPT !.place = "running"], groupExit)
    BY <1>2, <2>1, <2>2, OffCpuKeeps
  <2> QED BY <1>2, <1>5, <2>3, ThreadStep
<1>6. CASE sigs' = [sigs EXCEPT ![t] = taken] /\ UNCHANGED groupExit
  <2> HIDE DEF st, s
  <2>1. ThreadInv(taken, groupExit)
    BY <1>1, <1>3, <1>4, TakenKeeps
  <2> HIDE DEF taken
  <2> QED BY <1>2, <1>6, <2>1, ThreadStep
<1>7. CASE /\ HasDeliverable(st) /\ sigs' = [sigs EXCEPT ![t] = Delivered(st, s, sigaction[s])]
           /\ UNCHANGED groupExit
  <2>1. s \in Sig
    BY <1>4, <1>7, NextSignalIn
  <2>2. sigaction[s].mask \subseteq Sig
    <3>1. sigaction[s] \in SigActions \cup {DefaultAction}
      BY <2>1 DEF SigInv
    <3> QED BY <3>1, SignalsAssumption DEF DefaultAction
  <2> HIDE DEF st, s
  <2>3. ThreadInv(Delivered(st, s, sigaction[s]), groupExit)
    BY <1>1, <1>3, <2>1, <2>2, DeliveredCore
  <2> QED BY <1>2, <1>7, <2>3, ThreadStep
<1>8. CASE /\ sigs' = [sigs EXCEPT ![t] = [taken EXCEPT !.alt = DisarmedFor(st, sigaction[s]), !.torn = TRUE]]
           /\ UNCHANGED groupExit
  <2> DEFINE alt == DisarmedFor(st, sigaction[s])
             n == [taken EXCEPT !.alt = alt, !.torn = TRUE]
  <2>1. alt \in {st.alt, Off}
    BY DEF DisarmedFor
  <2>2. sigs' = [sigs EXCEPT ![t] = n]
    BY <1>8
  <2> HIDE DEF st, s, alt
  <2>3. ThreadInv(n, groupExit)
    BY <1>1, <1>3, <1>4, <2>1, TakenKeeps
  <2> HIDE DEF n
  <2> QED BY <1>2, <1>8, <2>2, <2>3, ThreadStep
<1>9. CASE DieBySignal(t)
  BY <1>2, <1>9, DieKeeps
<1>10. CASE sigs' = [sigs EXCEPT ![t].place = "gone"] /\ UNCHANGED groupExit
  <2> DEFINE n == [sigs[t] EXCEPT !.place = "gone"]
  <2>1. ThreadInv(n, groupExit)
    BY <1>0, GoneKeeps
  <2>2. sigs' = [sigs EXCEPT ![t] = n]
    BY <1>10
  <2> HIDE DEF n
  <2> QED BY <1>2, <1>10, <2>1, <2>2, ThreadStep
<1> HIDE DEF st, s, p
<1> QED BY <1>5, <1>6, <1>7, <1>8, <1>9, <1>10 DEF TakeTurn, st, s, p

LEMMA PlaceKeeps ==
    ASSUME SigInv, NEW t \in SigThread, DispatchExiting(t) \/ TimeSliceEnds(t) \/ Sleep(t)
    PROVE  SigInv'
<1>0. ThreadInv(sigs[t], groupExit) /\ sigaction \in ActionsOf
  BY AtStep
<1>1. /\ groupExit' = groupExit /\ sigaction' = sigaction
      /\ \/ sigs' = [sigs EXCEPT ![t] = [sigs[t] EXCEPT !.place = "gone"]]
         \/ sigs[t].place = "running" /\ sigs' = [sigs EXCEPT ![t] = [sigs[t] EXCEPT !.place = "table"]]
         \/ sigs[t].place = "blocking" /\ sigs' = [sigs EXCEPT ![t] = [sigs[t] EXCEPT !.place = "asleep"]]
  BY DEF DispatchExiting, TimeSliceEnds, Sleep
<1>2. "table" \in Places /\ "asleep" \in Places
  BY DEF Places
<1>3. /\ ThreadInv([sigs[t] EXCEPT !.place = "gone"], groupExit)
      /\ sigs[t].place = "running" => ThreadInv([sigs[t] EXCEPT !.place = "table"], groupExit)
      /\ sigs[t].place = "blocking" => ThreadInv([sigs[t] EXCEPT !.place = "asleep"], groupExit)
  BY <1>0, <1>2, GoneKeeps, OffCpuKeeps
<1> QED BY <1>0, <1>1, <1>3, ThreadStep

LEMMA EventKeeps ==
    ASSUME SigInv, NEW t \in SigThread, EventArrives(t)
    PROVE  SigInv'
<1>0. ThreadInv(sigs[t], groupExit) /\ sigaction \in ActionsOf /\ AsideExact(sigs[t], groupExit)
  BY AtStep
<1>1. PICK r \in {"event", "timeout"} : sigs' = [sigs EXCEPT ![t] = [sigs[t] EXCEPT !.place = "woken", !.result = r]]
  BY DEF EventArrives
<1>2. r \in Results /\ sigs[t].suspend = {}
  BY <1>0 DEF Results, EventArrives, AsideExact
<1> DEFINE n == [sigs[t] EXCEPT !.place = "woken", !.result = r]
<1>3. ThreadInv(n, groupExit)
  BY <1>0, <1>2, WokenKeeps
<1> HIDE DEF n
<1> QED BY <1>0, <1>1, <1>3, ThreadStep DEF EventArrives, n

\* A thread that calls has put nothing aside.
LEMMA AtCall ==
    ASSUME SigInv, NEW t \in SigThread, sigs[t].place = "running"
    PROVE  /\ Core(sigs[t]) /\ sigs[t].call = "none" /\ sigs[t].suspend = {} /\ sigs[t].saved = {}
           /\ sigs[t] \in ThreadOf /\ sigs[t].mask \in MaskOf /\ sigs[t].alt \in AltOf
           /\ sigs[t].pending \in SUBSET Sig /\ sigs[t].queued \in Seq(Sig)
           /\ sigaction \in ActionsOf
  BY AtStep, CoreFacts DEF AsideExact, Polls

LEMMA MaskSetCore ==
    ASSUME NEW st, Core(st), st.suspend = {}, st.saved = {}, NEW mask \in MaskOf
    PROVE  Core(MaskSet(st, mask)) /\ MaskSet(st, mask).suspend = {} /\ MaskSet(st, mask).saved = {}
<1> DEFINE own == IF AtHome(st) THEN mask ELSE st.home.mask
           n == [st EXCEPT !.mask = mask, !.home.mask = own]
<1>1. st \in ThreadOf /\ st.home \in [mask : MaskOf, alt : AltOf] /\ own \in MaskOf
  BY DEF Core, ThreadOf
<1>2. MaskSet(st, mask) = n
  BY DEF MaskSet
<1>3. (st.frames = <<>> => own = mask) /\ (st.frames # <<>> => own = st.home.mask)
  BY DEF AtHome
<1> HIDE DEF own
<1>4. /\ n \in ThreadOf /\ n.suspend = st.suspend /\ n.saved = st.saved /\ n.mask = mask
      /\ n.home.mask = own /\ n.home.alt = st.home.alt
      /\ n.alt = st.alt /\ n.sp = st.sp /\ n.frames = st.frames /\ n.torn = st.torn
  BY <1>1 DEF ThreadOf
<1> HIDE DEF n
<1>5. StacksKept(n)
  BY <1>4 DEF Core, StacksKept
<1>6. HomeKept(n)
  BY <1>3, <1>4 DEF Core, HomeKept, HomeMask
<1> QED BY <1>2, <1>4, <1>5, <1>6 DEF Core

LEMMA AltSetCore ==
    ASSUME NEW st, Core(st), st.suspend = {}, st.saved = {}, NEW alt \in AltOf,
           alt.stack \cap LiveStacks(st) = {}
    PROVE  Core(AltSet(st, alt)) /\ AltSet(st, alt).suspend = {} /\ AltSet(st, alt).saved = {}
<1> DEFINE own == IF AtHome(st) THEN alt ELSE st.home.alt
           n == [st EXCEPT !.alt = alt, !.home.alt = own]
<1>1. st \in ThreadOf /\ st.home \in [mask : MaskOf, alt : AltOf] /\ own \in AltOf
  BY DEF Core, ThreadOf
<1>2. AltSet(st, alt) = n
  BY DEF AltSet
<1>3. (st.frames = <<>> => own = alt) /\ (st.frames # <<>> => own = st.home.alt)
  BY DEF AtHome
<1> HIDE DEF own
<1>4. /\ n \in ThreadOf /\ n.suspend = st.suspend /\ n.saved = st.saved /\ n.mask = st.mask
      /\ n.home.mask = st.home.mask /\ n.home.alt = own
      /\ n.alt = alt /\ n.sp = st.sp /\ n.frames = st.frames /\ n.torn = st.torn
  BY <1>1 DEF ThreadOf
<1> HIDE DEF n
<1>5. \A i \in DOMAIN st.frames : alt.stack \cap st.frames[i].fresh = {}
  BY DEF LiveStacks
<1>6. StacksKept(n)
  BY <1>4, <1>5 DEF Core, StacksKept
<1>7. HomeKept(n)
  BY <1>3, <1>4 DEF Core, HomeKept, HomeMask
<1> QED BY <1>2, <1>4, <1>6, <1>7 DEF Core

LEMMA FreshKeeps ==
    ASSUME NEW mask \in MaskOf, NEW alt \in AltOf, NEW place \in {"table", "unborn"}, NEW e,
           NEW p \in SUBSET Sig, NEW q \in Seq(Sig)
    PROVE  /\ ThreadInv(FreshSignals(mask, alt, place), e)
           /\ ThreadInv([FreshSignals(mask, alt, place) EXCEPT !.pending = p, !.queued = q], e)
<1> DEFINE st == FreshSignals(mask, alt, place)
           n == [st EXCEPT !.pending = p, !.queued = q]
<1>1. /\ Main \in SpOf /\ FALSE \in Flag /\ {} \in OptMask /\ "none" \in Results /\ "none" \in CallNames
      /\ place \in Places /\ <<>> \in Seq(Sig) /\ <<>> \in Seq(FrameOf)
  BY DEF SpOf, Flag, OptMask, Results, CallNames, Places
<1> DEFINE no == FALSE
<1>2. st = [place |-> place, call |-> "none", mask |-> mask, pending |-> {}, queued |-> <<>>,
            suspend |-> {}, saved |-> {}, result |-> "none", alt |-> alt, sp |-> Main,
            frames |-> <<>>, home |-> [mask |-> mask, alt |-> alt], torn |-> no]
  BY DEF FreshSignals
<1>3. no \in Flag
  BY <1>1
<1> HIDE DEF no, st
<1>4. /\ st \in ThreadOf /\ st.place = place /\ st.call = "none" /\ st.suspend = {} /\ st.saved = {}
      /\ st.frames = <<>> /\ st.mask = mask /\ st.home = [mask |-> mask, alt |-> alt] /\ st.alt = alt
  BY <1>1, <1>2, <1>3 DEF ThreadOf
<1>5. Core(st)
  BY <1>4 DEF Core, HomeKept, HomeMask, StacksKept
<1>6. ThreadInv(st, e)
  BY <1>4, <1>5 DEF ThreadInv, AsideExact, Quiet
<1>7. /\ n \in ThreadOf /\ n.place = place /\ n.call = "none" /\ Level(n) = Level(st) /\ Rest(n) = Rest(st)
  BY <1>4 DEF ThreadOf, Level, Rest
<1> HIDE DEF n
<1>8. Core(n) /\ n.suspend = {} /\ n.saved = {}
  BY <1>4, <1>5, <1>7, CarryMask, LevelRest
<1>9. ThreadInv(n, e)
  BY <1>7, <1>8 DEF ThreadInv, AsideExact, Quiet
<1> QED BY <1>6, <1>9 DEF st, n

LEMMA CallKeeps ==
    ASSUME SigInv, NEW t \in SigThread, SigProcMask(t) \/ SigAltStack(t) \/ SigReturn(t) \/ SigAction(t)
    PROVE  SigInv'
<1> DEFINE st == sigs[t]
<1>0. st.place = "running" /\ groupExit' = groupExit
  BY DEF SigProcMask, SigAltStack, SigReturn, SigAction, Calling
<1>1. /\ Core(st) /\ st.suspend = {} /\ st.saved = {} /\ st.mask \in MaskOf /\ sigaction \in ActionsOf
  BY <1>0, AtCall
<1>2. CASE SigProcMask(t)
  <2>1. PICK m \in SigMasks, how \in {"block", "unblock", "set"} :
          sigs' = [sigs EXCEPT ![t] = Returned(MaskSet(st,
                     CASE how = "block" -> st.mask \cup Sanitize(m)
                       [] how = "unblock" -> st.mask \ Sanitize(m)
                       [] OTHER -> Sanitize(m)))]
    BY <1>2 DEF SigProcMask
  <2> DEFINE mask == CASE how = "block" -> st.mask \cup Sanitize(m)
                       [] how = "unblock" -> st.mask \ Sanitize(m)
                       [] OTHER -> Sanitize(m)
  <2>2. Sanitize(m) \in MaskOf
    BY SanitizeFacts, SignalsAssumption
  <2>3. mask \in MaskOf
    BY <1>1, <2>2 DEF MaskOf
  <2>4. sigs' = [sigs EXCEPT ![t] = Returned(MaskSet(st, mask))]
    BY <2>1
  <2> HIDE DEF mask, st
  <2>5. ThreadInv(Returned(MaskSet(st, mask)), groupExit)
    BY <1>1, <2>3, MaskSetCore, ReturnedKeeps
  <2> QED BY <1>0, <1>1, <1>2, <2>4, <2>5, ThreadStep DEF SigProcMask
<1>3. CASE SigAltStack(t)
  <2>1. PICK x \in {{}} \cup {{a} : a \in AltStack}, auto \in BOOLEAN :
          LET new == IF x = {} THEN Off ELSE [stack |-> x, auto |-> auto]
              refused == Contains(st.alt, st.sp)
          IN /\ refused \/ x \cap LiveStacks(st) = {}
             /\ sigs' = [sigs EXCEPT ![t] = Returned(IF refused THEN st ELSE AltSet(st, new))]
    BY <1>3 DEF SigAltStack
  <2> DEFINE new == IF x = {} THEN Off ELSE [stack |-> x, auto |-> auto]
             refused == Contains(st.alt, st.sp)
             n == IF refused THEN st ELSE AltSet(st, new)
  <2>2. (refused \/ x \cap LiveStacks(st) = {}) /\ sigs' = [sigs EXCEPT ![t] = Returned(n)]
    BY <2>1
  <2>3. new \in AltOf /\ new.stack = x
    BY AltFacts DEF Off, AltOf, Flag, StackOn
  <2> HIDE DEF st, new
  <2>4. Core(n) /\ n.suspend = {} /\ n.saved = {}
    BY <1>1, <2>2, <2>3, AltSetCore
  <2> HIDE DEF n
  <2>5. ThreadInv(Returned(n), groupExit)
    BY <2>4, ReturnedKeeps
  <2> QED BY <1>0, <1>1, <1>3, <2>2, <2>5, ThreadStep DEF SigAltStack
<1>4. CASE SigReturn(t)
  <2> DEFINE n == Returned([SigReturned(st, st.frames[Len(st.frames)]) EXCEPT
                                  !.frames = SubSeq(st.frames, 1, Len(st.frames) - 1)])
  <2>1. st.frames # <<>> /\ sigs' = [sigs EXCEPT ![t] = n] /\ sigaction' = sigaction
    BY <1>4 DEF SigReturn
  <2> HIDE DEF st
  <2>2. ThreadInv(n, groupExit)
    BY <1>1, <2>1, SigReturnKeeps
  <2> HIDE DEF n
  <2> QED BY <1>0, <1>1, <2>1, <2>2, ThreadStep
<1>5. CASE SigAction(t)
  <2>1. sigs' = [sigs EXCEPT ![t] = Returned(st)] /\ sigaction' \in ActionsOf
    BY <1>1, <1>5 DEF SigAction, ActionsOf
  <2> HIDE DEF st
  <2>2. ThreadInv(Returned(st), groupExit)
    BY <1>1, ReturnedKeeps
  <2> QED BY <1>0, <2>1, <2>2, ThreadStep
<1> QED BY <1>2, <1>3, <1>4, <1>5

\* exec and clone start a thread with nothing put aside and no frame.
LEMMA BirthKeeps ==
    ASSUME SigInv, NEW t \in SigThread, Exec(t) \/ CloneThread(t)
    PROVE  SigInv'
<1> DEFINE st == sigs[t]
<1>0. st.place = "running" /\ groupExit' = groupExit
  BY DEF Exec, CloneThread, Calling
<1>1. /\ Core(st) /\ st.suspend = {} /\ st.saved = {} /\ st.mask \in MaskOf /\ st.alt \in AltOf
      /\ st.pending \in SUBSET Sig /\ st.queued \in Seq(Sig) /\ sigaction \in ActionsOf
  BY <1>0, AtCall
<1>2. Off \in AltOf
  BY DEF AltOf
<1>3. CASE Exec(t)
  <2> DEFINE n == [FreshSignals(st.mask, Off, "table") EXCEPT !.pending = st.pending, !.queued = st.queued]
  <2>1. sigs' = [sigs EXCEPT ![t] = n]
    BY <1>3 DEF Exec
  <2>2. sigaction' \in ActionsOf
    BY <1>1, <1>3 DEF Exec, ActionsOf
  <2> HIDE DEF st
  <2>3. ThreadInv(n, groupExit)
    BY <1>1, <1>2, FreshKeeps
  <2> HIDE DEF n
  <2> QED BY <1>0, <2>1, <2>2, <2>3, ThreadStep
<1>4. CASE CloneThread(t)
  <2>1. PICK u \in SigThread :
          /\ sigs[u].place = "unborn"
          /\ sigs' = [sigs EXCEPT ![u] = FreshSignals(sigs[t].mask, sigs[t].alt, "table"), ![t] = Returned(@)]
    BY <1>4 DEF CloneThread
  <2> DEFINE n == FreshSignals(st.mask, st.alt, "table")
  <2>2. u # t
    BY <1>0, <2>1
  <2>3. sigs' = [sigs EXCEPT ![u] = n, ![t] = Returned(st)] /\ sigaction' = sigaction
    BY <1>4, <2>1, <2>2 DEF CloneThread
  <2>4. ThreadInv(n, groupExit) /\ ThreadInv(Returned(st), groupExit)
    <3> HIDE DEF st
    <3> QED BY <1>1, FreshKeeps, ReturnedKeeps
  <2>5. n \in ThreadOf /\ Returned(st) \in ThreadOf
    BY <2>4 DEF ThreadInv, Core
  <2>6. sigs \in [SigThread -> ThreadOf] /\ \A v \in SigThread : ThreadInv(sigs[v], groupExit)
    BY DEF SigInv
  <2> HIDE DEF n, st
  <2>7. /\ sigs' \in [SigThread -> ThreadOf]
        /\ \A v \in SigThread : sigs'[v] = IF v = t THEN Returned(st) ELSE IF v = u THEN n ELSE sigs[v]
    BY <2>2, <2>3, <2>5, <2>6
  <2>8. \A v \in SigThread : ThreadInv(sigs'[v], groupExit')
    BY <1>0, <2>4, <2>6, <2>7
  <2> QED BY <1>0, <2>3, <2>7, <2>8 DEF SigInv
<1> QED BY <1>3, <1>4

LEMMA FaultKeeps ==
    ASSUME SigInv, NEW t \in SigThread, Fault(t)
    PROVE  SigInv'
<1>0. sigs[t].place = "running" /\ sigaction' = sigaction
  BY DEF Fault
<1>1. PICK s \in Sig \cap {7, 8, 11} :
          \/ /\ sigs' = [sigs EXCEPT ![t].place = "table", ![t].pending = Enqueued(@, s)]
             /\ UNCHANGED groupExit
          \/ DieBySignal(t)
  BY DEF Fault
<1>2. CASE DieBySignal(t)
  BY <1>0, <1>2, DieKeeps
<1>3. CASE sigs' = [sigs EXCEPT ![t].place = "table", ![t].pending = Enqueued(@, s)] /\ UNCHANGED groupExit
  <2> DEFINE st == sigs[t]
             p == Enqueued(st.pending, s)
             on == [st EXCEPT !.pending = p]
             n == [on EXCEPT !.place = "table"]
  <2>1. /\ Core(st) /\ st.call = "none" /\ st.suspend = {} /\ st.saved = {} /\ p \in SUBSET Sig
        /\ sigaction \in ActionsOf /\ st \in ThreadOf /\ "table" \in Places
    BY <1>0, AtCall, EnqueuedFacts DEF Places
  <2>2. sigs' = [sigs EXCEPT ![t] = n]
    BY <1>3, <2>1 DEF SigInv, ThreadOf
  <2> HIDE DEF p, st
  <2>3. on \in ThreadOf /\ on.call = st.call /\ Level(on) = Level(st) /\ Rest(on) = Rest(st)
    BY <2>1 DEF ThreadOf, Level, Rest
  <2> HIDE DEF on
  <2>4. n \in ThreadOf /\ n.place = "table" /\ n.call = on.call /\ Level(n) = Level(on) /\ Rest(n) = Rest(on)
    BY <2>1, <2>3, PlaceSet
  <2> HIDE DEF n
  <2>5. Core(n) /\ n.suspend = {} /\ n.saved = {}
    BY <2>1, <2>3, <2>4, CarryMask, LevelRest
  <2>6. ThreadInv(n, groupExit)
    BY <2>1, <2>3, <2>4, <2>5 DEF ThreadInv, AsideExact, Quiet
  <2> QED BY <1>0, <1>3, <2>1, <2>2, <2>6, ThreadStep
<1> QED BY <1>1, <1>2, <1>3

\* A call puts the mask aside and waits under another one.
LEMMA SuspendedCore ==
    ASSUME NEW st, Core(st), st.suspend = {}, st.saved = {}, NEW mask \in MaskOf,
           NEW n, n = [st EXCEPT !.suspend = {st.mask}, !.mask = mask]
    PROVE  Core(n) /\ n.saved = {}
<1>1. st \in ThreadOf /\ {st.mask} \in OptMask
  BY CoreFacts DEF OptMask
<1>2. n \in ThreadOf /\ Level(n) = Level(st) /\ n.suspend = {st.mask} /\ n.saved = {}
  BY <1>1 DEF ThreadOf, Level
<1>3. HomeMask(st) => HomeMask(n)
  BY <1>2, LevelRest DEF HomeMask
<1> QED BY <1>2, <1>3, Carry
LEMMA MaskedCore ==
    ASSUME NEW st, Core(st), st.suspend = {}, st.saved = {}, NEW m,
           m = {} \/ (m # {} /\ Sanitize(CHOOSE x \in m : TRUE) \in MaskOf), NEW c \in CallNames
    PROVE  LET n == [Masked(st, m) EXCEPT !.call = c] IN Core(n) /\ n.suspend = {} /\ n.call = c
<1> DEFINE own == IF m = {} THEN st.mask ELSE Sanitize(CHOOSE x \in m : TRUE)
           aside == IF m = {} THEN {} ELSE {st.mask}
           h == [st EXCEPT !.saved = aside, !.mask = own]
           n == [h EXCEPT !.call = c]
<1> SUFFICES Core(n) /\ n.suspend = {} /\ n.call = c
  BY DEF Masked
<1>1. /\ st \in ThreadOf /\ st.mask \in MaskOf /\ aside \in OptMask /\ own \in MaskOf
      /\ (aside = {} /\ own = st.mask) \/ aside = {st.mask}
  BY CoreFacts DEF OptMask
<1> HIDE DEF own, aside
<1>2. h \in ThreadOf /\ Level(h) = Level(st) /\ h.saved = aside /\ h.suspend = {} /\ h.mask = own
  BY <1>1 DEF ThreadOf, Level
<1> HIDE DEF h
<1>3. n \in ThreadOf /\ Level(n) = Level(h) /\ Rest(n) = Rest(h) /\ n.call = c
  BY <1>2 DEF ThreadOf, Level, Rest
<1> HIDE DEF n
<1>4. n.saved = aside /\ n.suspend = {} /\ n.mask = own /\ n.home = st.home
  BY <1>2, <1>3, LevelRest
<1>5. HomeMask(st) => HomeMask(n)
  BY <1>1, <1>4 DEF HomeMask
<1> QED BY <1>2, <1>3, <1>4, <1>5, Carry

LEMMA WaitKeeps ==
    ASSUME SigInv, NEW t \in SigThread, SigSuspend(t) \/ PollCall(t) \/ NapCall(t)
    PROVE  SigInv'
<1> DEFINE old == sigs[t]
<1>0. old.place = "running" /\ groupExit' = groupExit /\ sigaction' = sigaction
  BY DEF SigSuspend, PollCall, NapCall, Calling
<1>1. /\ Core(old) /\ old.suspend = {} /\ old.saved = {} /\ old.mask \in MaskOf /\ sigaction \in ActionsOf
  BY <1>0, AtCall
<1>2. \A x \in SigMasks : Sanitize(x) \in MaskOf
  BY SanitizeFacts, SignalsAssumption
<1>3. CASE SigSuspend(t)
  <2>1. PICK m \in {{}} \cup {{x} : x \in SigMasks} :
          LET st == IF m = {} THEN old
                    ELSE [old EXCEPT !.suspend = {old.mask}, !.mask = Sanitize(CHOOSE x \in m : TRUE)]
          IN sigs' = [sigs EXCEPT ![t] = IF HasDeliverable(st) THEN Returned(LeftSuspend(st))
                                         ELSE Blocking(st, "suspend")]
    BY <1>3 DEF SigSuspend
  <2> DEFINE mask == Sanitize(CHOOSE x \in m : TRUE)
             under == [old EXCEPT !.suspend = {old.mask}, !.mask = mask]
             st == IF m = {} THEN old ELSE under
             n == IF HasDeliverable(st) THEN Returned(LeftSuspend(st)) ELSE Blocking(st, "suspend")
  <2>2. sigs' = [sigs EXCEPT ![t] = n]
    BY <2>1
  <2>3. m # {} => mask \in MaskOf
    BY <1>2
  <2>4. "suspend" \in CallNames \ {"none"}
    BY DEF CallNames
  <2> HIDE DEF old, mask
  <2>5. Core(st) /\ st.saved = {}
    BY <1>1, <2>3, SuspendedCore
  <2> HIDE DEF st
  <2>6. ThreadInv(Returned(LeftSuspend(st)), groupExit)
    BY <2>5, LeftSuspendCore, ReturnedKeeps
  <2>7. ~HasDeliverable(st) => ThreadInv(Blocking(st, "suspend"), groupExit)
    BY <2>4, <2>5, BlockingKeeps
  <2>8. ThreadInv(n, groupExit)
    BY <2>6, <2>7
  <2> HIDE DEF n
  <2> QED BY <1>0, <1>1, <2>2, <2>8, ThreadStep
<1>4. CASE PollCall(t)
  <2>1. PICK m \in {{}} \cup {{x} : x \in SigMasks}, call \in Polls :
          \E next \in TurnOf([Masked(old, m) EXCEPT !.call = call]) : sigs' = [sigs EXCEPT ![t] = next]
    BY <1>4 DEF PollCall
  <2> DEFINE st == [Masked(old, m) EXCEPT !.call = call]
  <2>2. PICK next \in TurnOf(st) : sigs' = [sigs EXCEPT ![t] = next]
    BY <2>1
  <2>3. m = {} \/ (m # {} /\ Sanitize(CHOOSE x \in m : TRUE) \in MaskOf)
    BY <1>2
  <2>4. call \in CallNames
    BY DEF CallNames, Polls
  <2> HIDE DEF old
  <2>5. Core(st) /\ st.suspend = {} /\ st.call = call
    BY <1>1, <2>3, <2>4, MaskedCore
  <2> HIDE DEF st
  <2>6. ThreadInv(next, groupExit)
    BY <2>5, TurnKeeps
  <2> QED BY <1>0, <1>1, <2>2, <2>6, ThreadStep
<1>5. CASE NapCall(t)
  <2>1. PICK call \in {"nap", "io"} : sigs' = [sigs EXCEPT ![t] = Blocking(old, call)]
    BY <1>5 DEF NapCall
  <2>2. call \in CallNames \ {"none"} /\ call \notin {"suspend"} \cup Polls
    BY DEF CallNames, Polls
  <2> HIDE DEF old
  <2>3. ThreadInv(Blocking(old, call), groupExit)
    BY <1>1, <2>2, BlockingKeeps
  <2> QED BY <1>0, <1>1, <2>1, <2>3, ThreadStep
<1> QED BY <1>3, <1>4, <1>5

LEMMA ResumeKeeps ==
    ASSUME SigInv, NEW t \in SigThread, Resume(t)
    PROVE  SigInv'
<1> DEFINE st == Drained(sigs[t])
<1>0. Core(sigs[t]) /\ AsideExact(sigs[t], groupExit) /\ sigaction \in ActionsOf
  BY AtStep
<1>1. /\ Core(st) /\ st.place = sigs[t].place /\ st.call = sigs[t].call /\ Rest(st) = Rest(sigs[t])
  BY <1>0, DrainedCore
<1>2. st.place = "woken" /\ ~groupExit /\ groupExit' = groupExit /\ sigaction' = sigaction
  BY DEF Resume
<1>3. PICK next \in IF st.call \in Polls /\ st.result = "event" THEN TurnOf(st)
                    ELSE IF st.call \in Polls THEN {PollRestored(st)} ELSE {Returned(st)} :
          sigs' = [sigs EXCEPT ![t] = next]
  BY DEF Resume
<1> HIDE DEF st
<1>4. st.suspend = {} /\ (st.call \notin Polls => st.saved = {})
  BY <1>0, <1>1, <1>2, LevelRest DEF AsideExact
<1>5. CASE st.call \in Polls /\ next \in TurnOf(st)
  BY <1>0, <1>1, <1>2, <1>3, <1>4, <1>5, TurnKeeps, ThreadStep
<1>6. CASE next = PollRestored(st)
  BY <1>0, <1>1, <1>2, <1>3, <1>4, <1>6, PollRestoredKeeps, ThreadStep
<1>7. CASE st.call \notin Polls /\ next = Returned(st)
  BY <1>0, <1>1, <1>2, <1>3, <1>4, <1>7, ReturnedKeeps, ThreadStep
<1> QED BY <1>3, <1>5, <1>6, <1>7

LEMMA SignalsStep ==
    ASSUME SigInv, [SigNext]_sigVars
    PROVE  SigInv'
<1>1. CASE UNCHANGED sigVars
  BY <1>1 DEF SigInv, sigVars
<1>2. CASE \E s \in Sig : Kill(s)
  BY <1>2, KillKeeps
<1>3. ASSUME NEW t \in SigThread, \E s \in Sig : TKill(t, s)
      PROVE  SigInv'
  BY <1>3, SendKeeps DEF TKill
<1>4. ASSUME NEW t \in SigThread, TakeTurn(t) \/ DispatchExiting(t) \/ TimeSliceEnds(t) \/ Sleep(t)
                                  \/ EventArrives(t) \/ Resume(t)
      PROVE  SigInv'
  BY <1>4, TakeTurnKeeps, PlaceKeeps, EventKeeps, ResumeKeeps
<1>5. ASSUME NEW t \in SigThread, SigProcMask(t) \/ SigAltStack(t) \/ SigReturn(t) \/ SigAction(t)
                                  \/ Exec(t) \/ CloneThread(t) \/ Fault(t)
      PROVE  SigInv'
  BY <1>5, CallKeeps, BirthKeeps, FaultKeeps
<1>6. ASSUME NEW t \in SigThread, SigSuspend(t) \/ PollCall(t) \/ NapCall(t)
      PROVE  SigInv'
  BY <1>6, WaitKeeps
<1> QED BY <1>1, <1>2, <1>3, <1>4, <1>5, <1>6, Zenon DEF SigNext

LEMMA SignalsStart ==
    ASSUME SigInit
    PROVE  SigInv
<1>1. {} \in MaskOf /\ Off \in AltOf /\ {} \in SUBSET Sig /\ <<>> \in Seq(Sig)
  BY DEF MaskOf, AltOf
<1> DEFINE new(t) == FreshSignals({}, Off, IF t = Leader THEN "table" ELSE "unborn")
<1>2. \A t \in SigThread : ThreadInv(new(t), groupExit)
  BY <1>1, FreshKeeps
<1>3. \A t \in SigThread : new(t) \in ThreadOf
  BY <1>2 DEF ThreadInv, Core
<1>4. sigs = [t \in SigThread |-> new(t)]
  BY DEF SigInit
<1> HIDE DEF new
<1>5. sigs \in [SigThread -> ThreadOf] /\ \A t \in SigThread : ThreadInv(sigs[t], groupExit)
  BY <1>2, <1>3, <1>4
<1> QED BY <1>5 DEF SigInv, SigInit

LEMMA SignalsMeans ==
    ASSUME SigInv
    PROVE  SignalsSound
<1>1. SigTypeOK
  <2>1. ASSUME NEW t \in SigThread
        PROVE  LET st == sigs[t] IN
               /\ st.place \in {"unborn", "table", "woken", "running", "blocking", "asleep", "gone"}
               /\ st.pending \subseteq Sig /\ st.mask \subseteq Sig \ {SIGKILL, SIGSTOP}
               /\ st.queued \in Seq(Sig)
               /\ Cardinality(st.suspend) <= 1 /\ Cardinality(st.saved) <= 1
    <3>1. Core(sigs[t])
      BY AtStep
    <3>2. \A o \in OptMask : Cardinality(o) <= 1
      <4> SUFFICES ASSUME NEW o \in OptMask PROVE Cardinality(o) <= 1
        OBVIOUS
      <4>1. CASE o = {}
        BY <4>1, FS_EmptySet
      <4>2. CASE o # {}
        <5>1. PICK m : o = {m}
          BY <4>2, OptCases
        <5>2. Cardinality({m}) = 1
          BY FS_Singleton, Zenon
        <5> QED BY <5>1, <5>2
      <4> QED BY <4>1, <4>2
    <3>3. /\ sigs[t].place \in Places /\ sigs[t].mask \in MaskOf /\ sigs[t].pending \in SUBSET Sig
          /\ sigs[t].queued \in Seq(Sig) /\ sigs[t].suspend \in OptMask /\ sigs[t].saved \in OptMask
      BY <3>1, CoreFacts
    <3> QED BY <3>2, <3>3 DEF Places, MaskOf
  <2> QED BY <2>1 DEF SigTypeOK, SigInv
<1>2. HomeRestored
  BY AtStep DEF HomeRestored, AtHome, AsideExact, Polls, Core, HomeKept, HomeMask
<1>3. AltstackNotReused
  <2> SUFFICES ASSUME NEW t \in SigThread, NEW i \in DOMAIN sigs[t].frames, NEW j \in DOMAIN sigs[t].frames, i # j
               PROVE  sigs[t].frames[i].fresh \cap sigs[t].frames[j].fresh = {}
    BY DEF AltstackNotReused
  <2> DEFINE fr == sigs[t].frames
  <2>1. fr \in Seq(FrameOf) /\ StacksKept(sigs[t])
    BY AtStep, CoreFacts DEF Core
  <2>2. \A a, b \in DOMAIN fr : a < b => fr[a].fresh \cap fr[b].fresh = {}
    BY <2>1 DEF StacksKept
  <2>3. i \in Nat /\ j \in Nat /\ (i < j \/ j < i)
    BY <2>1
  <2> HIDE DEF fr
  <2>4. fr[i].fresh \cap fr[j].fresh = {}
    BY <2>2, <2>3 DEF fr
  <2> QED BY <2>4 DEF fr
<1>4. SuspendersQuiet
  BY DEF SigInv, ThreadInv, Quiet, SuspendersQuiet
<1> QED BY <1>1, <1>2, <1>3, <1>4 DEF SignalsSound

\* Signal handling leaves no trace, for any number of threads, signals, masks
\* and alternate stacks and any depth of nested handlers: notify_signal, the
\* wait loops of sigsuspend and the polls, setup_frame and sigreturn put the
\* mask and the stack of the program back, never write over a live frame, and
\* leave no thread asleep on a signal it should take.
THEOREM SignalsHold == SigSpec => []SignalsSound
<1>1. SigInit => SigInv
  BY SignalsStart
<1>2. SigInv /\ [SigNext]_sigVars => SigInv'
  BY SignalsStep
<1>3. SigInv => SignalsSound
  BY SignalsMeans
<1> QED BY <1>1, <1>2, <1>3, PTL DEF SigSpec

---------------------------------------------------------------------------
(* Timers: the invariant                                                   *)

TimerOf == [class : TimeClass \cup {Never}, interval : Nat, expires : Nat, ticks : Nat]
IndexOf == [class : TimeClass \cup {Never}, at : Nat, id : TimerFd]
PassOf == [class : TimeClass \cup {Never}, at : Nat, ids : SUBSET TimerFd]
AlarmOf == [deadline : Nat, interval : Nat]
ToldOf == [first : Nat, read : Nat, peeked : Flag]

TimersTyped ==
    /\ timerfds \in [TimerFd -> TimerOf]
    /\ deadlines \subseteq IndexOf
    /\ pass \in [TimeCpu -> PassOf]
    /\ told \in [TimerFd -> ToldOf]
SleepsOnce ==
    /\ readers \in [TimeReader -> SUBSET TimerFd]
    /\ \A r \in TimeReader : readers[r] = {} \/ \E f \in TimerFd : readers[r] = {f}

\* The parts of DeadlinesExact and of TicksExact.
Indexed(f) ==
    LET mine == {e \in deadlines : e.id = f} IN
    /\ mine \subseteq {Entry(f, timerfds[f])}
    /\ timerfds[f].expires = 0 => mine = {}
    /\ timerfds[f].expires # 0 /\ mine = {} =>
          \E p \in TimeCpu : f \in pass[p].ids /\ timerfds[f].expires <= pass[p].at
Published == \A c \in TimeClass : nextDeadline[c] = NextOf(deadlines, c)
AlarmsExact ==
    /\ itDeadlines = {[at |-> itimers[g].deadline, id |-> g] :
                         g \in {h \in TimerGroup : itimers[h].deadline # 0}}
    /\ itNext = Earliest({e.at : e \in itDeadlines})
Counted(first, read, tm) ==
    IF tm.interval # 0 THEN tm.expires = first + (read + tm.ticks) * tm.interval
    ELSE \/ read + tm.ticks = 0 /\ tm.expires = first
         \/ read + tm.ticks = 1 /\ tm.expires = 0
Ticked(f) == Live(f) /\ told[f].first # 0 => Counted(told[f].first, told[f].read, timerfds[f])
Awake(f) == \A r \in TimeReader : f \in readers[r] /\ timerfds[f].ticks # 0 => told[f].peeked

\* What the steps preserve, of timerfds and of itimers.
TimerfdInv ==
    /\ TimersTyped /\ SleepsOnce /\ Published
    /\ \A f \in TimerFd : Indexed(f) /\ Ticked(f) /\ Awake(f)
ItimerInv == itimers \in [TimerGroup -> AlarmOf] /\ AlarmsExact
TimersInv == now \in Nat /\ TimerfdInv /\ ItimerInv

LEMMA TimersInvExact == TimersInv => TimersExact
<1> SUFFICES ASSUME TimersInv PROVE TimersExact
  OBVIOUS
<1>1. DeadlinesExact
  BY DEF TimersInv, TimerfdInv, ItimerInv, DeadlinesExact, Indexed, Published, AlarmsExact
<1>2. TicksExact
  BY DEF TimersInv, TimerfdInv, TicksExact, Ticked, Counted
<1>3. ReadersWoken
  BY DEF TimersInv, TimerfdInv, ReadersWoken, Awake
<1>4. TimersTypeOK
  <2>1. \A f \in TimerFd : timerfds[f].ticks \in Nat /\ timerfds[f].expires \in Nat
    BY DEF TimersInv, TimerfdInv, TimersTyped, TimerOf
  <2>2. \A r \in TimeReader : readers[r] \subseteq TimerFd /\ Cardinality(readers[r]) <= 1
    <3> SUFFICES ASSUME NEW r \in TimeReader
                 PROVE  readers[r] \subseteq TimerFd /\ Cardinality(readers[r]) <= 1
      OBVIOUS
    <3>1. CASE readers[r] = {}
      BY <3>1, FS_EmptySet
    <3>2. CASE \E f \in TimerFd : readers[r] = {f}
      BY <3>2, FS_Singleton
    <3> QED BY <3>1, <3>2 DEF TimersInv, TimerfdInv, SleepsOnce
  <2> QED BY <2>1, <2>2 DEF TimersTypeOK
<1> QED BY <1>1, <1>2, <1>3, <1>4 DEF TimersExact

LEMMA TimersInvInit == TimersInit => TimersInv
<1> SUFFICES ASSUME TimersInit PROVE TimersInv
  OBVIOUS
<1>0. Never \in Nat
  BY TimersAssumption
<1>1. NoTimer \in TimerOf /\ NoTimer.expires = 0 /\ NoTimer.ticks = 0
  BY <1>0 DEF NoTimer, TimerOf
<1>2. IdlePass \in PassOf
  BY <1>0 DEF IdlePass, PassOf
<1>3. [first |-> 0, read |-> 0, peeked |-> FALSE] \in ToldOf
  BY DEF ToldOf, Flag
<1>4. TimersTyped /\ SleepsOnce
  BY <1>1, <1>2, <1>3 DEF TimersInit, TimersTyped, SleepsOnce
<1>5. \A f \in TimerFd : Indexed(f) /\ Ticked(f) /\ Awake(f)
  BY <1>1 DEF TimersInit, Indexed, Ticked, Awake, Live
<1>6. Published
  BY DEF TimersInit, Published, NextOf, Earliest
<1>7. ItimerInv
  BY DEF TimersInit, ItimerInv, AlarmsExact, AlarmOf, Earliest
<1> QED BY <1>4, <1>5, <1>6, <1>7 DEF TimersInv, TimerfdInv, TimersInit

---------------------------------------------------------------------------
(* refresh_due_locked                                                      *)

LEMMA PeriodsPositive ==
    ASSUME NEW tm \in TimerOf, NEW at \in Nat, Due(tm, at), tm.interval # 0
    PROVE  /\ Periods(tm, at) \in Nat \ {0} /\ Periods(tm, at) * tm.interval \in Nat \ {0}
  BY DEF TimerOf, Due, Periods

\* A timer that is due is moved on by some number of periods, or disarmed.
MovedOn(tm, new, n) ==
    \/ tm.interval = 0 /\ new.ticks = tm.ticks + 1 /\ new.expires = 0
    \/ /\ tm.interval # 0
       /\ new.ticks = tm.ticks + n /\ new.expires = tm.expires + n * tm.interval
       /\ new.expires # tm.expires /\ new.expires # 0
LEMMA RefreshedFacts ==
    ASSUME NEW tm \in TimerOf, NEW at \in Nat
    PROVE  /\ Refreshed(tm, at) \in TimerOf
           /\ Refreshed(tm, at).class = tm.class /\ Refreshed(tm, at).interval = tm.interval
           /\ ~Due(tm, at) => Refreshed(tm, at) = tm
           /\ Due(tm, at) => \E n \in Nat : MovedOn(tm, Refreshed(tm, at), n)
<1>0. tm.expires \in Nat /\ tm.interval \in Nat /\ tm.ticks \in Nat
  BY DEF TimerOf
<1>1. CASE ~Due(tm, at)
  BY <1>1 DEF Refreshed
<1>2. CASE Due(tm, at) /\ tm.interval = 0
  <2> DEFINE half == [tm EXCEPT !.ticks = tm.ticks + 1]
             new == [half EXCEPT !.expires = 0]
  <2>1. half \in TimerOf /\ half.class = tm.class /\ half.interval = tm.interval /\ half.ticks = tm.ticks + 1
    BY <1>0 DEF TimerOf
  <2> HIDE DEF half
  <2>2. /\ new \in TimerOf /\ new.class = half.class /\ new.interval = half.interval
        /\ new.ticks = half.ticks /\ new.expires = 0
    BY <2>1 DEF TimerOf
  <2>3. Refreshed(tm, at) = new
    BY <1>2 DEF Refreshed, half
  <2> HIDE DEF new
  <2>4. MovedOn(tm, new, 0)
    BY <1>2, <2>1, <2>2 DEF MovedOn
  <2> QED BY <1>2, <2>1, <2>2, <2>3, <2>4
<1>3. CASE Due(tm, at) /\ tm.interval # 0
  <2> DEFINE n == Periods(tm, at)
             late == n * tm.interval
             half == [tm EXCEPT !.ticks = tm.ticks + n]
             new == [half EXCEPT !.expires = half.expires + late]
  <2>1. n \in Nat \ {0} /\ late \in Nat \ {0}
    BY <1>3, PeriodsPositive
  <2>2. Refreshed(tm, at) = new
    BY <1>3 DEF Refreshed, TimerOf
  <2> HIDE DEF n
  <2>3. tm.ticks + n \in Nat
    BY <1>0, <2>1
  <2>4. /\ half \in TimerOf /\ half.class = tm.class /\ half.interval = tm.interval
        /\ half.ticks = tm.ticks + n /\ half.expires = tm.expires
    BY <2>3 DEF TimerOf
  <2>5. late = n * tm.interval
    OBVIOUS
  <2> HIDE DEF half, late
  <2>6. half.expires + late \in Nat /\ half.expires + late # 0 /\ half.expires + late # tm.expires
    BY <1>0, <2>1, <2>4
  <2>7. /\ new \in TimerOf /\ new.class = half.class /\ new.interval = half.interval
        /\ new.ticks = half.ticks /\ new.expires = half.expires + late
    BY <2>4, <2>6 DEF TimerOf
  <2> HIDE DEF new
  <2>8. MovedOn(tm, new, n)
    BY <1>3, <2>4, <2>5, <2>6, <2>7 DEF MovedOn
  <2> QED BY <1>3, <2>1, <2>2, <2>4, <2>7, <2>8
<1> QED BY <1>1, <1>2, <1>3

\* The count of expirations stays that of the periods gone by.
LEMMA CountKept ==
    ASSUME NEW tm \in TimerOf, NEW at \in Nat, NEW first \in Nat, NEW read \in Nat,
           Counted(first, read, tm)
    PROVE  Counted(first, read, Refreshed(tm, at))
<1> DEFINE new == Refreshed(tm, at)
<1>0. tm.expires \in Nat /\ tm.interval \in Nat /\ tm.ticks \in Nat
  BY DEF TimerOf
<1>1. CASE ~Due(tm, at)
  BY <1>1, RefreshedFacts
<1>2. CASE Due(tm, at)
  <2>1. new.interval = tm.interval /\ tm.expires # 0
    BY <1>2, RefreshedFacts DEF Due
  <2>2. PICK n \in Nat : MovedOn(tm, new, n)
    BY <1>2, RefreshedFacts
  <2> SUFFICES Counted(first, read, new)
    OBVIOUS
  <2> HIDE DEF new
  <2>3. CASE tm.interval = 0
    <3>1. new.ticks = tm.ticks + 1 /\ new.expires = 0
      BY <2>2, <2>3 DEF MovedOn
    <3>2. read + tm.ticks = 0
      BY <2>1, <2>3 DEF Counted
    <3>3. read + new.ticks = 1
      BY <1>0, <3>1, <3>2
    <3> QED BY <2>1, <2>3, <3>1, <3>3 DEF Counted
  <2>4. CASE tm.interval # 0
    BY <1>0, <2>2, <2>4, <2>1 DEF MovedOn, Counted
  <2> QED BY <2>3, <2>4
<1> QED BY <1>1, <1>2

---------------------------------------------------------------------------
(* The index of deadlines                                                  *)

Mine(index, f) == {e \in index : e.id = f}
\* An index whose only entry of f, if any, is the one of tm.
Holds(index, f, tm) == Mine(index, f) = IF tm.expires = 0 THEN {} ELSE {Entry(f, tm)}
\* Entries of the other timers stay.
Others(index, f) == index \subseteq IndexOf /\ \A e : e.id # f => (e \in index <=> e \in deadlines)

LEMMA EntryFacts ==
    ASSUME NEW f \in TimerFd, NEW tm \in TimerOf
    PROVE  Entry(f, tm) \in IndexOf /\ Entry(f, tm).id = f
  BY DEF Entry, IndexOf, TimerOf

LEMMA ReindexedFacts ==
    ASSUME TimersTyped, NEW f \in TimerFd, Indexed(f), NEW new \in TimerOf,
           new.class = timerfds[f].class
    PROVE  /\ Others(Reindexed(deadlines, f, timerfds[f], new), f)
           /\ timerfds[f].expires = new.expires => Reindexed(deadlines, f, timerfds[f], new) = deadlines
           /\ timerfds[f].expires # new.expires => Holds(Reindexed(deadlines, f, timerfds[f], new), f, new)
<1> DEFINE old == timerfds[f]
           index == Reindexed(deadlines, f, old, new)
<1>1. old \in TimerOf /\ deadlines \subseteq IndexOf
  BY DEF TimersTyped
<1>2. CASE old.expires = new.expires
  BY <1>1, <1>2 DEF Reindexed, Others
<1>3. CASE old.expires # new.expires
  <2>1. index = (deadlines \ {Entry(f, old)}) \cup IF new.expires = 0 THEN {} ELSE {Entry(f, new)}
    BY <1>3 DEF Reindexed
  <2>2. /\ Entry(f, old) \in IndexOf /\ Entry(f, old).id = f
        /\ Entry(f, new) \in IndexOf /\ Entry(f, new).id = f
    BY <1>1, EntryFacts
  <2>3. \A e \in deadlines : e.id = f => e = Entry(f, old)
    BY DEF Indexed
  <2> HIDE DEF index, old
  <2>4. Others(index, f)
    BY <1>1, <2>1, <2>2 DEF Others
  <2>5. Holds(index, f, new)
    BY <2>1, <2>2, <2>3 DEF Holds, Mine
  <2> QED BY <1>3, <2>4, <2>5 DEF index, old
<1> QED BY <1>2, <1>3

\* Either the entry of the timer is in place, or nothing has changed for it.
LEMMA IndexedNext ==
    ASSUME TimersTyped, NEW f \in TimerFd, Indexed(f), NEW tm \in TimerOf,
           timerfds'[f] = tm,
           \/ Holds(deadlines', f, tm)
           \/ /\ tm.expires = timerfds[f].expires /\ tm.class = timerfds[f].class
              /\ deadlines' = deadlines
              /\ \A p \in TimeCpu : /\ pass'[p].at = pass[p].at
                                    /\ \/ f \in pass[p].ids => f \in pass'[p].ids
                                       \/ ~(tm.expires <= pass[p].at)
    PROVE  Indexed(f)'
  BY DEF Holds, Mine, Indexed, Entry

\* A step on one timer.
LEMMA TimerStep ==
    ASSUME TimerfdInv, NEW f \in TimerFd, NEW tm \in TimerOf,
           timerfds' = [timerfds EXCEPT ![f] = tm],
           Others(deadlines', f), Published', Indexed(f)', Ticked(f)', Awake(f)', SleepsOnce',
           pass' \in [TimeCpu -> PassOf],
           \A p \in TimeCpu : /\ pass'[p].at = pass[p].at
                              /\ \A g : g # f => (g \in pass'[p].ids <=> g \in pass[p].ids),
           told' \in [TimerFd -> ToldOf], \A g \in TimerFd : g # f => told'[g] = told[g],
           \A r \in TimeReader : \A g : g # f /\ g \in readers'[r] => g \in readers[r]
    PROVE  TimerfdInv'
<1>1. TimersTyped'
  BY DEF TimerfdInv, TimersTyped, Others
<1>2. ASSUME NEW g \in TimerFd, g # f
      PROVE  Indexed(g)' /\ Ticked(g)' /\ Awake(g)'
  BY <1>2 DEF TimerfdInv, TimersTyped, Others, Indexed, Ticked, Live, Awake
<1> QED BY <1>1, <1>2 DEF TimerfdInv

LEMMA PublishFacts ==
    ASSUME Publish(deadlines')
    PROVE  Published'
  BY DEF Publish, Published

\* The readers of a timer are notified.
LEMMA AnnounceFacts ==
    ASSUME SleepsOnce, NEW f \in TimerFd, NEW was, NEW tm, Announce(f, was, tm)
    PROVE  /\ SleepsOnce' /\ \A r \in TimeReader : \A g : g \in readers'[r] => g \in readers[r]
           /\ was = 0 /\ tm.ticks # 0 => \A r \in TimeReader : f \notin readers'[r]
  BY DEF Announce, Notify, SleepsOnce

---------------------------------------------------------------------------
(* The steps of timerfd                                                    *)

LEMMA StampsFacts ==
    ASSUME now \in Nat
    PROVE  Stamps \subseteq Nat
  BY DEF Stamps

\* A history whose numbers are reset, or that has one of its fields set.
LEMMA ToldReset ==
    ASSUME TimersTyped, NEW f \in TimerFd, NEW n \in Nat,
           told' = [told EXCEPT ![f] = [first |-> n, read |-> 0, peeked |-> FALSE]]
    PROVE  /\ told' \in [TimerFd -> ToldOf] /\ \A g \in TimerFd : g # f => told'[g] = told[g]
           /\ told'[f].first = n /\ told'[f].read = 0
  BY DEF ToldOf, Flag, TimersTyped

LEMMA CreateKeeps ==
    ASSUME TimerfdInv, NEW f \in TimerFd, NEW c \in TimeClass, TimerfdCreate(f, c)
    PROVE  TimerfdInv'
<1> DEFINE tm == [NoTimer EXCEPT !.class = c]
<1>1. tm \in TimerOf /\ tm.expires = 0 /\ tm.ticks = 0
  BY TimersAssumption DEF NoTimer, TimerOf
<1>2. /\ timerfds' = [timerfds EXCEPT ![f] = tm] /\ timerfds[f] = NoTimer
      /\ UNCHANGED <<deadlines, nextDeadline, pass, readers>>
  BY DEF TimerfdCreate, Live
<1> HIDE DEF tm
<1>3. TimersTyped /\ Indexed(f) /\ SleepsOnce /\ Published
  BY DEF TimerfdInv
<1>4. /\ told' \in [TimerFd -> ToldOf] /\ \A g \in TimerFd : g # f => told'[g] = told[g]
      /\ told'[f].first = 0
  BY <1>3, ToldReset DEF TimerfdCreate
<1>5. timerfds'[f] = tm
  BY <1>2, <1>3 DEF TimersTyped
<1>6. Holds(deadlines', f, tm)
  BY <1>1, <1>2, <1>3 DEF Holds, Mine, Indexed, NoTimer
<1>7. Indexed(f)'
  BY <1>1, <1>3, <1>5, <1>6, IndexedNext
<1>8. Ticked(f)' /\ Awake(f)'
  BY <1>1, <1>4, <1>5 DEF Ticked, Awake
<1>9. Published' /\ SleepsOnce' /\ Others(deadlines', f) /\ pass' \in [TimeCpu -> PassOf]
  BY <1>2, <1>3 DEF Published, SleepsOnce, Others, TimersTyped
<1> QED BY <1>1, <1>2, <1>4, <1>7, <1>8, <1>9, TimerStep

LEMMA SettimeKeeps ==
    ASSUME TimerfdInv, now \in Nat, NEW f \in TimerFd, TimerfdSettime(f)
    PROVE  TimerfdInv'
<1>0. TimersTyped /\ Indexed(f) /\ SleepsOnce /\ timerfds[f] \in TimerOf
  BY DEF TimerfdInv, TimersTyped
<1>1. PICK at \in Stamps, value \in TimerValues, interval \in TimerIntervals, abs \in BOOLEAN :
          LET expires == IF value = 0 THEN 0 ELSE IF abs THEN value ELSE at + value
              old == Refreshed(timerfds[f], at)
              set == [old EXCEPT !.interval = interval, !.ticks = 0, !.expires = expires]
              new == Refreshed(set, at)
              cleared == Reindexed(deadlines, f, timerfds[f], old) \ {Entry(f, old)}
          IN /\ timerfds' = [timerfds EXCEPT ![f] = new]
             /\ deadlines' = cleared \cup IF new.expires = 0 THEN {} ELSE {Entry(f, new)}
             /\ Publish(deadlines')
             /\ Announce(f, 0, new)
             /\ told' = [told EXCEPT ![f] = [first |-> expires, read |-> 0, peeked |-> FALSE]]
  BY DEF TimerfdSettime
<1>2. at \in Nat /\ value \in Nat /\ interval \in Nat
  BY StampsFacts, TimersAssumption
<1> DEFINE expires == IF value = 0 THEN 0 ELSE IF abs THEN value ELSE at + value
           old == Refreshed(timerfds[f], at)
           set == [old EXCEPT !.interval = interval, !.ticks = 0, !.expires = expires]
           new == Refreshed(set, at)
           index == Reindexed(deadlines, f, timerfds[f], old)
<1>3. /\ timerfds' = [timerfds EXCEPT ![f] = new]
      /\ deadlines' = (index \ {Entry(f, old)}) \cup IF new.expires = 0 THEN {} ELSE {Entry(f, new)}
      /\ Publish(deadlines') /\ Announce(f, 0, new)
      /\ told' = [told EXCEPT ![f] = [first |-> expires, read |-> 0, peeked |-> FALSE]]
      /\ pass' = pass
  BY <1>1, ZenonT(40) DEF TimerfdSettime
<1>4. expires \in Nat
  BY <1>2
<1>5. old \in TimerOf /\ old.class = timerfds[f].class
  BY <1>0, <1>2, RefreshedFacts
<1> HIDE DEF expires
<1>6. Others(index, f) /\ \A e \in index : e.id = f => e = Entry(f, old)
  <2>1. Others(index, f)
    BY <1>0, <1>5, ReindexedFacts
  <2>2. CASE timerfds[f].expires = old.expires
    BY <1>5, <2>2, <1>0, <2>1 DEF Reindexed, Entry, Indexed
  <2>3. CASE timerfds[f].expires # old.expires
    <3>1. Holds(index, f, old)
      BY <1>0, <1>5, <2>3, ReindexedFacts
    <3> HIDE DEF index, old
    <3> QED BY <2>1, <3>1 DEF Holds, Mine
  <2> QED BY <2>2, <2>3
<1>7. set \in TimerOf /\ set.class = old.class /\ set.interval = interval /\ set.ticks = 0 /\ set.expires = expires
  <2> HIDE DEF old
  <2> DEFINE one == [old EXCEPT !.interval = interval]
             two == [one EXCEPT !.ticks = 0]
             three == [two EXCEPT !.expires = expires]
  <2>1. one \in TimerOf /\ one.class = old.class /\ one.interval = interval
    BY <1>2, <1>5 DEF TimerOf
  <2> HIDE DEF one
  <2>2. two \in TimerOf /\ two.class = one.class /\ two.interval = one.interval /\ two.ticks = 0
    BY <2>1 DEF TimerOf
  <2> HIDE DEF two
  <2>3. /\ three \in TimerOf /\ three.class = two.class /\ three.interval = two.interval
        /\ three.ticks = two.ticks /\ three.expires = expires
    BY <1>4, <2>2 DEF TimerOf
  <2>4. set = three
    BY DEF one, two
  <2> HIDE DEF set, three
  <2> QED BY <2>1, <2>2, <2>3, <2>4
<1> HIDE DEF set, old, index
<1>8. new \in TimerOf
  BY <1>2, <1>7, RefreshedFacts
<1>9. Counted(expires, 0, set)
  BY <1>2, <1>4, <1>7 DEF Counted
<1>10. Counted(expires, 0, new)
  BY <1>2, <1>4, <1>7, <1>9, CountKept
<1> HIDE DEF new
<1>11. Entry(f, old).id = f /\ Entry(f, new) \in IndexOf /\ Entry(f, new).id = f
  BY <1>5, <1>8, EntryFacts
<1>12. Others(deadlines', f) /\ Holds(deadlines', f, new)
  BY <1>3, <1>6, <1>11 DEF Others, Holds, Mine
<1>13. timerfds'[f] = new
  BY <1>0, <1>3 DEF TimersTyped
<1>14. Indexed(f)'
  BY <1>0, <1>8, <1>12, <1>13, IndexedNext
<1>15. /\ told' \in [TimerFd -> ToldOf] /\ \A g \in TimerFd : g # f => told'[g] = told[g]
       /\ told'[f].first = expires /\ told'[f].read = 0
  BY <1>0, <1>3, <1>4, ToldReset
<1>16. Ticked(f)'
  BY <1>10, <1>13, <1>15 DEF Ticked
<1>17. /\ SleepsOnce' /\ \A r \in TimeReader : \A g : g \in readers'[r] => g \in readers[r]
       /\ new.ticks # 0 => \A r \in TimeReader : f \notin readers'[r]
  BY <1>0, <1>3, AnnounceFacts
<1>18. Awake(f)'
  BY <1>13, <1>17 DEF Awake
<1>19. pass' \in [TimeCpu -> PassOf] /\ Published'
  BY <1>0, <1>3, PublishFacts DEF TimersTyped
<1> QED BY <1>3, <1>8, <1>12, <1>14, <1>15, <1>16, <1>17, <1>18, <1>19, TimerStep

LEMMA RefreshFacts ==
    ASSUME TimerfdInv, NEW f \in TimerFd, NEW tm \in TimerOf, tm.class = timerfds[f].class,
           Refresh(f, tm)
    PROVE  /\ timerfds' = [timerfds EXCEPT ![f] = tm] /\ timerfds'[f] = tm
           /\ Others(deadlines', f) /\ Published'
           /\ tm.expires = timerfds[f].expires => deadlines' = deadlines
           /\ tm.expires # timerfds[f].expires => Holds(deadlines', f, tm)
  BY ReindexedFacts, PublishFacts DEF TimerfdInv, Refresh, TimersTyped

\* A reader sees the timer as it is: what the index needs, pass or no pass.
LEMMA RefreshIndexed ==
    ASSUME TimerfdInv, NEW f \in TimerFd, NEW tm \in TimerOf, tm.class = timerfds[f].class,
           Refresh(f, tm), pass' = pass
    PROVE  Indexed(f)'
  BY RefreshFacts, IndexedNext DEF TimerfdInv

LEMMA PeekKeeps ==
    ASSUME TimerfdInv, now \in Nat, NEW f \in TimerFd, TimerfdPeek(f)
    PROVE  TimerfdInv'
<1>0. /\ TimersTyped /\ SleepsOnce /\ Ticked(f) /\ timerfds[f] \in TimerOf /\ told[f] \in ToldOf
      /\ told \in [TimerFd -> ToldOf]
  BY DEF TimerfdInv, TimersTyped
<1>1. PICK at \in Stamps : Due(timerfds[f], at) /\ Refresh(f, Refreshed(timerfds[f], at))
  BY DEF TimerfdPeek
<1>2. at \in Nat
  BY StampsFacts
<1> DEFINE tm == Refreshed(timerfds[f], at)
<1>3. tm \in TimerOf /\ tm.class = timerfds[f].class
  BY <1>0, <1>2, RefreshedFacts
<1>4. /\ told' = [told EXCEPT ![f].peeked = TRUE] /\ pass' = pass /\ readers' = readers /\ Live(f)
      /\ Refresh(f, tm)
  BY <1>1 DEF TimerfdPeek
<1>5. /\ told' \in [TimerFd -> ToldOf] /\ \A g \in TimerFd : g # f => told'[g] = told[g]
      /\ told'[f].first = told[f].first /\ told'[f].read = told[f].read
  BY <1>0, <1>4 DEF Flag, ToldOf
<1>6. told'[f].peeked = TRUE
  BY <1>0, <1>4, Zenon DEF ToldOf
<1>7. Ticked(f)'
  <2>1. told[f].first \in Nat /\ told[f].read \in Nat
    BY <1>0 DEF ToldOf
  <2>2. told[f].first # 0 => Counted(told[f].first, told[f].read, tm)
    BY <1>0, <1>2, <1>4, <2>1, CountKept DEF Ticked
  <2> HIDE DEF tm
  <2> QED BY <1>3, <1>4, <1>5, <2>2, RefreshFacts DEF Ticked
<1> HIDE DEF tm
<1>8. Awake(f)'
  BY <1>6 DEF Awake
<1>9. Indexed(f)'
  BY <1>3, <1>4, RefreshIndexed
<1>10. SleepsOnce' /\ pass' \in [TimeCpu -> PassOf]
  BY <1>0, <1>4 DEF SleepsOnce, TimersTyped
<1> QED BY <1>3, <1>4, <1>5, <1>7, <1>8, <1>9, <1>10, RefreshFacts, TimerStep

LEMMA ReadKeeps ==
    ASSUME TimerfdInv, now \in Nat, NEW r \in TimeReader, NEW f \in TimerFd, TimerfdRead(r, f)
    PROVE  TimerfdInv'
<1>0. /\ TimersTyped /\ SleepsOnce /\ Ticked(f) /\ timerfds[f] \in TimerOf /\ told[f] \in ToldOf
      /\ told \in [TimerFd -> ToldOf]
  BY DEF TimerfdInv, TimersTyped
<1>1. PICK at \in Stamps :
          LET tm == Refreshed(timerfds[f], at) IN
          /\ Refresh(f, [tm EXCEPT !.ticks = 0])
          /\ told' = [told EXCEPT ![f].read = @ + tm.ticks]
          /\ readers' = [readers EXCEPT ![r] = IF tm.ticks = 0 THEN {f} ELSE {}]
  BY DEF TimerfdRead
<1>2. at \in Nat
  BY StampsFacts
<1> DEFINE tm == Refreshed(timerfds[f], at)
           new == [tm EXCEPT !.ticks = 0]
<1>3. /\ Refresh(f, new) /\ told' = [told EXCEPT ![f].read = told[f].read + tm.ticks]
      /\ readers' = [readers EXCEPT ![r] = IF tm.ticks = 0 THEN {f} ELSE {}]
      /\ pass' = pass /\ Live(f)
  BY <1>0, <1>1 DEF TimerfdRead
<1>4. tm \in TimerOf /\ tm.class = timerfds[f].class
  BY <1>0, <1>2, RefreshedFacts
<1>5. told[f].first \in Nat /\ told[f].read \in Nat
  BY <1>0 DEF ToldOf
<1>6. told[f].first # 0 => Counted(told[f].first, told[f].read, tm)
  BY <1>0, <1>2, <1>3, <1>5, CountKept DEF Ticked
<1> HIDE DEF tm
<1>7. /\ new \in TimerOf /\ new.class = tm.class /\ new.ticks = 0
      /\ new.expires = tm.expires /\ new.interval = tm.interval
  BY <1>4 DEF TimerOf
<1> HIDE DEF new
<1>8. tm.ticks \in Nat /\ tm.interval \in Nat /\ tm.expires \in Nat
  BY <1>4 DEF TimerOf
<1>9. /\ told' \in [TimerFd -> ToldOf] /\ \A g \in TimerFd : g # f => told'[g] = told[g]
      /\ told'[f].first = told[f].first /\ told'[f].read = told[f].read + tm.ticks
  BY <1>5, <1>8, <1>0, <1>3 DEF ToldOf
<1>10. told[f].first # 0 => Counted(told[f].first, told[f].read + tm.ticks, new)
  BY <1>5, <1>6, <1>7, <1>8 DEF Counted
<1>11. Ticked(f)' /\ Awake(f)'
  BY <1>3, <1>4, <1>7, <1>9, <1>10, RefreshFacts DEF Ticked, Awake
<1>12. Indexed(f)'
  BY <1>3, <1>4, <1>7, RefreshIndexed
<1>13. SleepsOnce' /\ \A q \in TimeReader : \A g : g # f /\ g \in readers'[q] => g \in readers[q]
  BY <1>0, <1>3 DEF SleepsOnce
<1>14. pass' \in [TimeCpu -> PassOf]
  BY <1>0, <1>3 DEF TimersTyped
<1> QED BY <1>3, <1>4, <1>7, <1>9, <1>11, <1>12, <1>13, <1>14, RefreshFacts, TimerStep

LEMMA DropKeeps ==
    ASSUME TimerfdInv, NEW f \in TimerFd, TimerfdDrop(f)
    PROVE  TimerfdInv'
<1>1. TimersTyped /\ Indexed(f) /\ SleepsOnce /\ timerfds[f] \in TimerOf
  BY DEF TimerfdInv, TimersTyped
<1>2. NoTimer \in TimerOf /\ NoTimer.expires = 0 /\ NoTimer.ticks = 0
  BY TimersAssumption DEF NoTimer, TimerOf
<1>3. /\ timerfds' = [timerfds EXCEPT ![f] = NoTimer]
      /\ deadlines' = deadlines \ {Entry(f, timerfds[f])} /\ Publish(deadlines')
      /\ UNCHANGED <<pass, readers, told>>
  BY DEF TimerfdDrop
<1>4. timerfds'[f] = NoTimer
  BY <1>1, <1>3 DEF TimersTyped
<1>5. Entry(f, timerfds[f]).id = f
  BY <1>1, EntryFacts
<1>6. Others(deadlines', f)
  BY <1>1, <1>3, <1>5 DEF Others, TimersTyped
<1>7. Holds(deadlines', f, NoTimer)
  BY <1>1, <1>2, <1>3 DEF Holds, Mine, Indexed
<1>8. Indexed(f)'
  BY <1>1, <1>2, <1>4, <1>7, IndexedNext
<1>9. Ticked(f)' /\ Awake(f)'
  BY <1>2, <1>4 DEF Ticked, Awake, Live
<1>10. /\ SleepsOnce' /\ Published' /\ pass' \in [TimeCpu -> PassOf] /\ told' \in [TimerFd -> ToldOf]
       /\ \A g \in TimerFd : told'[g] = told[g] /\ \A r \in TimeReader : readers'[r] = readers[r]
  BY <1>1, <1>3, PublishFacts DEF SleepsOnce, TimersTyped
<1> QED BY <1>2, <1>3, <1>6, <1>8, <1>9, <1>10, TimerStep

---------------------------------------------------------------------------
(* The wake-up pass                                                        *)

LEMMA WakeOneKeeps ==
    ASSUME TimerfdInv, NEW q \in TimeCpu, NEW f \in TimerFd, WakeOne(q, f)
    PROVE  TimerfdInv'
<1> DEFINE tm == Refreshed(timerfds[f], pass[q].at)
<1>0. /\ TimersTyped /\ Indexed(f) /\ SleepsOnce /\ Ticked(f) /\ Awake(f)
      /\ timerfds[f] \in TimerOf /\ told[f] \in ToldOf /\ pass \in [TimeCpu -> PassOf] /\ pass[q].at \in Nat
  BY DEF TimerfdInv, TimersTyped, PassOf
<1>1. /\ pass' = [pass EXCEPT ![q].ids = pass[q].ids \ {f}] /\ told' = told
      /\ Refresh(f, tm) /\ Announce(f, timerfds[f].ticks, tm)
  BY <1>0 DEF WakeOne
<1>2. /\ tm \in TimerOf /\ tm.class = timerfds[f].class
      /\ ~Due(timerfds[f], pass[q].at) => tm = timerfds[f]
      /\ Due(timerfds[f], pass[q].at) => tm.expires # timerfds[f].expires
  <2>1. Due(timerfds[f], pass[q].at) => tm.expires # timerfds[f].expires
    <3> SUFFICES ASSUME Due(timerfds[f], pass[q].at) PROVE tm.expires # timerfds[f].expires
      OBVIOUS
    <3>1. PICK n \in Nat : MovedOn(timerfds[f], tm, n)
      BY <1>0, RefreshedFacts
    <3> HIDE DEF tm
    <3> QED BY <3>1 DEF MovedOn, Due
  <2> QED BY <1>0, <2>1, RefreshedFacts
<1>3. told[f].first \in Nat /\ told[f].read \in Nat
  BY <1>0 DEF ToldOf
<1>4. Live(f) /\ told[f].first # 0 => Counted(told[f].first, told[f].read, tm)
  BY <1>0, <1>3, CountKept DEF Ticked
<1> HIDE DEF tm
<1>5. /\ pass' \in [TimeCpu -> PassOf]
      /\ \A p \in TimeCpu : /\ pass'[p].at = pass[p].at
                            /\ pass'[p].ids = IF p = q THEN pass[p].ids \ {f} ELSE pass[p].ids
  BY <1>0, <1>1 DEF PassOf
<1>6. /\ timerfds' = [timerfds EXCEPT ![f] = tm] /\ timerfds'[f] = tm
      /\ Others(deadlines', f) /\ Published'
      /\ tm.expires = timerfds[f].expires => deadlines' = deadlines
      /\ tm.expires # timerfds[f].expires => Holds(deadlines', f, tm)
  BY <1>1, <1>2, RefreshFacts
<1>7. Indexed(f)'
  <2>1. CASE Due(timerfds[f], pass[q].at)
    BY <1>0, <1>2, <1>6, <2>1, IndexedNext
  <2>2. CASE ~Due(timerfds[f], pass[q].at) /\ timerfds[f].expires = 0
    BY <1>0, <1>2, <1>6, <2>2, IndexedNext DEF Indexed, Holds, Mine
  <2>3. CASE ~Due(timerfds[f], pass[q].at) /\ timerfds[f].expires # 0
    BY <1>0, <2>3, <1>2, <1>5, <1>6, IndexedNext DEF Due, TimerOf
  <2> QED BY <2>1, <2>2, <2>3
<1>8. Live(f)' => Live(f)
  BY <1>2, <1>6 DEF Live, Due, NoTimer
<1>9. Ticked(f)'
  BY <1>1, <1>4, <1>6, <1>8 DEF Ticked
<1>10. /\ SleepsOnce' /\ \A r \in TimeReader : \A g : g \in readers'[r] => g \in readers[r]
       /\ timerfds[f].ticks = 0 /\ tm.ticks # 0 => \A r \in TimeReader : f \notin readers'[r]
  BY <1>0, <1>1, AnnounceFacts
<1>11. Awake(f)'
  BY <1>0, <1>1, <1>6, <1>10 DEF Awake
<1>12. told' \in [TimerFd -> ToldOf] /\ \A g \in TimerFd : told'[g] = told[g]
  BY <1>0, <1>1 DEF TimersTyped
<1> QED BY <1>2, <1>5, <1>6, <1>7, <1>9, <1>10, <1>11, <1>12, TimerStep

LEMMA WakePassKeeps ==
    ASSUME TimerfdInv, now \in Nat, NEW q \in TimeCpu, NEW c \in TimeClass, WakePass(q, c)
    PROVE  TimerfdInv'
<1> DEFINE at == NextOf(deadlines, c)
           hit == {e \in deadlines : e.class = c /\ e.at = at}
           time == IF pass[q] = IdlePass THEN now ELSE pass[q].at
           turn == [class |-> c, at |-> time, ids |-> {e.id : e \in hit}]
<1>0. TimersTyped /\ SleepsOnce /\ deadlines \subseteq IndexOf /\ pass \in [TimeCpu -> PassOf]
  BY DEF TimerfdInv, TimersTyped
<1>1. /\ pass[q].ids = {} /\ at <= time /\ pass' = [pass EXCEPT ![q] = turn]
      /\ deadlines' = deadlines \ hit /\ Publish(deadlines') /\ UNCHANGED <<timerfds, readers, told>>
  BY DEF WakePass
<1>2. time \in Nat /\ {e.id : e \in hit} \in SUBSET TimerFd
  BY <1>0 DEF PassOf, IndexOf
<1> HIDE DEF time
<1>3. turn \in PassOf /\ turn.at = time /\ turn.ids = {e.id : e \in hit}
  BY <1>2 DEF PassOf
<1> HIDE DEF turn, at
<1>4. pass' \in [TimeCpu -> PassOf] /\ pass'[q] = turn /\ \A p \in TimeCpu : p # q => pass'[p] = pass[p]
  BY <1>0, <1>1, <1>3
<1>5. ASSUME NEW f \in TimerFd
      PROVE  Indexed(f)' /\ Ticked(f)' /\ Awake(f)'
  <2>1. Indexed(f) /\ Ticked(f) /\ Awake(f)
    BY DEF TimerfdInv
  <2>2. Ticked(f)' /\ Awake(f)'
    BY <1>1, <2>1 DEF Ticked, Live, Awake
  <2> DEFINE mine == {e \in deadlines : e.id = f}
             left == {e \in deadlines' : e.id = f}
  <2>3. left \subseteq mine /\ mine \subseteq {Entry(f, timerfds[f])}
    BY <1>1, <2>1 DEF Indexed
  <2>4. timerfds[f].expires = 0 => mine = {}
    BY <2>1 DEF Indexed
  <2>5. ASSUME timerfds[f].expires # 0, left = {}
        PROVE  \E p \in TimeCpu : f \in pass'[p].ids /\ timerfds[f].expires <= pass'[p].at
    BY <2>1, <2>5, <1>1, <1>4, <2>3, <1>3 DEF Indexed, Entry
  <2>6. Indexed(f)'
    BY <1>1, <2>3, <2>4, <2>5 DEF Indexed
  <2> QED BY <2>2, <2>6
<1>6. TimersTyped' /\ SleepsOnce' /\ Published'
  BY <1>0, <1>1, <1>4, PublishFacts DEF TimersTyped, SleepsOnce
<1> QED BY <1>5, <1>6 DEF TimerfdInv

\* A step that leaves the timers, the index and the timers in hand alone.
LEMMA TimersQuiet ==
    ASSUME TimerfdInv, UNCHANGED <<timerfds, deadlines, nextDeadline, readers, told>>,
           pass' \in [TimeCpu -> PassOf],
           \A p \in TimeCpu : pass'[p] = pass[p] \/ pass[p].ids = {}
    PROVE  TimerfdInv'
  BY DEF TimerfdInv, TimersTyped, SleepsOnce, Published, Indexed, Ticked, Awake, Live

LEMMA WakeEndKeeps ==
    ASSUME TimerfdInv, NEW q \in TimeCpu, WakeEnd(q)
    PROVE  TimerfdInv'
  BY TimersAssumption, TimersQuiet DEF IdlePass, PassOf, TimerfdInv, TimersTyped, WakeEnd

---------------------------------------------------------------------------
(* itimers                                                                 *)

\* The index of a table of itimers.
Alarms(table) == {[at |-> table[g].deadline, id |-> g] : g \in {h \in TimerGroup : table[h].deadline # 0}}

LEMMA AlarmsPublished ==
    ASSUME itimers' \in [TimerGroup -> AlarmOf], itDeadlines' = Alarms(itimers'), PublishIt
    PROVE  ItimerInv'
  BY DEF ItimerInv, AlarmsExact, Alarms, PublishIt

\* One group's itimer is set, or taken away.
LEMMA AlarmSet ==
    ASSUME ItimerInv, NEW g \in TimerGroup, NEW new \in AlarmOf,
           itimers' = [itimers EXCEPT ![g] = new],
           itDeadlines' = (itDeadlines \ {[at |-> itimers[g].deadline, id |-> g]})
                            \cup IF new.deadline = 0 THEN {} ELSE {[at |-> new.deadline, id |-> g]}
    PROVE  itimers' \in [TimerGroup -> AlarmOf] /\ itDeadlines' = Alarms(itimers')
<1>1. itimers \in [TimerGroup -> AlarmOf] /\ itDeadlines = Alarms(itimers)
  BY DEF ItimerInv, AlarmsExact, Alarms
<1>2. /\ itimers' \in [TimerGroup -> AlarmOf] /\ itimers'[g] = new
      /\ \A h \in TimerGroup : h # g => itimers'[h] = itimers[h]
  BY <1>1
<1>3. \A e : e \in itDeadlines <=> \E h \in TimerGroup : itimers[h].deadline # 0 /\ e = [at |-> itimers[h].deadline, id |-> h]
  BY <1>1 DEF Alarms
<1>4. \A e : e \in Alarms(itimers') <=> \E h \in TimerGroup : itimers'[h].deadline # 0 /\ e = [at |-> itimers'[h].deadline, id |-> h]
  BY DEF Alarms
<1>5. \A h \in TimerGroup : h # g => [at |-> itimers[h].deadline, id |-> h] # [at |-> itimers[g].deadline, id |-> g]
  OBVIOUS
<1>6. \A e : e \in itDeadlines' <=> \E h \in TimerGroup : itimers'[h].deadline # 0 /\ e = [at |-> itimers'[h].deadline, id |-> h]
  <2> SUFFICES ASSUME NEW e
               PROVE  e \in itDeadlines' <=> \E h \in TimerGroup : itimers'[h].deadline # 0
                                                /\ e = [at |-> itimers'[h].deadline, id |-> h]
    OBVIOUS
  <2>1. ASSUME e \in itDeadlines'
        PROVE  \E h \in TimerGroup : itimers'[h].deadline # 0 /\ e = [at |-> itimers'[h].deadline, id |-> h]
    BY <1>2, <1>3, <2>1
  <2>2. ASSUME NEW h \in TimerGroup, itimers'[h].deadline # 0, e = [at |-> itimers'[h].deadline, id |-> h]
        PROVE  e \in itDeadlines'
    BY <1>2, <2>2, <1>3, <1>5
  <2> QED BY <2>1, <2>2
<1> QED BY <1>2, <1>4, <1>6

LEMMA SetitimerKeeps ==
    ASSUME ItimerInv, now \in Nat, NEW g \in TimerGroup, Setitimer(g)
    PROVE  ItimerInv'
<1>1. PICK at \in Stamps, value \in TimerValues, interval \in TimerIntervals :
          LET d == IF value = 0 THEN 0 ELSE at + value IN
          /\ itimers' = [itimers EXCEPT ![g] = [deadline |-> d, interval |-> interval]]
          /\ itDeadlines' = (itDeadlines \ {[at |-> itimers[g].deadline, id |-> g]})
                            \cup IF d = 0 THEN {} ELSE {[at |-> d, id |-> g]}
  BY DEF Setitimer
<1> DEFINE d == IF value = 0 THEN 0 ELSE at + value
           new == [deadline |-> d, interval |-> interval]
<1>2. d \in Nat /\ interval \in Nat
  BY StampsFacts, TimersAssumption
<1>3. new \in AlarmOf /\ new.deadline = d
  BY <1>2 DEF AlarmOf
<1>4. /\ itimers' = [itimers EXCEPT ![g] = new]
      /\ itDeadlines' = (itDeadlines \ {[at |-> itimers[g].deadline, id |-> g]})
                            \cup IF new.deadline = 0 THEN {} ELSE {[at |-> new.deadline, id |-> g]}
  BY <1>1
<1> HIDE DEF new
<1>5. itimers' \in [TimerGroup -> AlarmOf] /\ itDeadlines' = Alarms(itimers')
  BY <1>3, <1>4, AlarmSet
<1> QED BY <1>5, AlarmsPublished DEF Setitimer

LEMMA ReapedKeeps ==
    ASSUME ItimerInv, NEW g \in TimerGroup, GroupReaped(g)
    PROVE  ItimerInv'
<1> DEFINE new == [deadline |-> 0, interval |-> 0]
<1>1. new \in AlarmOf /\ new.deadline = 0
  BY DEF AlarmOf
<1>2. /\ itimers' = [itimers EXCEPT ![g] = new]
      /\ itDeadlines' = (itDeadlines \ {[at |-> itimers[g].deadline, id |-> g]})
                            \cup IF new.deadline = 0 THEN {} ELSE {[at |-> new.deadline, id |-> g]}
  BY DEF GroupReaped, Unindexed
<1> HIDE DEF new
<1>3. itimers' \in [TimerGroup -> AlarmOf] /\ itDeadlines' = Alarms(itimers')
  BY <1>1, <1>2, AlarmSet
<1> QED BY <1>3, AlarmsPublished DEF GroupReaped

LEMMA NextAlarmNat ==
    ASSUME NEW tm \in AlarmOf, NEW at \in Nat, tm.deadline <= at, tm.interval # 0
    PROVE  NextAlarm(tm, at) \in Nat
  BY DEF AlarmOf, NextAlarm

LEMMA ExpiredKeeps ==
    ASSUME ItimerInv, now \in Nat, TakeExpired
    PROVE  ItimerInv'
<1> DEFINE hit == {g \in TimerGroup : \E e \in itDeadlines :
                     e.id = g /\ e.at <= now /\ e.at = itimers[g].deadline}
           new == [g \in TimerGroup |->
                   IF g \notin hit THEN itimers[g]
                   ELSE IF itimers[g].interval = 0 THEN [deadline |-> 0, interval |-> 0]
                   ELSE [itimers[g] EXCEPT !.deadline = NextAlarm(itimers[g], now)]]
<1>1. /\ itimers' = new /\ PublishIt
      /\ itDeadlines' = {e \in itDeadlines : e.at > now}
                      \cup {[at |-> new[g].deadline, id |-> g] : g \in {h \in hit : new[h].deadline # 0}}
  BY DEF TakeExpired
<1>2. itimers \in [TimerGroup -> AlarmOf] /\ itDeadlines = Alarms(itimers)
  BY DEF ItimerInv, AlarmsExact, Alarms
<1>3. \A e : e \in itDeadlines <=> \E h \in TimerGroup : itimers[h].deadline # 0 /\ e = [at |-> itimers[h].deadline, id |-> h]
  BY <1>2 DEF Alarms
<1>4. \A g \in TimerGroup : itimers[g].deadline \in Nat
  BY <1>2 DEF AlarmOf
<1>5. \A g \in TimerGroup : g \in hit <=> itimers[g].deadline # 0 /\ itimers[g].deadline <= now
  <2> SUFFICES ASSUME NEW g \in TimerGroup
               PROVE  g \in hit <=> itimers[g].deadline # 0 /\ itimers[g].deadline <= now
    OBVIOUS
  <2>1. ASSUME g \in hit
        PROVE  itimers[g].deadline # 0 /\ itimers[g].deadline <= now
    BY <2>1, <1>3
  <2>2. ASSUME itimers[g].deadline # 0, itimers[g].deadline <= now
        PROVE  g \in hit
    <3> DEFINE e == [at |-> itimers[g].deadline, id |-> g]
    <3>1. e \in itDeadlines
      BY <1>3, <2>2
    <3>2. e.id = g /\ e.at = itimers[g].deadline
      OBVIOUS
    <3> HIDE DEF e
    <3> QED BY <2>2, <3>1, <3>2
  <2> QED BY <2>1, <2>2
<1> DEFINE zero == [deadline |-> 0, interval |-> 0]
           next(g) == [itimers[g] EXCEPT !.deadline = NextAlarm(itimers[g], now)]
<1>6. \A g \in hit : itimers[g].interval # 0 => next(g) \in AlarmOf
  <2> SUFFICES ASSUME NEW g \in hit, itimers[g].interval # 0 PROVE next(g) \in AlarmOf
    OBVIOUS
  <2>1. itimers[g] \in AlarmOf /\ itimers[g].deadline <= now
    BY <1>2, <1>5
  <2> DEFINE n == NextAlarm(itimers[g], now)
  <2>2. n \in Nat
    BY <2>1, NextAlarmNat
  <2> HIDE DEF n
  <2>3. [itimers[g] EXCEPT !.deadline = n] \in AlarmOf
    BY <2>1, <2>2 DEF AlarmOf
  <2> QED BY <2>3 DEF n
<1>7. zero \in AlarmOf
  BY DEF AlarmOf
<1>8. \A g \in TimerGroup : new[g] = IF g \notin hit THEN itimers[g] ELSE IF itimers[g].interval = 0 THEN zero ELSE next(g)
  OBVIOUS
<1>9. new = [g \in TimerGroup |-> new[g]]
  OBVIOUS
<1> HIDE DEF new, zero, next
<1>10. \A g \in TimerGroup : new[g] \in AlarmOf /\ (g \notin hit => new[g] = itimers[g])
  BY <1>2, <1>6, <1>7, <1>8
<1>11. itimers' \in [TimerGroup -> AlarmOf]
  BY <1>1, <1>9, <1>10
<1> HIDE DEF hit
<1>12. itDeadlines' = Alarms(new)
  <2>1. \A e : e \in Alarms(new) <=> \E h \in TimerGroup : new[h].deadline # 0 /\ e = [at |-> new[h].deadline, id |-> h]
    BY DEF Alarms
  <2>2. ASSUME NEW e \in itDeadlines' PROVE e \in Alarms(new)
    BY <1>3, <1>4, <1>5, <1>10, <2>1, <1>1, <2>2 DEF hit
  <2>3. ASSUME NEW h \in TimerGroup, new[h].deadline # 0
        PROVE  [at |-> new[h].deadline, id |-> h] \in itDeadlines'
    BY <1>1, <2>3, <1>4, <1>5, <1>10, <1>3
  <2> QED BY <2>1, <2>2, <2>3
<1> QED BY <1>1, <1>11, <1>12, AlarmsPublished

---------------------------------------------------------------------------
(* Every step                                                              *)

LEMMA ItimerQuiet ==
    ASSUME ItimerInv, UNCHANGED itVars
    PROVE  ItimerInv'
  BY DEF ItimerInv, AlarmsExact, itVars
LEMMA TimerfdQuiet ==
    ASSUME TimerfdInv, UNCHANGED <<timerfds, deadlines, nextDeadline, pass, readers, told>>
    PROVE  TimerfdInv'
  BY TimersQuiet DEF TimerfdInv, TimersTyped

LEMMA TimersStep ==
    ASSUME TimersInv, TimersNext
    PROVE  TimersInv'
<1>0. now \in Nat /\ TimerfdInv /\ ItimerInv
  BY DEF TimersInv
<1>1. ASSUME NEW f \in TimerFd,
             \/ \E c \in TimeClass : TimerfdCreate(f, c)
             \/ TimerfdSettime(f) \/ TimerfdPeek(f) \/ TimerfdDrop(f)
             \/ \E p \in TimeCpu : WakeOne(p, f)
             \/ \E r \in TimeReader : TimerfdRead(r, f)
      PROVE  TimersInv'
  <2>1. now' = now /\ UNCHANGED itVars
    BY <1>1 DEF TimerfdCreate, TimerfdSettime, TimerfdPeek, TimerfdDrop, WakeOne, TimerfdRead
  <2>2. TimerfdInv'
    BY <1>0, <1>1, CreateKeeps, SettimeKeeps, PeekKeeps, DropKeeps, WakeOneKeeps, ReadKeeps
  <2> QED BY <1>0, <2>1, <2>2, ItimerQuiet DEF TimersInv
<1>2. ASSUME NEW p \in TimeCpu, WakeEnd(p) \/ \E c \in TimeClass : WakePass(p, c)
      PROVE  TimersInv'
  BY <1>2, <1>0, WakeEndKeeps, WakePassKeeps, ItimerQuiet DEF WakeEnd, WakePass, TimersInv
<1>3. CASE TakeExpired \/ \E g \in TimerGroup : Setitimer(g) \/ GroupReaped(g)
  <2>1. UNCHANGED tfVars
    BY <1>3 DEF TakeExpired, Setitimer, GroupReaped
  <2>2. ItimerInv'
    BY <1>0, <1>3, ExpiredKeeps, SetitimerKeeps, ReapedKeeps
  <2>3. TimerfdInv'
    BY <1>0, <2>1, TimerfdQuiet DEF tfVars
  <2> QED BY <1>0, <2>1, <2>2, <2>3 DEF TimersInv, tfVars
<1>4. CASE ClockTick
  BY <1>0, <1>4, TimerfdQuiet, ItimerQuiet DEF ClockTick, TimersInv
<1> QED BY <1>1, <1>2, <1>3, <1>4 DEF TimersNext

\* The timers are exact for any number of timers, threads and CPUs and for
\* any length of time: an armed timer is in the index or in the hands of a
\* wake-up pass, the published deadline is the earliest, no expiration is
\* counted twice or missed, and its readers are woken (fs/timerfd.rs,
\* process/itimer.rs).
THEOREM TimersHold == TimersSpec => []TimersExact
<1>1. TimersInit => TimersInv
  BY TimersInvInit
<1>2. TimersInv /\ [TimersNext]_timerVars => TimersInv'
  BY TimersStep, TimerfdQuiet, ItimerQuiet DEF TimersInv, timerVars, itVars
<1>3. TimersInv => TimersExact
  BY TimersInvExact
<1> QED BY <1>1, <1>2, <1>3, PTL DEF TimersSpec

---------------------------------------------------------------------------
(* Job control: a look-up that takes the first of a set finds a member.    *)

LEMMA FirstIn ==
    ASSUME NEW S, S \subseteq Nat, S # {}
    PROVE  FirstOf(S) \in S
  BY HasLeast DEF FirstOf

---------------------------------------------------------------------------
(* Types, and the order in which pids are given out: a thread is not older *)
(* than its leader, its session or its parent.                             *)

TaskOf == [tgid : Nat, parent : Nat, group : Nat, session : Nat, tty : Flag]
DrainOf == [at : {"idle", "take", "send"}, todo : Seq(Nat)]

TasksTyped ==
    /\ lastPid \in 1..MaxPid
    /\ LiveTasks \subseteq 1..lastPid
    /\ task \in [LiveTasks -> TaskOf]
JcTypeOK ==
    /\ tty \in [session : Nat, group : Nat]
    /\ groupSignals \in Seq(Nat)
    /\ drain \in [1..JcCpus -> DrainOf]
    /\ jcCall \in [1..MaxPid -> Nat]
InOrder ==
    \A x \in LiveTasks :
       /\ task[x].tgid \in 1..x /\ task[x].session \in 1..x
       /\ task[x].parent < task[x].tgid
       /\ task[x].group \in 1..lastPid
\* A live thread after whom a process is named leads it.
LeadersLead == \A x, y \in LiveTasks : task[y].tgid = x => task[x].tgid = x

\* The threads of a process are in one session.
ProcessesWhole ==
    0 \notin torn =>
       \A x, y \in LiveTasks : task[x].tgid = task[y].tgid => task[x].session = task[y].session
\* The thread a group is named after is in the session of the group.
NamesakeInSession ==
    0 \notin torn =>
       \A y, z \in LiveTasks : task[y].group = z /\ z \notin torn
                                 => task[z].session = task[y].session
\* So is the process it is named after, or it has left with a session of its
\* own, after its leader had exited.
LeaderInSession ==
    0 \notin torn =>
       \A y, z \in LiveTasks : task[y].group = task[z].tgid /\ task[z].tgid \notin torn
                                 => \/ task[z].session = task[y].session
                                    \/ task[z].session > task[z].tgid

\* What the steps preserve.
TasksInv ==
    /\ TasksTyped /\ InOrder /\ LeadersLead
    /\ ProcessesWhole /\ NamesakeInSession /\ LeaderInSession /\ GroupsInSession
JobInv == TasksInv /\ JcTypeOK /\ GroupSignalsSeen

LEMMA JobInit == JcInit => JobInv
<1> SUFFICES ASSUME JcInit PROVE JobInv
  OBVIOUS
<1>1. /\ LiveTasks = {1} /\ lastPid = 1 /\ torn = {}
      /\ task[1] = [tgid |-> 1, parent |-> 0, group |-> 1, session |-> 1, tty |-> FALSE]
  BY DEF JcInit, LiveTasks
<1>2. task \in [{1} -> TaskOf]
  BY DEF JcInit, TaskOf, Flag
<1>3. TasksInv
  BY <1>1, <1>2, JobControlAssumption DEF TasksInv, TasksTyped, InOrder, LeadersLead, ProcessesWhole,
       NamesakeInSession, LeaderInSession, GroupsInSession, LiveTasks
<1>4. JcTypeOK /\ GroupSignalsSeen
  BY DEF JcInit, JcTypeOK, GroupSignalsSeen, DrainOf
<1> QED BY <1>3, <1>4 DEF JobInv

---------------------------------------------------------------------------
(* Steps of the task table                                                 *)

LEMMA TasksSame ==
    ASSUME TasksInv, TasksTyped', lastPid' = lastPid, torn' = torn, DOMAIN task' = DOMAIN task,
           \A y \in LiveTasks : /\ task'[y].tgid = task[y].tgid /\ task'[y].parent = task[y].parent
                                /\ task'[y].group = task[y].group
                                /\ task'[y].session = task[y].session
    PROVE  TasksInv'
  BY DEF TasksInv, InOrder, LeadersLead, LiveTasks, ProcessesWhole, NamesakeInSession, LeaderInSession,
     GroupsInSession

\* The history only grows, and records a process in two sessions.
LEMMA BecomesFacts ==
    ASSUME NEW ts, Becomes(ts)
    PROVE  /\ task' = ts /\ torn \subseteq torn'
           /\ 0 \notin torn' => ~Divided(ts)
  BY DEF Becomes

LEMMA ExitKeeps ==
    ASSUME TasksInv, NEW x \in LiveTasks, lastPid' = lastPid,
           Becomes([y \in LiveTasks \ {x} |-> task[y]])
    PROVE  TasksInv'
<1>1. /\ DOMAIN task' = DOMAIN task \ {x} /\ \A y \in DOMAIN task' : task'[y] = task[y]
      /\ torn \subseteq torn'
      /\ task' = [y \in LiveTasks \ {x} |-> task[y]]
  BY BecomesFacts DEF LiveTasks
<1>2. TasksTyped'
  BY <1>1 DEF TasksInv, TasksTyped, LiveTasks
<1>3. InOrder' /\ LeadersLead'
  BY <1>1 DEF TasksInv, InOrder, LeadersLead, LiveTasks
<1>4. ProcessesWhole' /\ NamesakeInSession' /\ LeaderInSession' /\ GroupsInSession'
  BY <1>1 DEF TasksInv, ProcessesWhole, NamesakeInSession, LeaderInSession, GroupsInSession, LiveTasks
<1> QED BY <1>2, <1>3, <1>4 DEF TasksInv

LEMMA CloneKeeps ==
    ASSUME TasksInv, NEW x \in LiveTasks, NEW thread \in BOOLEAN, Cloned(x, thread)
    PROVE  TasksInv'
<1> DEFINE n == lastPid + 1
           child == [task[x] EXCEPT !.tgid = IF thread THEN @ ELSE n, !.parent = IF thread THEN @ ELSE x]
<1>0. /\ lastPid \in 1..MaxPid /\ lastPid < MaxPid /\ LiveTasks \subseteq 1..lastPid
      /\ lastPid' = n /\ n \notin LiveTasks /\ task \in [LiveTasks -> TaskOf]
      /\ x \in 1..lastPid /\ MaxPid \in Nat /\ n \in Nat
  BY JobControlAssumption DEF TasksInv, TasksTyped, Cloned
<1>1. task[x] \in TaskOf /\ task[x].tgid \in 1..x /\ task[x].session \in 1..x
      /\ task[x].parent < task[x].tgid /\ task[x].group \in 1..lastPid
  BY <1>0 DEF TasksInv, InOrder
<1>2. /\ child \in TaskOf /\ child.group = task[x].group /\ child.session = task[x].session
      /\ \/ child.tgid = task[x].tgid /\ child.parent = task[x].parent
         \/ child.tgid = n /\ child.parent = x
  <2>1. CASE thread
    BY <1>0, <1>1, <2>1 DEF TaskOf
  <2>2. CASE ~thread
    <3> DEFINE half == [task[x] EXCEPT !.tgid = n]
    <3>1. child = [half EXCEPT !.parent = x]
      BY <2>2
    <3>2. n \in Nat /\ x \in Nat
      BY <1>0
    <3> HIDE DEF child, n
    <3>3. half \in TaskOf /\ half.tgid = n /\ half.group = task[x].group /\ half.session = task[x].session
      BY <1>1, <3>2 DEF TaskOf
    <3> HIDE DEF half
    <3>4. /\ child \in TaskOf /\ child.tgid = half.tgid /\ child.parent = x
          /\ child.group = half.group /\ child.session = half.session
      BY <3>1, <3>2, <3>3 DEF TaskOf
    <3> QED BY <3>3, <3>4
  <2> QED BY <2>1, <2>2
<1>3. task' = [y \in LiveTasks \cup {n} |-> IF y \in LiveTasks THEN task[y] ELSE child] /\ torn \subseteq torn'
  BY BecomesFacts DEF Cloned
<1> HIDE DEF child, n
<1>4. /\ DOMAIN task' = DOMAIN task \cup {n} /\ task'[n] = child
      /\ \A y \in LiveTasks : task'[y] = task[y]
  BY <1>0, <1>3 DEF LiveTasks
<1>5. n = lastPid + 1
  BY DEF n
<1>6. TasksTyped'
  BY <1>0, <1>2, <1>3, <1>5 DEF TasksTyped, LiveTasks
<1>7. \A y \in LiveTasks : task[y].tgid \in 1..lastPid /\ task[y].group \in 1..lastPid /\ y \in 1..lastPid
  BY <1>0 DEF TasksInv, InOrder
<1>8. InOrder'
  BY <1>0, <1>4, <1>5, <1>1, <1>2 DEF InOrder, TasksInv, LiveTasks
<1>9. \A y \in LiveTasks : task[y].tgid # n /\ task[y].group # n /\ y # n
  BY <1>0, <1>5, <1>7
<1>10. child.tgid # n => \A z \in LiveTasks : child.tgid = z => task[z].tgid = z
  BY <1>2, <1>5, <1>9 DEF TasksInv, LeadersLead
<1>11. LeadersLead'
  BY <1>2, <1>4, <1>9, <1>10 DEF TasksInv, LeadersLead, LiveTasks
<1>12. ProcessesWhole'
  BY <1>2, <1>3, <1>4, <1>9 DEF TasksInv, ProcessesWhole, LiveTasks
<1>13. NamesakeInSession'
  BY <1>1, <1>2, <1>3, <1>4, <1>9 DEF TasksInv, NamesakeInSession, LiveTasks
<1>14. LeaderInSession'
  BY <1>1, <1>2, <1>3, <1>4, <1>9 DEF TasksInv, LeaderInSession, LiveTasks
<1>15. GroupsInSession'
  BY <1>2, <1>3, <1>4 DEF TasksInv, GroupsInSession, LiveTasks
<1> QED BY <1>6, <1>8, <1>11, <1>12, <1>13, <1>14, <1>15 DEF TasksInv

\* What setsid makes of the task table.
SetsidTable(x) == [task EXCEPT ![x].group = x, ![x].session = x, ![x].tty = FALSE]
LEMMA SetsidFields ==
    ASSUME TasksTyped, NEW x \in LiveTasks
    PROVE  /\ SetsidTable(x) \in [LiveTasks -> TaskOf]
           /\ \A y \in LiveTasks : y # x => SetsidTable(x)[y] = task[y]
           /\ SetsidTable(x)[x].tgid = task[x].tgid /\ SetsidTable(x)[x].parent = task[x].parent
           /\ SetsidTable(x)[x].group = x /\ SetsidTable(x)[x].session = x
<1> DEFINE g == [task EXCEPT ![x].group = x]
           s == [g EXCEPT ![x].session = x]
           u == [s EXCEPT ![x].tty = FALSE]
<1>0. x \in Nat /\ task \in [LiveTasks -> TaskOf]
  BY DEF TasksTyped
<1>1. /\ g \in [LiveTasks -> TaskOf] /\ \A y \in LiveTasks : y # x => g[y] = task[y]
      /\ g[x].tgid = task[x].tgid /\ g[x].parent = task[x].parent /\ g[x].group = x
  BY <1>0 DEF TaskOf
<1> HIDE DEF g
<1>2. /\ s \in [LiveTasks -> TaskOf] /\ \A y \in LiveTasks : y # x => s[y] = g[y]
      /\ s[x].tgid = g[x].tgid /\ s[x].parent = g[x].parent /\ s[x].group = g[x].group
      /\ s[x].session = x
  BY <1>0, <1>1 DEF TaskOf
<1> HIDE DEF s
<1>3. /\ u \in [LiveTasks -> TaskOf] /\ \A y \in LiveTasks : y # x => u[y] = s[y]
      /\ u[x].tgid = s[x].tgid /\ u[x].parent = s[x].parent /\ u[x].group = s[x].group
      /\ u[x].session = s[x].session
  BY <1>2 DEF Flag, TaskOf
<1>4. u = SetsidTable(x)
  BY Zenon DEF SetsidTable, g, s
<1> HIDE DEF u
<1> QED BY <1>1, <1>2, <1>3, <1>4

LEMMA SetsidKeeps ==
    ASSUME TasksInv, NEW x \in LiveTasks, Setsid(x)
    PROVE  TasksInv'
<1>1. /\ task' = SetsidTable(x) /\ lastPid' = lastPid /\ torn \subseteq torn'
      /\ \A y \in LiveTasks : task[y].group = x => x \in torn'
      /\ 0 \notin torn' => ~Divided(SetsidTable(x))
  BY DEF Setsid, SetsidTable
<1>2. /\ task' \in [LiveTasks -> TaskOf] /\ DOMAIN task' = DOMAIN task
      /\ \A y \in LiveTasks : y # x => task'[y] = task[y]
      /\ task'[x].tgid = task[x].tgid /\ task'[x].parent = task[x].parent
      /\ task'[x].group = x /\ task'[x].session = x
  BY <1>1, SetsidFields DEF TasksInv, LiveTasks
<1>3. TasksTyped'
  BY <1>1, <1>2 DEF TasksInv, TasksTyped, LiveTasks
<1>4. /\ \A y \in LiveTasks : task[y].tgid \in 1..y /\ y \in 1..lastPid
      /\ task[x].tgid \in 1..x /\ x \in 1..lastPid
  BY DEF TasksInv, TasksTyped, InOrder
<1>5. InOrder'
  BY <1>2, <1>1, <1>4 DEF InOrder, LiveTasks, TasksInv, TasksTyped
<1>6. LeadersLead'
  BY <1>2 DEF TasksInv, LeadersLead, LiveTasks
<1>7. ProcessesWhole'
  BY <1>1, <1>2 DEF ProcessesWhole, Divided, LiveTasks
<1>8. NamesakeInSession'
  BY <1>1, <1>2 DEF TasksInv, NamesakeInSession, LiveTasks
<1>9. GroupsInSession'
  BY <1>1, <1>2 DEF TasksInv, GroupsInSession, LiveTasks
<1>10. LeaderInSession'
  <2> SUFFICES ASSUME 0 \notin torn', NEW y \in LiveTasks, NEW z \in LiveTasks,
                      task'[y].group = task'[z].tgid, task'[z].tgid \notin torn'
               PROVE  task'[z].session = task'[y].session \/ task'[z].session > task'[z].tgid
    BY <1>2 DEF LeaderInSession, LiveTasks
  <2>1. CASE z = x
    BY <1>1, <1>2, <2>1, <1>4
  <2>2. CASE z # x /\ y = x
    BY <1>2, <1>6, <1>7, <2>2 DEF LeadersLead, ProcessesWhole, LiveTasks
  <2>3. CASE z # x /\ y # x
    BY <1>1, <1>2, <2>3 DEF TasksInv, LeaderInSession
  <2> QED BY <2>1, <2>2, <2>3
<1> QED BY <1>3, <1>5, <1>6, <1>7, <1>8, <1>9, <1>10 DEF TasksInv

---------------------------------------------------------------------------
(* setpgid                                                                 *)

\* Threads of session s may join a group: whoever is in it, or it is named
\* after, is of that session.
GroupIsOf(group, s) ==
    0 \notin torn /\ group \notin torn =>
       /\ \A y \in LiveTasks : task[y].group = group => task[y].session = s
       /\ group \in LiveTasks => task[group].session = s
       /\ \A z \in LiveTasks : task[z].tgid = group => task[z].session = s \/ task[z].session > group

LEMMA RegroupKeeps ==
    ASSUME TasksInv, NEW xs \in SUBSET LiveTasks, NEW group \in 1..lastPid, NEW s, GroupIsOf(group, s),
           0 \notin torn => \A y \in xs : task[y].session = s,
           Becomes(Regrouped(xs, group)), lastPid' = lastPid
    PROVE  TasksInv'
<1>1. task' = Regrouped(xs, group) /\ torn \subseteq torn'
  BY BecomesFacts
<1>2. /\ task' \in [LiveTasks -> TaskOf] /\ DOMAIN task' = DOMAIN task
      /\ \A y \in LiveTasks : /\ task'[y].tgid = task[y].tgid /\ task'[y].parent = task[y].parent
                              /\ task'[y].session = task[y].session
                              /\ task'[y].group = IF y \in xs THEN group ELSE task[y].group
  BY <1>1 DEF TasksInv, TasksTyped, Regrouped, TaskOf, LiveTasks
<1>3. TasksTyped'
  BY <1>2 DEF TasksInv, TasksTyped, LiveTasks
<1>4. InOrder' /\ LeadersLead'
  BY <1>2 DEF TasksInv, InOrder, LeadersLead, LiveTasks
<1>5. ProcessesWhole'
  BY <1>1, <1>2 DEF TasksInv, ProcessesWhole, LiveTasks
<1>6. NamesakeInSession'
  BY <1>1, <1>2 DEF TasksInv, NamesakeInSession, LiveTasks, GroupIsOf
<1>7. LeaderInSession'
  BY <1>1, <1>2 DEF TasksInv, LeaderInSession, LiveTasks, GroupIsOf
<1>8. GroupsInSession'
  BY <1>1, <1>2 DEF TasksInv, GroupsInSession, LiveTasks, GroupIsOf
<1> QED BY <1>3, <1>4, <1>5, <1>6, <1>7, <1>8 DEF TasksInv

\* A thread of the group, in session s, is enough.
LEMMA MemberGroup ==
    ASSUME TasksInv, NEW y \in LiveTasks
    PROVE  GroupIsOf(task[y].group, task[y].session) /\ task[y].group \in 1..lastPid
  BY DEF TasksInv, GroupIsOf, GroupsInSession, NamesakeInSession, LeaderInSession, InOrder

\* process_group_session answers with the session of a thread of the group.
LEMMA FoundSession ==
    ASSUME TasksInv, NEW group, NEW s \in GroupSessions(group)
    PROVE  /\ \E y \in LiveTasks : task[y].group = group /\ (0 \notin torn => task[y].session = s)
           /\ group \in 1..lastPid
<1> DEFINE known == {g \in Leaders : GroupOf(g) = group /\ SessionsOf(g) # {}}
           g == FirstOf(known)
           here == Tasks(g) \cap Tabled
<1>0. LiveTasks \subseteq Nat /\ Leaders \subseteq Nat
  BY DEF TasksInv, TasksTyped, InOrder, Leaders
<1>1. known # {} /\ s \in SessionsOf(g)
  BY DEF GroupSessions
<1>2. g \in known
  <2> HIDE DEF g, known
  <2>1. known \subseteq Nat
    BY <1>0 DEF known
  <2> QED BY <1>1, <2>1, FirstIn DEF g
<1> HIDE DEF known
<1>3. GroupOf(g) = group /\ Tasks(g) # {}
  BY <1>2 DEF known, Leaders, Tasks
<1> HIDE DEF g
<1>4. here # {} /\ s = task[FirstOf(here)].session
  BY <1>1 DEF SessionsOf
<1>5. FirstOf(here) \in Tasks(g) /\ FirstOf(Tasks(g)) \in Tasks(g)
  <2>1. Tasks(g) \subseteq Nat /\ here \subseteq Nat
    BY <1>0 DEF Tasks
  <2> HIDE DEF here
  <2>2. FirstOf(here) \in here /\ FirstOf(Tasks(g)) \in Tasks(g)
    BY <1>3, <1>4, <2>1, FirstIn
  <2> QED BY <2>2 DEF here
<1> HIDE DEF here
<1> DEFINE y == FirstOf(Tasks(g))
<1>6. y \in LiveTasks /\ task[y].group = group /\ task[y].tgid = g
  BY <1>3, <1>5 DEF Tasks, GroupOf
<1>7. FirstOf(here) \in LiveTasks /\ task[FirstOf(here)].tgid = g
  BY <1>5 DEF Tasks
<1> HIDE DEF y
<1>8. 0 \notin torn => task[y].session = s
  BY <1>4, <1>6, <1>7 DEF TasksInv, ProcessesWhole
<1> QED BY <1>6, <1>8, MemberGroup

LEMMA GroupsJoined ==
    ASSUME TasksInv, NEW x \in LiveTasks, NEW group, NEW leader \in 1..lastPid,
           MayMove(x, group, leader), GroupIsOf(leader, task[x].session)
    PROVE  group \in 1..lastPid /\ GroupIsOf(group, task[x].session)
  BY MemberGroup, FoundSession DEF GroupIsOf, MayMove

LEMMA SetpgidSelfKeeps ==
    ASSUME TasksInv, NEW x \in LiveTasks, NEW group, SetpgidSelf(x, group)
    PROVE  TasksInv'
<1> DEFINE xs == {x} \cup (Tasks(task[x].tgid) \cap Tabled)
           s == task[x].session
<1>1. MayMove(x, group, x) /\ Becomes(Regrouped(xs, group)) /\ lastPid' = lastPid
  BY DEF SetpgidSelf
<1>2. xs \in SUBSET LiveTasks /\ (0 \notin torn => \A y \in xs : task[y].session = s)
  BY DEF Tasks, TasksInv, ProcessesWhole
<1>3. x \in 1..lastPid
  BY DEF TasksInv, TasksTyped
<1>4. GroupIsOf(x, s)
  BY DEF TasksInv, GroupIsOf, NamesakeInSession, LeadersLead, ProcessesWhole
<1>5. group \in 1..lastPid /\ GroupIsOf(group, s)
  BY <1>1, <1>3, <1>4, GroupsJoined
<1> HIDE DEF xs, s
<1> QED BY <1>1, <1>2, <1>5, RegroupKeeps

LEMMA SetpgidChildKeeps ==
    ASSUME TasksInv, NEW x \in LiveTasks, NEW c \in LiveTasks, NEW group, SetpgidChild(x, c, group)
    PROVE  TasksInv'
<1> DEFINE leader == task[c].tgid
           members == Tasks(leader)
           first == FirstOf(members \cap Tabled)
           xs == {y \in members : \A z \in members : z <= y => z \in Tabled}
           s == task[x].session
<1>1. /\ \E y \in {leader, c} \cap LiveTasks : task[y].parent = x
      /\ members \cap Tabled # {} /\ task[first].session = s
      /\ MayMove(x, group, leader) /\ Becomes(Regrouped(xs, group)) /\ lastPid' = lastPid
  BY DEF SetpgidChild
<1>2. c \in members /\ members \subseteq LiveTasks /\ \A y \in members : task[y].tgid = leader
  BY DEF Tasks
<1>3. /\ LiveTasks \subseteq Nat /\ c \in 1..lastPid /\ leader \in 1..c /\ lastPid \in Nat
      /\ x \in Nat /\ s \in 1..x
  BY DEF TasksInv, TasksTyped, InOrder
<1>4. first \in members
  <2>1. members \cap Tabled \subseteq Nat
    BY <1>2, <1>3
  <2> HIDE DEF members
  <2> QED BY <1>1, <2>1, FirstIn
<1> HIDE DEF first
<1>5. 0 \notin torn => \A y \in members : task[y].session = s
  BY <1>1, <1>2, <1>4 DEF TasksInv, ProcessesWhole
<1>6. x < leader
  BY <1>1 DEF TasksInv, LeadersLead, InOrder
<1>7. leader \in 1..lastPid /\ ~(s > leader)
  BY <1>3, <1>6
<1>8. GroupIsOf(leader, s)
  BY <1>5, <1>7 DEF GroupIsOf, Tasks, TasksInv, LeadersLead, LeaderInSession
<1>9. group \in 1..lastPid /\ GroupIsOf(group, s)
  <2> HIDE DEF leader
  <2> QED BY <1>1, <1>7, <1>8, GroupsJoined
<1>10. xs \in SUBSET LiveTasks /\ (0 \notin torn => \A y \in xs : task[y].session = s)
  BY <1>2, <1>5
<1> HIDE DEF xs, s
<1> QED BY <1>1, <1>9, <1>10, RegroupKeeps

---------------------------------------------------------------------------
(* Every step                                                              *)

\* The steps that leave the task table alone, but for a controlling terminal.
LEMMA TtyKeeps ==
    ASSUME TasksInv, NEW x \in LiveTasks, NEW b \in BOOLEAN, task' = [task EXCEPT ![x].tty = b],
           lastPid' = lastPid, torn' = torn
    PROVE  TasksInv'
  BY TasksSame DEF TasksInv, TasksTyped, Flag, TaskOf, LiveTasks

LEMMA TasksQuiet ==
    ASSUME TasksInv, UNCHANGED <<task, lastPid, torn>>
    PROVE  TasksInv'
  BY TasksSame DEF TasksInv, TasksTyped, LiveTasks

LEMMA TasksStep ==
    ASSUME TasksInv, JcNext
    PROVE  TasksInv'
<1>1. CASE InterruptQueued \/ InterruptRaised \/ \E c \in 1..JcCpus : DrainSwap(c) \/ DrainTake(c) \/ DrainSend(c)
  BY <1>1, TasksQuiet DEF InterruptQueued, InterruptRaised, DrainSwap, DrainTake, DrainSend
<1>2. ASSUME NEW x \in LiveTasks,
             \/ Dispatched(x) \/ Requeued(x) \/ Tiocspgrp(x) \/ KillAll(x) \/ SignalTaken(x)
             \/ \E group \in 1..MaxPid : TiocspgrpCheck(x, group) \/ KillGroup(x, group)
      PROVE  TasksInv'
  BY <1>2, TasksQuiet DEF Dispatched, Requeued, Tiocspgrp, KillAll, SignalTaken, TiocspgrpCheck,
     KillGroup
<1>3. ASSUME NEW x \in LiveTasks, Exits(x) \/ Setsid(x) \/ \E thread \in BOOLEAN : Cloned(x, thread)
      PROVE  TasksInv'
  BY <1>3, ExitKeeps, SetsidKeeps, CloneKeeps DEF Exits
<1>4. ASSUME NEW x \in LiveTasks, Tiocsctty(x) \/ Tiocnotty(x)
      PROVE  TasksInv'
  BY <1>4, TtyKeeps DEF Tiocsctty, Tiocnotty
<1>5. ASSUME NEW x \in LiveTasks, NEW group \in 1..MaxPid,
             SetpgidSelf(x, group) \/ \E c \in LiveTasks : SetpgidChild(x, c, group)
      PROVE  TasksInv'
  BY <1>5, SetpgidSelfKeeps, SetpgidChildKeeps
<1> QED BY <1>1, <1>2, <1>3, <1>4, <1>5 DEF JcNext

\* The queue of group signals.
LEMMA GroupSignalsStep ==
    ASSUME JobInv, JcNext
    PROVE  JcTypeOK' /\ GroupSignalsSeen'
<1>0. /\ tty \in [session : Nat, group : Nat] /\ groupSignals \in Seq(Nat)
      /\ drain \in [1..JcCpus -> DrainOf] /\ jcCall \in [1..MaxPid -> Nat]
      /\ LiveTasks \subseteq 1..MaxPid /\ LiveTasks \subseteq Nat
      /\ \A x \in LiveTasks : task[x].group \in Nat
  BY JobControlAssumption DEF JobInv, TasksInv, TasksTyped, InOrder, JcTypeOK
<1>1. CASE InterruptQueued
  BY <1>0, <1>1 DEF InterruptQueued, JcTypeOK, GroupSignalsSeen
<1>2. CASE InterruptRaised
  BY <1>0, <1>2 DEF InterruptRaised, JcTypeOK, GroupSignalsSeen
<1>3. ASSUME NEW c \in 1..JcCpus, DrainSwap(c)
      PROVE  JcTypeOK' /\ GroupSignalsSeen'
  BY <1>0, <1>3 DEF DrainSwap, DrainOf, JcTypeOK, GroupSignalsSeen
<1>4. ASSUME NEW c \in 1..JcCpus, DrainTake(c)
      PROVE  JcTypeOK' /\ GroupSignalsSeen'
  BY <1>4, <1>0 DEF DrainTake, AllTaken, DrainOf, JcTypeOK, GroupSignalsSeen
<1>5. ASSUME NEW c \in 1..JcCpus, DrainSend(c)
      PROVE  JcTypeOK' /\ GroupSignalsSeen'
  BY <1>0, <1>5 DEF DrainSend, DrainOf, JcTypeOK, GroupSignalsSeen, JobInv
<1>6. ASSUME NEW x \in LiveTasks,
             \/ Dispatched(x) \/ Requeued(x) \/ Exits(x) \/ Setsid(x)
             \/ \E thread \in BOOLEAN : Cloned(x, thread)
             \/ Tiocsctty(x) \/ Tiocspgrp(x) \/ Tiocnotty(x) \/ KillAll(x) \/ SignalTaken(x)
             \/ \E group \in 1..MaxPid :
                  \/ SetpgidSelf(x, group) \/ TiocspgrpCheck(x, group) \/ KillGroup(x, group)
                  \/ \E c \in LiveTasks : SetpgidChild(x, c, group)
      PROVE  JcTypeOK' /\ GroupSignalsSeen'
  <2>1. UNCHANGED <<groupSignals, signalPending, interrupt, drain>>
    BY <1>6 DEF Dispatched, Requeued, Exits, Setsid, Cloned, Tiocsctty, Tiocspgrp, Tiocnotty, KillAll,
         SignalTaken, SetpgidSelf, TiocspgrpCheck, KillGroup, SetpgidChild, signalVars
  <2>2. GroupSignalsSeen'
    BY <2>1 DEF JobInv, GroupSignalsSeen
  <2>3. tty' \in [session : Nat, group : Nat] /\ jcCall' \in [1..MaxPid -> Nat]
    <3>1. CASE Tiocsctty(x)
      BY <1>0, <3>1 DEF Tiocsctty
    <3>2. CASE Tiocspgrp(x)
      BY <1>0, <3>2 DEF Tiocspgrp
    <3>3. CASE Tiocnotty(x)
      BY <1>0, <3>3 DEF Tiocnotty
    <3>4. ASSUME NEW group \in 1..MaxPid, TiocspgrpCheck(x, group)
          PROVE  tty' \in [session : Nat, group : Nat] /\ jcCall' \in [1..MaxPid -> Nat]
      BY <1>0, <3>4 DEF TiocspgrpCheck
    <3>5. CASE UNCHANGED <<tty, jcCall>>
      BY <1>0, <3>5
    <3> QED BY <1>6, <3>1, <3>2, <3>3, <3>4, <3>5 DEF Dispatched, Requeued, Exits, Setsid, Cloned,
                 KillAll, SignalTaken, SetpgidSelf, KillGroup, SetpgidChild
  <2> QED BY <1>0, <2>1, <2>2, <2>3 DEF JcTypeOK
<1> QED BY <1>1, <1>2, <1>3, <1>4, <1>5, <1>6 DEF JcNext

\* Jobs stay whole, for any number of processes, CPUs and calls: setpgid,
\* setsid, clone and exit keep a group in one session, and a group signal in
\* the queue is going to be seen (manager.rs, setpgid; setsid.rs; runtime.rs).
THEOREM Jobs == JcSpec => []JobsSound
<1>1. JcInit => JobInv
  BY JobInit
<1>2. JobInv /\ [JcNext]_jcVars => JobInv'
  BY TasksStep, GroupSignalsStep, TasksQuiet DEF JobInv, jcVars, JcTypeOK, GroupSignalsSeen
<1>3. JobInv => JobsSound
  BY DEF JobInv, TasksInv, JobsSound
<1> QED BY <1>1, <1>2, <1>3, PTL DEF JcSpec

-----------------------------------------------------------------------------
(* Futex *)

\* A thread in a wait has its arguments, a waker its word.
InCall ==
    \A t \in Thread :
       /\ pc[t] \in {"armed", "again", "checked", "blocked", "runnable"} => wait[t] \in Wait
       /\ pc[t] = "stored" => store_key[t] \in Key

IndexInv == TypeOK /\ FutexIndexExact /\ ArmedExact /\ InCall

\* The indexes start empty.
LEMMA IndexInit == Init => IndexInv
BY DEF Init, IndexInv, TypeOK, FutexIndexExact, ArmedExact, InCall, Armed, PC

\* Disarming a thread removes its entry and no other.
LEMMA DisarmedFact ==
  ASSUME TypeOK, NEW t \in Thread
  PROVE  /\ DOMAIN Disarmed({t}) = Armed \ {t}
         /\ Disarmed({t}) \in [Armed \ {t} -> ArmedFutexWait]
         /\ \A u \in Armed \ {t} : Disarmed({t})[u] = armed_futex_waits[u]
BY DEF Disarmed, TypeOK

\* A step that leaves the blocked threads and the index alone.
LEMMA IndexKept ==
  ASSUME TypeOK, FutexIndexExact, NEW t \in Thread, NEW p \in PC,
         pc[t] # "blocked", p # "blocked",
         pc' = [pc EXCEPT ![t] = p], UNCHANGED <<block_key, blocked_futexes>>
  PROVE  FutexIndexExact'
  BY DEF TypeOK, FutexIndexExact

\* A wake keeps the index exact.
LEMMA WakeKeeps ==
  ASSUME IndexInv, NEW u \in Thread, pc[u] = "stored",
         NEW A \in SUBSET Armed, NEW B \in SUBSET Thread, \A t \in B : pc[t] = "blocked",
         WakeThese(u, A, B)
  PROVE  IndexInv'
<1>1. TypeOK' BY DEF IndexInv, TypeOK, WakeThese, Armed, ArmedFutexWait, PC, BlockResult
<1>2. /\ Armed' = Armed
      /\ \A t \in Thread : pc'[t] = IF t = u THEN "user" ELSE IF t \in B THEN "runnable" ELSE pc[t]
  BY DEF WakeThese, Armed
<1>3. FutexIndexExact' BY <1>2 DEF IndexInv, TypeOK, FutexIndexExact, WakeThese
<1>4. ArmedExact' BY <1>2 DEF IndexInv, ArmedExact
<1>5. InCall' BY <1>2 DEF IndexInv, TypeOK, InCall, WakeThese
<1> QED BY <1>1, <1>3, <1>4, <1>5 DEF IndexInv

\* Unblocking a process keeps the index exact.
LEMMA UnblockKeeps ==
  ASSUME IndexInv, NEW t \in Thread, pc[t] = "blocked", NEW r \in BlockResult, Unblock({t}, r),
         UNCHANGED <<word, wait, armed_futex_waits, store_key>>
  PROVE  IndexInv'
  BY DEF IndexInv, TypeOK, Unblock, Armed, PC, FutexIndexExact, ArmedExact, InCall

\* Blocking a process keeps the index exact.
LEMMA BlockKeeps ==
  ASSUME IndexInv, NEW t \in Thread, BlockOnFutex(t)
  PROVE  IndexInv'
<1> DEFINE key == wait[t].key
<1>1. /\ TypeOK /\ FutexIndexExact /\ ArmedExact /\ InCall
      /\ pc[t] = "checked" /\ key \in Key
  BY DEF IndexInv, InCall, BlockOnFutex, Wait
<1>2. Armed' = Armed \ {t} /\ armed_futex_waits' \in [Armed \ {t} -> ArmedFutexWait]
  BY <1>1, DisarmedFact DEF BlockOnFutex, Armed
<1>3. UNCHANGED <<word, wait, store_key>> BY DEF BlockOnFutex
<1>4. CASE RacedWake(t)
  <2>1. /\ pc' = [pc EXCEPT ![t] = "runnable"]
        /\ wake_result' = [wake_result EXCEPT ![t] = "Woken"]
        /\ UNCHANGED <<block_key, blocked_futexes>>
     BY <1>4 DEF BlockOnFutex
  <2>2. TypeOK' BY <1>1, <1>2, <1>3, <2>1 DEF TypeOK, PC, BlockResult
  <2>3. FutexIndexExact' BY <1>1, <2>1, IndexKept DEF PC
  <2>4. ArmedExact' BY <1>1, <1>2, <2>1 DEF TypeOK, ArmedExact
  <2>5. InCall' BY <1>1, <1>3, <2>1 DEF TypeOK, InCall
  <2> QED BY <2>2, <2>3, <2>4, <2>5 DEF IndexInv
<1>5. CASE ~RacedWake(t)
  <2>1. /\ pc' = [pc EXCEPT ![t] = "blocked"]
        /\ wake_result' = [wake_result EXCEPT ![t] = None]
        /\ block_key' = [block_key EXCEPT ![t] = key]
        /\ blocked_futexes' = [blocked_futexes EXCEPT ![key] = @ \cup {t}]
     BY <1>5 DEF BlockOnFutex
  <2> HIDE DEF key
  <2>2. TypeOK' BY <1>1, <1>2, <1>3, <2>1 DEF TypeOK, PC
  <2>3. FutexIndexExact'
    BY <1>1, <2>1, <2>2 DEF FutexIndexExact, TypeOK
  <2>4. ArmedExact' BY <1>1, <1>2, <2>1 DEF TypeOK, ArmedExact
  <2>5. InCall' BY <1>1, <1>3, <2>1 DEF TypeOK, InCall
  <2> QED BY <2>2, <2>3, <2>4, <2>5 DEF IndexInv
<1> QED BY <1>4, <1>5

\* Every step of a program that wakes everyone keeps the index.
LEMMA BroadcastIndex == IndexInv /\ BroadcastNext => IndexInv'
<1> SUFFICES ASSUME IndexInv, NEW t \in Thread,
                    \/ \E w \in Wait : ArmFutexWait(t, w)
                    \/ \E faulted \in BOOLEAN : ReadFutexWord(t, faulted)
                    \/ DisarmFutexWait(t) \/ BlockOnFutex(t) \/ ReturnFromWait(t)
                    \/ Expire(t) \/ Interrupt(t)
                    \/ \E k \in Key, v \in Val : StoreWord(t, k, v)
                    \/ WakeAll(t)
             PROVE  IndexInv'
  BY DEF BroadcastNext
<1>0. TypeOK /\ FutexIndexExact /\ ArmedExact /\ InCall BY DEF IndexInv
<1>1. ASSUME NEW w \in Wait, ArmFutexWait(t, w) PROVE IndexInv'
  <2>1. TypeOK' BY <1>0, <1>1 DEF TypeOK, ArmFutexWait, Armed, Wait, ArmedFutexWait, PC
  <2>2. FutexIndexExact' BY <1>0, <1>1, IndexKept DEF ArmFutexWait, PC
  <2>3. ArmedExact' BY <1>0, <1>1 DEF TypeOK, ArmedExact, ArmFutexWait, Armed
  <2>4. InCall' BY <1>0, <1>1 DEF TypeOK, InCall, ArmFutexWait
  <2> QED BY <2>1, <2>2, <2>3, <2>4 DEF IndexInv
<1>2. ASSUME NEW faulted \in BOOLEAN, ReadFutexWord(t, faulted) PROVE IndexInv'
  <2> DEFINE p == IF ~faulted /\ word[wait[t].key] = wait[t].val THEN "checked" ELSE "again"
  <2>1. /\ pc[t] = "armed" /\ pc' = [pc EXCEPT ![t] = p] /\ p \in {"checked", "again"}
        /\ UNCHANGED <<word, wait, block_key, armed_futex_waits, blocked_futexes, wake_result,
                       store_key>>
     BY <1>2 DEF ReadFutexWord, waitVars
  <2> HIDE DEF p
  <2>2. TypeOK' BY <1>0, <2>1 DEF TypeOK, Armed, PC
  <2>3. FutexIndexExact' BY <1>0, <2>1, IndexKept DEF PC
  <2>4. ArmedExact' BY <1>0, <2>1 DEF TypeOK, ArmedExact, Armed
  <2>5. InCall' BY <1>0, <2>1 DEF TypeOK, InCall
  <2> QED BY <2>2, <2>3, <2>4, <2>5 DEF IndexInv
<1>3. CASE DisarmFutexWait(t)
  <2>1. TypeOK' BY <1>0, <1>3, DisarmedFact DEF TypeOK, DisarmFutexWait, Armed, PC
  <2>2. FutexIndexExact' BY <1>0, <1>3, IndexKept DEF DisarmFutexWait, PC
  <2>3. ArmedExact' BY <1>0, <1>3, DisarmedFact DEF TypeOK, ArmedExact, DisarmFutexWait, Armed
  <2>4. InCall' BY <1>0, <1>3 DEF TypeOK, InCall, DisarmFutexWait
  <2> QED BY <2>1, <2>2, <2>3, <2>4 DEF IndexInv
<1>4. CASE BlockOnFutex(t) BY <1>4, BlockKeeps
<1>5. CASE ReturnFromWait(t)
  <2>1. TypeOK' BY <1>0, <1>5 DEF TypeOK, ReturnFromWait, Armed, PC
  <2>2. FutexIndexExact' BY <1>0, <1>5, IndexKept DEF ReturnFromWait, PC
  <2>3. ArmedExact' BY <1>0, <1>5 DEF TypeOK, ArmedExact, ReturnFromWait, Armed
  <2>4. InCall' BY <1>0, <1>5 DEF TypeOK, InCall, ReturnFromWait
  <2> QED BY <2>1, <2>2, <2>3, <2>4 DEF IndexInv
<1>6. CASE Expire(t) BY <1>6, UnblockKeeps DEF Expire, BlockResult
<1>7. CASE Interrupt(t) BY <1>7, UnblockKeeps DEF Interrupt, BlockResult
<1>8. ASSUME NEW k \in Key, NEW v \in Val, StoreWord(t, k, v) PROVE IndexInv'
  <2>1. TypeOK' BY <1>0, <1>8 DEF TypeOK, StoreWord, waitVars, Armed, PC
  <2>2. FutexIndexExact' BY <1>0, <1>8, IndexKept DEF StoreWord, waitVars, PC
  <2>3. ArmedExact' BY <1>0, <1>8 DEF TypeOK, ArmedExact, StoreWord, waitVars, Armed
  <2>4. InCall' BY <1>0, <1>8 DEF TypeOK, InCall, StoreWord, waitVars
  <2> QED BY <2>1, <2>2, <2>3, <2>4 DEF IndexInv
<1>9. CASE WakeAll(t)
  <2> DEFINE A == ArmedWaiters(store_key[t], MatchAny)
             B == BlockedWaiters(store_key[t], MatchAny)
  <2>1. A \in SUBSET Armed BY DEF ArmedWaiters
  <2>2. /\ B \in SUBSET Thread /\ \A u \in B : pc[u] = "blocked"
     BY <1>0, <1>9 DEF BlockedWaiters, TypeOK, InCall, WakeAll
  <2>3. pc[t] = "stored" /\ WakeThese(t, A, B) BY <1>9 DEF WakeAll
  <2> HIDE DEF A, B
  <2> QED BY <2>1, <2>2, <2>3, WakeKeeps
<1> QED BY <1>1, <1>2, <1>3, <1>4, <1>5, <1>6, <1>7, <1>8, <1>9

\* The waiters of a key are armed, or blocked on that key.
LEMMA WaitersFact ==
  ASSUME IndexInv, NEW k \in Key, NEW b
  PROVE  /\ ArmedWaiters(k, b) \in SUBSET Armed
         /\ BlockedWaiters(k, b) \in SUBSET Thread
         /\ \A t \in BlockedWaiters(k, b) : pc[t] = "blocked" /\ block_key[t] = k
BY DEF IndexInv, TypeOK, ArmedWaiters, BlockedWaiters

\* Moving blocked waiters to another key keeps the index exact.
LEMMA RequeueKeeps ==
  ASSUME IndexInv, NEW u \in Thread, NEW to \in Key, NEW m, NEW n, RequeueFutex(u, to, m, n)
  PROVE  IndexInv'
<1> DEFINE from == store_key[u]
<1>0. /\ TypeOK /\ FutexIndexExact /\ ArmedExact /\ InCall
      /\ pc[u] = "stored" /\ from \in Key
  BY DEF IndexInv, InCall, RequeueFutex
<1>1. PICK A \in SUBSET ArmedWaiters(from, MatchAny), B \in SUBSET BlockedWaiters(from, MatchAny),
           AM \in SUBSET ArmedWaiters(from, MatchAny), BM \in SUBSET BlockedWaiters(from, MatchAny) :
         B \cap BM = {} /\ RequeueThese(u, to, A, B, AM, BM)
  BY DEF RequeueFutex
<1>2. /\ armed_futex_waits' = [t \in Armed |->
          CASE t \in A -> [armed_futex_waits[t] EXCEPT !.raced_wake = TRUE]
            [] t \in AM -> [armed_futex_waits[t] EXCEPT !.key = to]
            [] OTHER -> armed_futex_waits[t]]
      /\ pc' = [t \in Thread |-> IF t = u THEN "user" ELSE IF t \in B THEN "runnable" ELSE pc[t]]
      /\ wake_result' = [t \in Thread |-> IF t \in B THEN "Woken" ELSE wake_result[t]]
      /\ block_key' = [t \in Thread |-> IF t \in B THEN None
                                        ELSE IF t \in BM THEN to ELSE block_key[t]]
      /\ blocked_futexes' = [k \in Key |-> Moved(from, to, BM)[k] \ B]
  BY <1>1 DEF RequeueThese
<1>3. UNCHANGED <<word, wait>> /\ store_key' = [store_key EXCEPT ![u] = None]
  BY <1>1 DEF RequeueThese
<1>4. /\ B \in SUBSET Thread /\ \A t \in B : pc[t] = "blocked" /\ block_key[t] = from
      /\ BM \in SUBSET Thread /\ \A t \in BM : pc[t] = "blocked" /\ block_key[t] = from /\ t \notin B
  BY <1>0, <1>1, <1>2, WaitersFact
<1>5. Armed' = Armed BY <1>2 DEF Armed
<1> HIDE DEF from
<1>6. \A k \in Key : Moved(from, to, BM)[k] =
         (IF k = from THEN blocked_futexes[k] \ BM ELSE blocked_futexes[k])
            \cup (IF k = to THEN BM ELSE {})
  BY <1>0 DEF Moved, TypeOK
<1>7. armed_futex_waits' \in [Armed -> ArmedFutexWait]
  BY <1>0, <1>2 DEF TypeOK, ArmedFutexWait
<1>8. TypeOK'
  <2>1. blocked_futexes' \in [Key -> SUBSET Thread]
     BY <1>2, <1>4, <1>6, <1>0 DEF TypeOK
  <2>2. /\ pc' \in [Thread -> PC] /\ block_key' \in [Thread -> Key \cup {None}]
        /\ wake_result' \in [Thread -> BlockResult \cup {None}]
     BY <1>2, <1>0 DEF TypeOK, PC, BlockResult
  <2> QED BY <2>1, <2>2, <1>0, <1>3, <1>5, <1>7 DEF TypeOK
<1>9. FutexIndexExact'
  BY <1>0, <1>2, <1>6, <1>4, <1>8 DEF FutexIndexExact, TypeOK
<1>10. \A t \in Thread : pc'[t] = IF t = u THEN "user" ELSE IF t \in B THEN "runnable" ELSE pc[t]
  BY <1>2
<1>11. ArmedExact' BY <1>0, <1>4, <1>5, <1>10 DEF ArmedExact
<1>12. InCall' BY <1>0, <1>3, <1>4, <1>10 DEF InCall, TypeOK
<1> QED BY <1>8, <1>9, <1>11, <1>12 DEF IndexInv

\* Every step keeps the index exact.
LEMMA IndexStep == IndexInv /\ [Next]_vars => IndexInv'
<1> SUFFICES ASSUME IndexInv, [Next]_vars PROVE IndexInv'
  OBVIOUS
<1>1. CASE BroadcastNext BY <1>1, BroadcastIndex
<1>2. ASSUME NEW u \in Thread, NEW count \in 0..Cardinality(Thread), NEW b \in Bitset,
             WakeSome(u, count, b)
      PROVE  IndexInv'
  BY <1>2, WaitersFact, WakeKeeps DEF WakeSome, IndexInv, InCall
<1>3. ASSUME NEW u \in Thread, NEW to \in Key, NEW m \in 0..Cardinality(Thread),
             NEW n \in 0..Cardinality(Thread), RequeueFutex(u, to, m, n)
      PROVE  IndexInv'
  BY <1>3, RequeueKeeps
<1>4. CASE UNCHANGED vars
  BY <1>4 DEF vars, IndexInv, TypeOK, FutexIndexExact, ArmedExact, InCall, Armed
<1> QED BY <1>1, <1>2, <1>3, <1>4 DEF Next

\* The types hold for any threads, words and bitsets.
THEOREM FutexTyping == Spec => []TypeOK
<1>1. IndexInv => TypeOK BY DEF IndexInv
<1> QED BY <1>1, IndexInit, IndexStep, PTL DEF Spec

\* blocked_futexes lists exactly the sleepers of every word, whatever wakes,
\* requeues, timeouts and signals have happened.
THEOREM FutexIndex == Spec => []FutexIndexExact
<1>1. IndexInv => FutexIndexExact BY DEF IndexInv
<1> QED BY <1>1, IndexInit, IndexStep, PTL DEF Spec

\* No armed entry outlives the system call that made it.
THEOREM FutexArmed == Spec => []ArmedExact
<1>1. IndexInv => ArmedExact BY DEF IndexInv
<1> QED BY <1>1, IndexInit, IndexStep, PTL DEF Spec

-----------------------------------------------------------------------------
(* No lost wake-up *)

\* Without requeue the armed entry and the block are for the word waited on;
\* a waiter that has checked its word either still sees the value, or has been
\* marked as woken, or the thread that changed the word is about to mark it.
ArmedForWait ==
    \A t \in Thread :
       /\ pc[t] \in {"armed", "again", "checked"} =>
             armed_futex_waits[t].key = wait[t].key /\ armed_futex_waits[t].bitset = wait[t].bitset
       /\ pc[t] = "blocked" => block_key[t] = wait[t].key
CheckedIsSafe ==
    \A t \in Thread :
       pc[t] = "checked" /\ word[wait[t].key] # wait[t].val =>
          armed_futex_waits[t].raced_wake \/ WakerDue(wait[t].key)
WakeInv == IndexInv /\ ArmedForWait /\ CheckedIsSafe /\ NoSleeperLeftBehind

\* Nobody sleeps at first.
LEMMA WakeInit == Init => WakeInv
  BY IndexInit DEF Init, WakeInv, ArmedForWait, CheckedIsSafe, NoSleeperLeftBehind

\* A waker stays due until it takes its own step.
LEMMA StillDue ==
  ASSUME NEW t \in Thread, NEW k \in Key, WakerDue(k), pc[t] # "stored",
         \A u \in Thread \ {t} : pc[u] = "stored" => pc'[u] = "stored" /\ store_key'[u] = store_key[u]
  PROVE  WakerDue(k)'
BY DEF WakerDue

\* Every step keeps the wake-up invariant.
LEMMA WakeStep == WakeInv /\ [BroadcastNext]_vars => WakeInv'
<1> SUFFICES ASSUME WakeInv, [BroadcastNext]_vars PROVE WakeInv'
  OBVIOUS
<1>0. IndexInv /\ TypeOK /\ InCall /\ ArmedExact /\ ArmedForWait /\ CheckedIsSafe /\ NoSleeperLeftBehind
  BY DEF WakeInv, IndexInv
<1>1. IndexInv' BY <1>0, IndexStep DEF Next
<1>2. ASSUME NEW t \in Thread, NEW w \in Wait, ArmFutexWait(t, w) PROVE WakeInv'
  <2>1. /\ pc[t] = "user" /\ UNCHANGED <<word, block_key, store_key>>
        /\ \A u \in Thread : pc'[u] = IF u = t THEN "armed" ELSE pc[u]
        /\ \A u \in Thread : wait'[u] = IF u = t THEN w ELSE wait[u]
        /\ armed_futex_waits'[t] = [key |-> w.key, bitset |-> w.bitset, raced_wake |-> FALSE]
        /\ \A u \in Armed \ {t} : armed_futex_waits'[u] = armed_futex_waits[u]
     BY <1>0, <1>2 DEF ArmFutexWait, TypeOK
  <2>2. \A k \in Key : WakerDue(k) => WakerDue(k)' BY <2>1, StillDue
  <2>3. ArmedForWait' BY <1>0, <2>1 DEF ArmedForWait, ArmedExact
  <2>4. CheckedIsSafe' BY <1>0, <2>1, <2>2 DEF CheckedIsSafe, ArmedExact, InCall, Wait
  <2>5. NoSleeperLeftBehind' BY <1>0, <2>1, <2>2 DEF NoSleeperLeftBehind, InCall, Wait
  <2> QED BY <1>1, <2>3, <2>4, <2>5 DEF WakeInv
<1>3. ASSUME NEW t \in Thread, NEW faulted \in BOOLEAN, ReadFutexWord(t, faulted) PROVE WakeInv'
  <2>1. /\ pc[t] = "armed" /\ pc'[t] \in {"checked", "again"}
        /\ pc'[t] = "checked" => word[wait[t].key] = wait[t].val
        /\ \A u \in Thread \ {t} : pc'[u] = pc[u]
        /\ UNCHANGED <<word, wait, block_key, armed_futex_waits, store_key>>
     BY <1>0, <1>3 DEF ReadFutexWord, TypeOK, waitVars
  <2>2. \A k \in Key : WakerDue(k) => WakerDue(k)' BY <2>1, StillDue
  <2>3. ArmedForWait' BY <1>0, <2>1 DEF ArmedForWait
  <2>4. CheckedIsSafe' BY <1>0, <2>1, <2>2 DEF CheckedIsSafe, InCall, Wait
  <2>5. NoSleeperLeftBehind' BY <1>0, <2>1, <2>2 DEF NoSleeperLeftBehind, InCall, Wait
  <2> QED BY <1>1, <2>3, <2>4, <2>5 DEF WakeInv
<1>4. ASSUME NEW t \in Thread, DisarmFutexWait(t) PROVE WakeInv'
  <2>1. /\ pc[t] = "again" /\ UNCHANGED <<word, block_key, store_key>>
        /\ \A u \in Thread : pc'[u] = IF u = t THEN "user" ELSE pc[u]
        /\ \A u \in Thread : u # t => wait'[u] = wait[u]
        /\ \A u \in Armed \ {t} : armed_futex_waits'[u] = armed_futex_waits[u]
     BY <1>0, <1>4, DisarmedFact DEF DisarmFutexWait, TypeOK
  <2>2. \A k \in Key : WakerDue(k) => WakerDue(k)' BY <2>1, StillDue
  <2>3. ArmedForWait' BY <1>0, <2>1 DEF ArmedForWait, ArmedExact
  <2>4. CheckedIsSafe' BY <1>0, <2>1, <2>2 DEF CheckedIsSafe, ArmedExact, InCall, Wait
  <2>5. NoSleeperLeftBehind' BY <1>0, <2>1, <2>2 DEF NoSleeperLeftBehind, InCall, Wait
  <2> QED BY <1>1, <2>3, <2>4, <2>5 DEF WakeInv
<1>5. ASSUME NEW t \in Thread, BlockOnFutex(t) PROVE WakeInv'
  <2>1. /\ pc[t] = "checked" /\ UNCHANGED <<word, wait, store_key>>
        /\ pc'[t] \in {"runnable", "blocked"}
        /\ pc'[t] = "blocked" => ~RacedWake(t) /\ block_key'[t] = wait[t].key
        /\ \A u \in Thread \ {t} : pc'[u] = pc[u] /\ block_key'[u] = block_key[u]
        /\ \A u \in Armed \ {t} : armed_futex_waits'[u] = armed_futex_waits[u]
     BY <1>0, <1>5, DisarmedFact DEF BlockOnFutex, TypeOK
  <2>2. \A k \in Key : WakerDue(k) => WakerDue(k)' BY <2>1, StillDue
  <2>3. wait[t] \in Wait /\ t \in Armed /\ armed_futex_waits[t] \in ArmedFutexWait
     BY <1>0, <2>1 DEF InCall, ArmedExact, TypeOK
  <2>4. RacedWake(t) <=> armed_futex_waits[t].raced_wake
     BY <1>0, <2>1, <2>3 DEF RacedWake, ArmedForWait, ArmedFutexWait, Wait
  <2>5. ArmedForWait' BY <1>0, <2>1 DEF ArmedForWait, ArmedExact
  <2>6. CheckedIsSafe' BY <1>0, <2>1, <2>2 DEF CheckedIsSafe, ArmedExact, InCall, Wait
  <2>7. NoSleeperLeftBehind'
     BY <1>0, <2>1, <2>2, <2>3, <2>4 DEF NoSleeperLeftBehind, CheckedIsSafe, InCall, Wait
  <2> QED BY <1>1, <2>5, <2>6, <2>7 DEF WakeInv
<1>6. ASSUME NEW t \in Thread, ReturnFromWait(t) PROVE WakeInv'
  <2>1. /\ pc[t] = "runnable" /\ UNCHANGED <<word, block_key, armed_futex_waits, store_key>>
        /\ \A u \in Thread : pc'[u] = IF u = t THEN "user" ELSE pc[u]
        /\ \A u \in Thread : u # t => wait'[u] = wait[u]
     BY <1>0, <1>6 DEF ReturnFromWait, TypeOK
  <2>2. \A k \in Key : WakerDue(k) => WakerDue(k)' BY <2>1, StillDue
  <2>3. ArmedForWait' BY <1>0, <2>1 DEF ArmedForWait
  <2>4. CheckedIsSafe' BY <1>0, <2>1, <2>2 DEF CheckedIsSafe, InCall, Wait
  <2>5. NoSleeperLeftBehind' BY <1>0, <2>1, <2>2 DEF NoSleeperLeftBehind, InCall, Wait
  <2> QED BY <1>1, <2>3, <2>4, <2>5 DEF WakeInv
<1>7. ASSUME NEW t \in Thread, Expire(t) \/ Interrupt(t) PROVE WakeInv'
  <2>1. /\ pc[t] = "blocked" /\ UNCHANGED <<word, wait, armed_futex_waits, store_key>>
        /\ \A u \in Thread : pc'[u] = IF u = t THEN "runnable" ELSE pc[u]
        /\ \A u \in Thread : u # t => block_key'[u] = block_key[u]
     BY <1>0, <1>7 DEF Expire, Interrupt, Unblock
  <2>2. \A k \in Key : WakerDue(k) => WakerDue(k)' BY <2>1, StillDue
  <2>3. ArmedForWait' BY <1>0, <2>1 DEF ArmedForWait
  <2>4. CheckedIsSafe' BY <1>0, <2>1, <2>2 DEF CheckedIsSafe, InCall, Wait
  <2>5. NoSleeperLeftBehind' BY <1>0, <2>1, <2>2 DEF NoSleeperLeftBehind, InCall, Wait
  <2> QED BY <1>1, <2>3, <2>4, <2>5 DEF WakeInv
<1>8. ASSUME NEW t \in Thread, NEW k \in Key, NEW v \in Val, StoreWord(t, k, v) PROVE WakeInv'
  <2>1. /\ pc[t] = "user" /\ UNCHANGED <<wait, block_key, armed_futex_waits>>
        /\ \A u \in Thread : pc'[u] = IF u = t THEN "stored" ELSE pc[u]
        /\ \A u \in Thread : store_key'[u] = IF u = t THEN k ELSE store_key[u]
        /\ \A j \in Key : j # k => word'[j] = word[j]
     BY <1>0, <1>8 DEF StoreWord, TypeOK, waitVars
  <2>2. \A j \in Key : WakerDue(j) => WakerDue(j)' BY <2>1, StillDue
  <2>3. WakerDue(k)' BY <2>1 DEF WakerDue
  <2>4. ArmedForWait' BY <1>0, <2>1 DEF ArmedForWait
  <2>5. CheckedIsSafe' BY <1>0, <2>1, <2>2, <2>3 DEF CheckedIsSafe, InCall, Wait
  <2>6. NoSleeperLeftBehind' BY <1>0, <2>1, <2>2, <2>3 DEF NoSleeperLeftBehind, InCall, Wait
  <2> QED BY <1>1, <2>4, <2>5, <2>6 DEF WakeInv
<1>9. ASSUME NEW u \in Thread, WakeAll(u) PROVE WakeInv'
  <2> DEFINE key == store_key[u]
             A == ArmedWaiters(key, MatchAny)
             B == BlockedWaiters(key, MatchAny)
  <2>1. pc[u] = "stored" /\ key \in Key /\ WakeThese(u, A, B) BY <1>0, <1>9 DEF WakeAll, InCall
  <2>2. /\ UNCHANGED <<word, wait>>
        /\ \A t \in Armed : armed_futex_waits'[t] =
              IF t \in A THEN [armed_futex_waits[t] EXCEPT !.raced_wake = TRUE] ELSE armed_futex_waits[t]
        /\ \A t \in Thread : pc'[t] = IF t = u THEN "user" ELSE IF t \in B THEN "runnable" ELSE pc[t]
        /\ \A t \in Thread : block_key'[t] = IF t \in B THEN None ELSE block_key[t]
        /\ \A t \in Thread : store_key'[t] = IF t = u THEN None ELSE store_key[t]
     BY <1>0, <2>1 DEF WakeThese, TypeOK
  <2>3. \A t \in B : pc[t] = "blocked" BY DEF BlockedWaiters
  <2>4. \A k \in Key \ {key} : WakerDue(k) => WakerDue(k)' BY <2>2, <2>3 DEF WakerDue
  <2>5. \A t \in Armed : /\ armed_futex_waits[t] \in ArmedFutexWait
                         /\ armed_futex_waits'[t].key = armed_futex_waits[t].key
                         /\ armed_futex_waits'[t].bitset = armed_futex_waits[t].bitset
                         /\ armed_futex_waits[t].raced_wake => armed_futex_waits'[t].raced_wake
                         /\ t \in A => armed_futex_waits'[t].raced_wake
     BY <1>0, <2>2 DEF TypeOK, ArmedFutexWait
  \* Every armed or blocked wait on the word is reached: each bitset meets MatchAny.
  <2>6. \A w \in Wait : w.bitset \cap MatchAny # {} BY DEF Wait, Bitset, MatchAny
  <2>7. ASSUME NEW t \in Thread, pc[t] = "checked", wait[t].key = key
        PROVE  armed_futex_waits'[t].raced_wake
    BY <1>0, <2>7, <2>6, <2>5 DEF ArmedExact, InCall, ArmedWaiters, ArmedForWait
  <2>8. ASSUME NEW t \in Thread, pc[t] = "blocked", wait[t].key = key
        PROVE  t \in B
    BY <1>0, <2>8, <2>1, <2>6 DEF ArmedForWait, InCall, IndexInv, FutexIndexExact, BlockedWaiters
  <2> HIDE DEF A, B, key
  <2>9. ArmedForWait' BY <1>0, <2>2, <2>3, <2>5 DEF ArmedForWait, ArmedExact
  <2>10. CheckedIsSafe'
    <3> SUFFICES ASSUME NEW t \in Thread, pc'[t] = "checked", word'[wait'[t].key] # wait'[t].val
                 PROVE  armed_futex_waits'[t].raced_wake \/ WakerDue(wait[t].key)'
      BY DEF CheckedIsSafe, WakerDue
    <3>1. pc[t] = "checked" /\ wait[t] \in Wait /\ t \in Armed
       BY <1>0, <2>2 DEF InCall, ArmedExact
    <3>2. CASE wait[t].key = key BY <2>7, <3>1, <3>2
    <3>3. CASE wait[t].key # key
       BY <1>0, <2>2, <2>4, <2>5, <3>1, <3>3 DEF CheckedIsSafe, Wait
    <3> QED BY <3>2, <3>3
  <2>11. NoSleeperLeftBehind' BY <1>0, <2>2, <2>4, <2>8 DEF NoSleeperLeftBehind, InCall, Wait
  <2> QED BY <1>1, <2>9, <2>10, <2>11 DEF WakeInv
<1>10. CASE UNCHANGED vars
  BY <1>0, <1>1, <1>10
     DEF WakeInv, vars, ArmedForWait, CheckedIsSafe, NoSleeperLeftBehind, WakerDue
<1> QED BY <1>2, <1>3, <1>4, <1>5, <1>6, <1>7, <1>8, <1>9, <1>10 DEF BroadcastNext

\* When whoever changes a word wakes all its waiters, no waiter sleeps on a
\* word that has changed: not even one that checked it just before.
THEOREM NoLostWakeup == BroadcastSpec => []NoSleeperLeftBehind
<1>1. WakeInv => NoSleeperLeftBehind BY DEF WakeInv
<1> QED BY <1>1, WakeInit, WakeStep, PTL DEF BroadcastSpec

=============================================================================
