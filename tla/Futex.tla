------------------------------- MODULE Futex -------------------------------
(***************************************************************************)
(* futex(2): handlers/process/futex.rs and the futex half of manager.rs.   *)
(*                                                                         *)
(* A wait is armed under the manager's lock, then reads the word without   *)
(* it, then blocks under the lock again; a waker stores to the word and    *)
(* calls the kernel afterwards.  Each of those is an action, so stores,    *)
(* wakes, requeues, timeouts and signals fall between any two of them.     *)
(*                                                                         *)
(* A Key is a futex word with the scope (private or shared) the program    *)
(* uses for it.  Wakers follow the protocol: whoever changes a word wakes. *)
(***************************************************************************)
EXTENDS Naturals, FiniteSets

CONSTANTS
    Thread,
    Key,
    Val,        \* values of a futex word
    None,
    Bit         \* the bits of a bitset; FUTEX_BITSET_MATCH_ANY is all of them

ASSUME ThreadAssumption == IsFiniteSet(Thread)
ASSUME NoneAssumption == None \notin Key
ASSUME BitAssumption == IsFiniteSet(Bit) /\ Bit # {}

Bitset == (SUBSET Bit) \ {{}}
MatchAny == Bit

Wait == [key : Key, val : Val, bitset : Bitset, timed : BOOLEAN]
ArmedFutexWait == [key : Key, bitset : Bitset, raced_wake : BOOLEAN]
BlockResult == {"Woken", "TimedOut", "Interrupted"}

VARIABLES
    word,               \* the futex words, in user memory
    pc,                 \* how far each thread is; see the actions
    wait,               \* the arguments of its FUTEX_WAIT, None outside one
    block_key,          \* the key of its ProcessBlock::Futex; requeue changes it
    armed_futex_waits,  \* the armed entries, by thread
    blocked_futexes,    \* ProcessManager.blocked_futexes
    wake_result,        \* KernelProcess.wake_result
    store_key           \* the word a waker has stored to and not yet woken

vars == <<word, pc, wait, block_key, armed_futex_waits, blocked_futexes, wake_result, store_key>>
waitVars == <<wait, block_key, armed_futex_waits, blocked_futexes, wake_result>>

PC == {"user", "armed", "again", "checked", "blocked", "runnable", "stored"}
Armed == DOMAIN armed_futex_waits
Disarmed(T) == [t \in Armed \ T |-> armed_futex_waits[t]]

Init ==
    /\ word \in [Key -> Val]
    /\ pc = [t \in Thread |-> "user"]
    /\ wait = [t \in Thread |-> None]
    /\ block_key = [t \in Thread |-> None]
    /\ armed_futex_waits = [t \in {} |-> 0]
    /\ blocked_futexes = [k \in Key |-> {}]
    /\ wake_result = [t \in Thread |-> None]
    /\ store_key = [t \in Thread |-> None]

-----------------------------------------------------------------------------
(* FUTEX_WAIT and FUTEX_WAIT_BITSET: futex_blocking *)

\* Mutant of ArmFutexWait: the wait is announced only when it blocks.
ArmNothing(t, w) ==
    /\ pc[t] = "user"
    /\ pc' = [pc EXCEPT ![t] = "armed"]
    /\ wait' = [wait EXCEPT ![t] = w]
    /\ UNCHANGED <<word, block_key, armed_futex_waits, blocked_futexes, wake_result, store_key>>
ArmFutexWait(t, w) ==
    /\ pc[t] = "user"
    /\ pc' = [pc EXCEPT ![t] = "armed"]
    /\ wait' = [wait EXCEPT ![t] = w]
    /\ armed_futex_waits' = [u \in Armed \cup {t} |->
          IF u = t THEN [key |-> w.key, bitset |-> w.bitset, raced_wake |-> FALSE]
          ELSE armed_futex_waits[u]]
    /\ UNCHANGED <<word, block_key, blocked_futexes, wake_result, store_key>>

\* read_futex_word, outside the lock; faulted when the word cannot be read.
ReadFutexWord(t, faulted) ==
    /\ pc[t] = "armed"
    /\ pc' = [pc EXCEPT ![t] = IF ~faulted /\ word[wait[t].key] = wait[t].val
                               THEN "checked" ELSE "again"]
    /\ UNCHANGED <<word, waitVars, store_key>>

\* The word differs (EAGAIN) or cannot be read (EFAULT).
DisarmFutexWait(t) ==
    /\ pc[t] = "again"
    /\ pc' = [pc EXCEPT ![t] = "user"]
    /\ wait' = [wait EXCEPT ![t] = None]
    /\ armed_futex_waits' = Disarmed({t})
    /\ UNCHANGED <<word, block_key, blocked_futexes, wake_result, store_key>>

\* Mutant of RacedWake: the armed entry is taken without looking at it.
NoRace(t) == FALSE
\* The wake that reached the armed entry, if it still is for this wait.
RacedWake(t) ==
    /\ t \in Armed
    /\ armed_futex_waits[t].key = wait[t].key
    /\ armed_futex_waits[t].bitset = wait[t].bitset
    /\ armed_futex_waits[t].raced_wake

\* block_from_disposition, track_blocked_process
BlockOnFutex(t) ==
    /\ pc[t] = "checked"
    /\ armed_futex_waits' = Disarmed({t})
    /\ \/ /\ RacedWake(t)
          /\ pc' = [pc EXCEPT ![t] = "runnable"]
          /\ wake_result' = [wake_result EXCEPT ![t] = "Woken"]
          /\ UNCHANGED <<block_key, blocked_futexes>>
       \/ /\ ~RacedWake(t)
          /\ pc' = [pc EXCEPT ![t] = "blocked"]
          /\ wake_result' = [wake_result EXCEPT ![t] = None]
          /\ block_key' = [block_key EXCEPT ![t] = wait[t].key]
          /\ blocked_futexes' = [blocked_futexes EXCEPT ![wait[t].key] = @ \cup {t}]
    /\ UNCHANGED <<word, wait, store_key>>

\* The woken system call returns to user mode.
ReturnFromWait(t) ==
    /\ pc[t] = "runnable"
    /\ pc' = [pc EXCEPT ![t] = "user"]
    /\ wait' = [wait EXCEPT ![t] = None]
    /\ wake_result' = [wake_result EXCEPT ![t] = None]
    /\ UNCHANGED <<word, block_key, armed_futex_waits, blocked_futexes, store_key>>

-----------------------------------------------------------------------------
(* Leaving the wait: untrack_blocked_process, the result, Runnable *)

Unblock(W, r) ==
    /\ pc' = [t \in Thread |-> IF t \in W THEN "runnable" ELSE pc[t]]
    /\ block_key' = [t \in Thread |-> IF t \in W THEN None ELSE block_key[t]]
    /\ wake_result' = [t \in Thread |-> IF t \in W THEN r ELSE wake_result[t]]
    /\ blocked_futexes' = [k \in Key |-> blocked_futexes[k] \ W]

\* wake_expired_timers, for a wait with a deadline
Expire(t) ==
    /\ pc[t] = "blocked" /\ wait[t].timed
    /\ Unblock({t}, "TimedOut")
    /\ UNCHANGED <<word, wait, armed_futex_waits, store_key>>

\* notify_signal
Interrupt(t) ==
    /\ pc[t] = "blocked"
    /\ Unblock({t}, "Interrupted")
    /\ UNCHANGED <<word, wait, armed_futex_waits, store_key>>

-----------------------------------------------------------------------------
(* Wakers *)

\* A program stores to a word whose waiters it will wake, or the kernel does:
\* clear_child_tid and the robust list of an exiting thread.
StoreWord(t, k, v) ==
    /\ pc[t] = "user"
    /\ word' = [word EXCEPT ![k] = v]
    /\ pc' = [pc EXCEPT ![t] = "stored"]
    /\ store_key' = [store_key EXCEPT ![t] = k]
    /\ UNCHANGED waitVars

\* The waits of T on k that a wake with bitset b may reach.
ArmedWaiters(k, b) ==
    {t \in Armed : /\ armed_futex_waits[t].key = k
                   /\ armed_futex_waits[t].bitset \cap b # {}
                   /\ ~armed_futex_waits[t].raced_wake}
BlockedWaiters(k, b) ==
    {t \in blocked_futexes[k] : /\ pc[t] = "blocked"
                                /\ block_key[t] = k
                                /\ wait[t].bitset \cap b # {}}

Least(m, n) == IF m < n THEN m ELSE n

\* wake_armed_futex_waits of A, then wake_futex of B, by thread u
WakeThese(u, A, B) ==
    /\ armed_futex_waits' = [t \in Armed |->
          IF t \in A THEN [armed_futex_waits[t] EXCEPT !.raced_wake = TRUE]
          ELSE armed_futex_waits[t]]
    /\ pc' = [t \in Thread |-> IF t = u THEN "user" ELSE IF t \in B THEN "runnable" ELSE pc[t]]
    /\ wake_result' = [t \in Thread |-> IF t \in B THEN "Woken" ELSE wake_result[t]]
    /\ block_key' = [t \in Thread |-> IF t \in B THEN None ELSE block_key[t]]
    /\ blocked_futexes' = [k \in Key |-> blocked_futexes[k] \ B]
    /\ store_key' = [store_key EXCEPT ![u] = None]
    /\ UNCHANGED <<word, wait>>

\* FUTEX_WAKE of at least as many as there are (INT_MAX), as clear_child_tid does
WakeAll(u) ==
    /\ pc[u] = "stored"
    /\ WakeThese(u, ArmedWaiters(store_key[u], MatchAny), BlockedWaiters(store_key[u], MatchAny))

\* FUTEX_WAKE and FUTEX_WAKE_BITSET of at most count: armed waits come first
WakeSome(u, count, b) ==
    /\ pc[u] = "stored"
    /\ \E A \in SUBSET ArmedWaiters(store_key[u], b), B \in SUBSET BlockedWaiters(store_key[u], b) :
          /\ Cardinality(A) = Least(count, Cardinality(ArmedWaiters(store_key[u], b)))
          /\ Cardinality(B) = Least(count - Cardinality(A),
                                    Cardinality(BlockedWaiters(store_key[u], b)))
          /\ WakeThese(u, A, B)

\* Mutant of Moved: a requeued waiter stays under the old key.
NotMoved(from, to, M) == blocked_futexes
\* untrack under from, track under to
Moved(from, to, M) ==
    [[blocked_futexes EXCEPT ![from] = @ \ M] EXCEPT ![to] = @ \cup M]

\* Wake A and B, move the armed entries AM and the blocked waiters BM.
RequeueThese(u, to, A, B, AM, BM) ==
    /\ armed_futex_waits' = [t \in Armed |->
          CASE t \in A -> [armed_futex_waits[t] EXCEPT !.raced_wake = TRUE]
            [] t \in AM -> [armed_futex_waits[t] EXCEPT !.key = to]
            [] OTHER -> armed_futex_waits[t]]
    /\ pc' = [t \in Thread |-> IF t = u THEN "user" ELSE IF t \in B THEN "runnable" ELSE pc[t]]
    /\ wake_result' = [t \in Thread |-> IF t \in B THEN "Woken" ELSE wake_result[t]]
    /\ block_key' = [t \in Thread |-> IF t \in B THEN None
                                      ELSE IF t \in BM THEN to ELSE block_key[t]]
    /\ blocked_futexes' = [k \in Key |-> Moved(store_key[u], to, BM)[k] \ B]
    /\ store_key' = [store_key EXCEPT ![u] = None]
    /\ UNCHANGED <<word, wait>>

\* FUTEX_REQUEUE and FUTEX_CMP_REQUEUE: wake some, move some of the others.
\* The comparison of FUTEX_CMP_REQUEUE happened before, outside the lock.
RequeueFutex(u, to, wake_count, requeue_count) ==
    LET armed   == ArmedWaiters(store_key[u], MatchAny)
        blocked == BlockedWaiters(store_key[u], MatchAny)
    IN
    /\ pc[u] = "stored"
    /\ \E A \in SUBSET armed, B \in SUBSET blocked, AM \in SUBSET armed, BM \in SUBSET blocked :
          /\ A \cap AM = {} /\ B \cap BM = {}
          /\ Cardinality(A) = Least(wake_count, Cardinality(armed))
          /\ Cardinality(B) = Least(wake_count - Cardinality(A), Cardinality(blocked))
          /\ Cardinality(AM) = Least(requeue_count, Cardinality(armed \ A))
          /\ Cardinality(BM) = Least(requeue_count - Cardinality(AM), Cardinality(blocked \ B))
          /\ RequeueThese(u, to, A, B, AM, BM)

-----------------------------------------------------------------------------
\* Programs that wake every waiter of a word they change.
BroadcastNext ==
    \E t \in Thread :
       \/ \E w \in Wait : ArmFutexWait(t, w)
       \/ \E faulted \in BOOLEAN : ReadFutexWord(t, faulted)
       \/ DisarmFutexWait(t) \/ BlockOnFutex(t) \/ ReturnFromWait(t)
       \/ Expire(t) \/ Interrupt(t)
       \/ \E k \in Key, v \in Val : StoreWord(t, k, v)
       \/ WakeAll(t)

Next ==
    \/ BroadcastNext
    \/ \E u \in Thread, count \in 0..Cardinality(Thread), b \in Bitset : WakeSome(u, count, b)
    \/ \E u \in Thread, to \in Key, wake_count, requeue_count \in 0..Cardinality(Thread) :
          RequeueFutex(u, to, wake_count, requeue_count)

Spec == Init /\ [][Next]_vars

\* The kernel finishes each system call; no thread has to start one.
Fairness == \A t \in Thread : /\ WF_vars(\E faulted \in BOOLEAN : ReadFutexWord(t, faulted))
                              /\ WF_vars(DisarmFutexWait(t)) /\ WF_vars(BlockOnFutex(t))
                              /\ WF_vars(ReturnFromWait(t)) /\ WF_vars(WakeAll(t))
BroadcastSpec == Init /\ [][BroadcastNext]_vars
FairBroadcastSpec == BroadcastSpec /\ Fairness

-----------------------------------------------------------------------------
(* Properties *)

\* Typing: an armed entry is for a thread and has a key and a bitset.
TypeOK ==
    /\ word \in [Key -> Val]
    /\ pc \in [Thread -> PC]
    /\ wait \in [Thread -> Wait \cup {None}]
    /\ block_key \in [Thread -> Key \cup {None}]
    /\ Armed \subseteq Thread
    /\ armed_futex_waits \in [Armed -> ArmedFutexWait]
    /\ blocked_futexes \in [Key -> SUBSET Thread]
    /\ wake_result \in [Thread -> BlockResult \cup {None}]
    /\ store_key \in [Thread -> Key \cup {None}]

\* blocked_futexes lists exactly the threads blocked on each key, through
\* blocking, waking, requeueing, timeouts and signals: no wake looks in vain.
FutexIndexExact ==
    \A k \in Key : blocked_futexes[k] = {t \in Thread : pc[t] = "blocked" /\ block_key[t] = k}

\* A thread is armed exactly between announcing its wait and blocking or
\* giving up: no stale entry is left to swallow a wake meant for a sleeper.
ArmedExact == Armed = {t \in Thread : pc[t] \in {"armed", "again", "checked"}}

WakerDue(k) == \E u \in Thread : pc[u] = "stored" /\ store_key[u] = k

\* No lost wake-up: a thread sleeps on a word that no longer has the value it
\* waits on only while the thread that changed it is still about to wake it,
\* although the check of the word and the sleep are two lock sections.
NoSleeperLeftBehind ==
    \A t \in Thread :
       pc[t] = "blocked" /\ word[wait[t].key] # wait[t].val => WakerDue(wait[t].key)

\* So a waiter returns once its word has changed.
SleeperReturns ==
    \A t \in Thread :
       pc[t] = "blocked" /\ word[wait[t].key] # wait[t].val ~> pc[t] # "blocked"
=============================================================================
