------------------------------ MODULE Inotify ------------------------------
(***************************************************************************)
(* inotify (fs/inotify.rs): the watches of each instance, the global       *)
(* registry that finds them by inode, and the events dispatched to them.   *)
(* The watches, the queue of events and the registry have a lock each, and *)
(* every call below takes them one after the other, so a step is what is   *)
(* done under one of them.                                                 *)
(*                                                                         *)
(* An event is its kind and its watch; names and cookies are left out.     *)
(***************************************************************************)
EXTENDS Integers, Sequences, FiniteSets

CONSTANTS
    InoFile,       \* inotify instances
    InoThread,
    WatchTarget,   \* inodes
    WatchMasks,    \* masks: sets of events, perhaps with "oneshot"
    MaxWd, MaxInoCalls, MaxInoEvents   \* bounds

ASSUME InotifyAssumption == MaxWd \in Nat \ {0} /\ "oneshot" \notin WatchTarget

VARIABLES
    watches,     \* per instance: its watch descriptors, with target and mask
    nextWd,
    registry,    \* REGISTRY.targets: the registrations <<instance, wd>>
    inoOpen,     \* instances still open: REGISTRY.instances that upgrade
    inoQueue,    \* events waiting to be read, per instance
    inoCall, inoCalls,
    ignored,     \* history: IN_IGNORED events pushed, per instance and wd
    inoPast      \* history: watches removed before they were registered, or
                 \* after a dispatcher had looked them up
inoVars == <<watches, nextWd, registry, inoOpen, inoQueue, inoCall, inoCalls, ignored, inoPast>>

InoIdle == [at |-> "idle"]
InoInit ==
    /\ watches = [i \in InoFile |-> <<>>]
    /\ nextWd = [i \in InoFile |-> 1]
    /\ registry = [target \in WatchTarget |-> <<>>]
    /\ inoOpen = InoFile
    /\ inoQueue = [i \in InoFile |-> <<>>]
    /\ inoCall = [t \in InoThread |-> InoIdle]
    /\ inoCalls = 0
    /\ ignored = [i \in InoFile |-> [wd \in 1..MaxWd |-> 0]]
    /\ inoPast = {}

InoGo(t, call) == inoCall' = [inoCall EXCEPT ![t] = call]
InoStarts(t) == inoCall[t] = InoIdle /\ inoCalls < MaxInoCalls /\ inoCalls' = inoCalls + 1
SameCalls == UNCHANGED inoCalls
Watching(i, target) == {wd \in DOMAIN watches[i] : watches[i][wd].target = target}
Without(f, x) == [y \in DOMAIN f \ {x} |-> f[y]]

---------------------------------------------------------------------------
(* add_watch and remove_watch                                              *)

\* inotify_add_watch: a target already watched has its mask replaced, or
\* widened with IN_MASK_ADD, or is refused with IN_MASK_CREATE,
AddWatch(t, i, target, mask, mode) ==
    /\ InoStarts(t) /\ i \in inoOpen
    /\ IF Watching(i, target) # {}
       THEN LET wd == CHOOSE w \in Watching(i, target) : TRUE
            IN  /\ mode # "create"
                /\ watches' = [watches EXCEPT ![i][wd].mask =
                                 IF mode = "add" THEN @ \cup mask ELSE mask]
                /\ UNCHANGED <<nextWd, inoCall>>
       ELSE /\ nextWd[i] <= MaxWd
            /\ watches' = [watches EXCEPT ![i] =
                 [wd \in DOMAIN @ \cup {nextWd[i]} |->
                    IF wd = nextWd[i] THEN [target |-> target, mask |-> mask] ELSE @[wd]]]
            /\ nextWd' = [nextWd EXCEPT ![i] = @ + 1]
            /\ InoGo(t, [at |-> "register", target |-> target, reg |-> <<i, nextWd[i]>>])
    /\ UNCHANGED <<registry, inoOpen, inoQueue, ignored, inoPast>>
\* then a new watch is registered, whether or not it is still there.
Register(t) ==
    /\ inoCall[t].at = "register"
    /\ LET r == inoCall[t].reg
       IN  /\ registry' = [registry EXCEPT ![inoCall[t].target] = Append(@, r)]
           /\ inoPast' = IF r[2] \in DOMAIN watches[r[1]] THEN inoPast ELSE inoPast \cup {r}
    /\ InoGo(t, InoIdle) /\ SameCalls
    /\ UNCHANGED <<watches, nextWd, inoOpen, inoQueue, ignored>>

\* Vec::retain: the elements of s that are in S, in their order
Retain(s, S) ==
    LET kept[n \in 0..Len(s)] == IF n = 0 THEN <<>>
                                 ELSE IF s[n] \in S THEN Append(kept[n - 1], s[n]) ELSE kept[n - 1]
    IN  kept[Len(s)]
\* The registrations whose instance is still there (Weak::upgrade)
OfOpen == inoOpen \X (1..MaxWd)
\* unregister: also forgets the watches of closed instances on that target
Unregistered(target, r) == [registry EXCEPT ![target] = Retain(@, OfOpen \ {r})]

\* A dispatcher has looked a watch up and not yet pushed its event.
Delivering(r) == \E t \in InoThread : inoCall[t].at = "deliver" /\ Head(inoCall[t].regs) = r
Dropped(r) ==
    /\ watches' = [watches EXCEPT ![r[1]] = Without(@, r[2])]
    /\ inoPast' = IF Delivering(r) THEN inoPast \cup {r} ELSE inoPast

\* remove_watch: the watch, the IN_IGNORED event, the registration
RemoveWatch(t, i, wd) ==
    /\ InoStarts(t) /\ i \in inoOpen /\ wd \in DOMAIN watches[i]
    /\ Dropped(<<i, wd>>)
    /\ InoGo(t, [at |-> "ignore", target |-> watches[i][wd].target, reg |-> <<i, wd>>])
    /\ UNCHANGED <<nextWd, registry, inoOpen, inoQueue, ignored>>
PushIgnored(r) ==
    /\ inoQueue' = [inoQueue EXCEPT ![r[1]] = Append(@, [wd |-> r[2], event |-> "ignored"])]
    /\ ignored' = [ignored EXCEPT ![r[1]][r[2]] = @ + 1]
RemoveIgnore(t) ==
    /\ inoCall[t].at = "ignore"
    /\ PushIgnored(inoCall[t].reg)
    /\ InoGo(t, [inoCall[t] EXCEPT !.at = "unregister"]) /\ SameCalls
    /\ UNCHANGED <<watches, nextWd, registry, inoOpen, inoPast>>
RemoveUnregister(t) ==
    /\ inoCall[t].at = "unregister"
    /\ registry' = Unregistered(inoCall[t].target, inoCall[t].reg)
    /\ InoGo(t, InoIdle) /\ SameCalls
    /\ UNCHANGED <<watches, nextWd, inoOpen, inoQueue, ignored, inoPast>>

---------------------------------------------------------------------------
(* Dispatching                                                             *)

Notice(target, event, remove) == [target |-> target, event |-> event, remove |-> remove]
\* notify_create, notify_attrib; notify_delete, which ends the watches of the
\* directory as well as those of the victim; notify_move
Created(dir) == <<Notice(dir, "create", FALSE)>>
Attrib(node) == <<Notice(node, "attrib", FALSE)>>
Deleted(dir, node) == <<Notice(dir, "delete", TRUE), Notice(node, "delete_self", TRUE)>>
MovedTo(from, to, node) == <<Notice(from, "moved_from", FALSE), Notice(to, "moved_to", FALSE),
                             Notice(node, "move_self", FALSE)>>

\* unlink and rename notify under the namespace lock
Serialised(notices) == Len(notices) > 1
Dispatching == {"take", "look", "deliver", "drop", "forget", "tell"}
NotifyStart(t, notices) ==
    /\ InoStarts(t)
    /\ Serialised(notices) => \A u \in InoThread : inoCall[u].at \in Dispatching => ~inoCall[u].long
    /\ InoGo(t, [at |-> "take", notices |-> notices, long |-> Serialised(notices),
                 regs |-> <<>>, once |-> <<>>, reg |-> <<>>])
    /\ UNCHANGED <<watches, nextWd, registry, inoOpen, inoQueue, ignored, inoPast>>

\* dispatch_target_event: the registrations, taken away when the watches end,
Take(t) ==
    /\ inoCall[t].at = "take"
    /\ LET n == Head(inoCall[t].notices)
           alive == Retain(registry[n.target], OfOpen)
       IN  /\ registry' = [registry EXCEPT ![n.target] = IF n.remove THEN <<>> ELSE alive]
           /\ InoGo(t, [inoCall[t] EXCEPT !.at = "look",
                          !.regs = IF n.remove THEN registry[n.target] ELSE alive])
    /\ SameCalls
    /\ UNCHANGED <<watches, nextWd, inoOpen, inoQueue, ignored, inoPast>>

\* each one's watch, looked up anew: gone; of no interest, to be removed all
\* the same when the watches end; or to be told
\* Mutant of LookedUp: a watch that did not ask for the event is left alone.
LookedUpInterested(call, r) ==
    LET n == Head(call.notices) IN
      IF r[1] \notin inoOpen \/ r[2] \notin DOMAIN watches[r[1]] THEN "look"
      ELSE IF n.event \in watches[r[1]][r[2]].mask THEN "deliver" ELSE "look"
LookedUp(call, r) ==
    LET n == Head(call.notices) IN
      IF r[1] \notin inoOpen \/ r[2] \notin DOMAIN watches[r[1]] THEN "look"
      ELSE IF n.event \in watches[r[1]][r[2]].mask THEN "deliver"
      ELSE IF n.remove THEN "drop" ELSE "look"
Look(t) ==
    /\ inoCall[t].at = "look" /\ inoCall[t].regs # <<>>
    /\ LET call == inoCall[t]
           r == Head(call.regs)
           next == LookedUp(call, r)
           ends == next = "deliver"
                     /\ (Head(call.notices).remove \/ "oneshot" \in watches[r[1]][r[2]].mask)
       IN  InoGo(t, [call EXCEPT !.at = next, !.reg = IF next = "drop" THEN r ELSE <<>>,
                       !.regs = IF next = "deliver" THEN @ ELSE Tail(@),
                       !.once = IF ends THEN Append(@, r) ELSE @])
    /\ SameCalls
    /\ UNCHANGED <<watches, nextWd, registry, inoOpen, inoQueue, ignored, inoPast>>
\* push_event
Deliver(t) ==
    /\ inoCall[t].at = "deliver"
    /\ LET call == inoCall[t]
           r == Head(call.regs)
       IN  /\ inoQueue' = [inoQueue EXCEPT ![r[1]] =
                             Append(@, [wd |-> r[2], event |-> Head(call.notices).event])]
           /\ InoGo(t, [call EXCEPT !.at = "look", !.regs = Tail(@)])
    /\ SameCalls
    /\ UNCHANGED <<watches, nextWd, registry, inoOpen, ignored, inoPast>>
\* and the watches that end go after the events: the next of them, the next
\* notice, or the end of the call.
Told(t) ==
    /\ inoCall[t].at = "look" /\ inoCall[t].regs = <<>>
    /\ LET call == inoCall[t] IN
         InoGo(t, IF call.once # <<>>
                  THEN [call EXCEPT !.at = "drop", !.reg = Head(call.once), !.once = Tail(@)]
                  ELSE IF Len(call.notices) > 1
                  THEN [call EXCEPT !.at = "take", !.notices = Tail(@)] ELSE InoIdle)
    /\ SameCalls
    /\ UNCHANGED <<watches, nextWd, registry, inoOpen, inoQueue, ignored, inoPast>>

\* auto_remove_watch: nothing more when another call has removed it
AutoRemoved(r) == IF r[2] \in DOMAIN watches[r[1]] THEN "forget" ELSE "look"
AutoRemove(t) ==
    /\ inoCall[t].at = "drop"
    /\ Dropped(inoCall[t].reg)
    /\ LET next == AutoRemoved(inoCall[t].reg)
       IN  InoGo(t, [inoCall[t] EXCEPT !.at = next, !.reg = IF next = "look" THEN <<>> ELSE @])
    /\ SameCalls
    /\ UNCHANGED <<nextWd, registry, inoOpen, inoQueue, ignored>>
AutoUnregister(t) ==
    /\ inoCall[t].at = "forget"
    /\ registry' = Unregistered(Head(inoCall[t].notices).target, inoCall[t].reg)
    /\ InoGo(t, [inoCall[t] EXCEPT !.at = "tell"]) /\ SameCalls
    /\ UNCHANGED <<watches, nextWd, inoOpen, inoQueue, ignored, inoPast>>
AutoIgnore(t) ==
    /\ inoCall[t].at = "tell"
    /\ PushIgnored(inoCall[t].reg)
    /\ InoGo(t, [inoCall[t] EXCEPT !.at = "look", !.reg = <<>>]) /\ SameCalls
    /\ UNCHANGED <<watches, nextWd, registry, inoOpen, inoPast>>

---------------------------------------------------------------------------
\* read: as many of the first events as fit the buffer, at least one
InoRead(i, n) ==
    /\ i \in inoOpen /\ n \in 1..Len(inoQueue[i])
    /\ inoQueue' = [inoQueue EXCEPT ![i] = SubSeq(@, n + 1, Len(@))]
    /\ UNCHANGED <<watches, nextWd, registry, inoOpen, inoCall, inoCalls, ignored, inoPast>>

\* The last descriptor is closed.  Calls made through one keep it open.
InUse(i) == \E t \in InoThread : inoCall[t].at \in {"register", "ignore", "unregister"}
                                   /\ inoCall[t].reg[1] = i
InoClose(i) ==
    /\ i \in inoOpen /\ ~InUse(i)
    /\ inoOpen' = inoOpen \ {i}
    /\ UNCHANGED <<watches, nextWd, registry, inoQueue, inoCall, inoCalls, ignored, inoPast>>

Notices == {Created(d) : d \in WatchTarget} \cup {Attrib(n) : n \in WatchTarget}
             \cup {Deleted(p[1], p[2]) : p \in WatchTarget \X WatchTarget}
             \cup {MovedTo(p[1], p[2], p[3]) : p \in WatchTarget \X WatchTarget \X WatchTarget}
InoNext ==
    \/ \E t \in InoThread :
         \/ \E i \in InoFile, target \in WatchTarget, mask \in WatchMasks,
               mode \in {"set", "add", "create"} : AddWatch(t, i, target, mask, mode)
         \/ \E i \in InoFile, wd \in 1..MaxWd : RemoveWatch(t, i, wd)
         \/ \E notices \in Notices : NotifyStart(t, notices)
         \/ Register(t) \/ RemoveIgnore(t) \/ RemoveUnregister(t) \/ Take(t) \/ Look(t)
         \/ Deliver(t) \/ Told(t) \/ AutoRemove(t) \/ AutoUnregister(t) \/ AutoIgnore(t)
    \/ \E i \in InoFile : InoClose(i) \/ \E n \in 1..MaxInoEvents : InoRead(i, n)
InoSpec == InoInit /\ [][InoNext]_inoVars

---------------------------------------------------------------------------
Registered(r, target) == \E k \in DOMAIN registry[target] : registry[target][k] = r
\* Calls that hold a registration: about to enter it, or to end its watch.
Held(r) == \E t \in InoThread :
    \/ inoCall[t].at = "register" /\ inoCall[t].reg = r
    \/ /\ inoCall[t].at \in Dispatching
       /\ \/ inoCall[t].reg = r
          \/ \E k \in DOMAIN inoCall[t].regs : inoCall[t].regs[k] = r
          \/ \E k \in DOMAIN inoCall[t].once : inoCall[t].once[k] = r
    \/ inoCall[t].at \in {"ignore", "unregister"} /\ inoCall[t].reg = r

(* Watches and registry agree, although no lock covers both: a watch that  *)
(* an instance lists is found by the next event on its inode, unless a     *)
(* call that will register or end it is under way, and a registration      *)
(* without a watch is left only by a removal that came before add_watch    *)
(* had registered.                                                         *)
WatchesHeard ==
    \A i \in inoOpen :
      /\ \A wd \in DOMAIN watches[i] : Registered(<<i, wd>>, watches[i][wd].target) \/ Held(<<i, wd>>)
      /\ \A target \in WatchTarget : \A k \in DOMAIN registry[target] :
           LET r == registry[target][k]
           IN  r[1] = i => r[2] \in DOMAIN watches[i] \/ Held(r) \/ r \in inoPast

(* A watch that has ended is announced by one IN_IGNORED event, however    *)
(* many calls ended it at once, and no event of it follows, unless a       *)
(* dispatcher had already looked it up.                                    *)
IgnoredOnce ==
    \A i \in inoOpen :
      /\ \A wd \in 1..(nextWd[i] - 1) :
           /\ ignored[i][wd] <= 1
           /\ wd \notin DOMAIN watches[i] /\ ~Held(<<i, wd>>) => ignored[i][wd] = 1
      /\ \A j, k \in DOMAIN inoQueue[i] :
           (j < k /\ inoQueue[i][j].event = "ignored" /\ inoQueue[i][k].wd = inoQueue[i][j].wd)
             => <<i, inoQueue[i][j].wd>> \in inoPast

\* A watch hears its target until it is told, once, that it is gone
\* (fs/inotify.rs).
WatchesSound == WatchesHeard /\ IgnoredOnce
=============================================================================
