------------------------------ MODULE Uevents ------------------------------
(***************************************************************************)
(* Device announcements: the registration of devices in /dev and sysfs     *)
(* (kernfs.rs) and the netlink sockets that hear of it (net/netlink.rs).   *)
(* A message goes into a bounded history and then to the sockets of its    *)
(* groups, one after the other; a socket that joins a group has the        *)
(* history replayed.  No lock is held over more than one of these steps.   *)
(***************************************************************************)
EXTENDS Integers, Sequences, FiniteSets

CONSTANTS
    UeThread, UeSocket, UeDevice,
    UePorts,        \* ports a program may ask for; 1 is the pid of the owner
    MaxHistory,     \* MAX_HISTORICAL_MESSAGES
    RcvSlots,       \* messages that fit in rcvbuf
    MaxUeCalls, NoUeSocket

ASSUME UeventsAssumption ==
    /\ MaxHistory \in Nat \ {0} /\ RcvSlots \in Nat \ {0} /\ UePorts \subseteq Nat \ {0}
    /\ NoUeSocket \notin UeSocket /\ IsFiniteSet(UeSocket)

VARIABLES
    nlSock,         \* per socket: open, portid, groups, the connected port, recv_queue
    history,      \* HISTORICAL_MESSAGES
    seqnum,       \* UEVENT_SEQNUM
    devices,      \* what is installed of each device
    ueCall, ueCalls,
    ueSent,         \* history: every message put into the history, in order
    heard         \* history: the messages queued for, or refused by, each socket
ueVars == <<nlSock, history, seqnum, devices, ueCall, ueCalls, ueSent, heard>>

KernelGroup == 1      \* NETLINK_KOBJECT_UEVENT_GROUP
UserGroup == 2        \* a group programs send to
ClosedSocket == [open |-> FALSE, port |-> 0, groups |-> {}, peer |-> 0, queue |-> <<>>]
UeIdle == [at |-> "idle"]

UeInit ==
    /\ nlSock = [s \in UeSocket |-> ClosedSocket]
    /\ history = <<>> /\ seqnum = 0 /\ ueSent = <<>>
    /\ devices = [d \in UeDevice |-> {}]
    /\ ueCall = [t \in UeThread |-> UeIdle] /\ ueCalls = 0
    /\ heard = [s \in UeSocket |-> {}]

UeGo(t, call) == ueCall' = [ueCall EXCEPT ![t] = call]
UeStarts(t) ==
    /\ ueCall[t] = UeIdle
    /\ ueCalls < MaxUeCalls /\ ueCalls' = ueCalls + 1
On(t, s) == UeStarts(t) /\ nlSock[s].open
\* A call that is under way on the socket
Busy(t, s) == ueCall[t].at \in {"bind", "replay", "deliver"} /\ ueCall[t].nlSock = s

\* enqueue: a full buffer refuses the message
Enqueued(s, m) ==
    /\ nlSock' = [nlSock EXCEPT ![s].queue = IF Len(@) < RcvSlots THEN Append(@, m) ELSE @]
    /\ heard' = [heard EXCEPT ![s] = @ \cup {m.id}]

---------------------------------------------------------------------------
(* Broadcast                                                               *)

PushedWhenRoom(h, m) == IF Len(h) >= MaxHistory THEN h ELSE Append(h, m)
\* The oldest message makes room
Pushed(h, m) == Append(IF Len(h) >= MaxHistory THEN Tail(h) ELSE h, m)
\* broadcast_message: into the history
Push(t) ==
    /\ ueCall[t].at = "push"
    /\ LET c == ueCall[t]
           m == [id |-> Len(ueSent) + 1, groups |-> c.groups, port |-> c.port]
       IN  /\ history' = Pushed(history, m)
           /\ ueSent' = Append(ueSent, m)
           /\ UeGo(t, [at |-> "collect", m |-> m, then |-> c.then])
    /\ UNCHANGED <<nlSock, seqnum, devices, ueCalls, heard>>
\* live_sockets
LiveSockets == {s \in UeSocket : nlSock[s].open}
Sending(c, todo, to) == [at |-> "send", m |-> c.m, todo |-> todo, to |-> to, then |-> c.then]
Collect(t) ==
    /\ ueCall[t].at = "collect"
    /\ UeGo(t, Sending(ueCall[t], LiveSockets, NoUeSocket))
    /\ UNCHANGED <<nlSock, history, seqnum, devices, ueCalls, ueSent, heard>>
\* Each socket's groups are looked at, and then the message is queued
SendLook(t, s) ==
    /\ ueCall[t].at = "send" /\ ueCall[t].to = NoUeSocket /\ s \in ueCall[t].todo
    /\ UeGo(t, Sending(ueCall[t], ueCall[t].todo \ {s},
                       IF nlSock[s].groups \cap ueCall[t].m.groups # {} THEN s ELSE NoUeSocket))
    /\ UNCHANGED <<nlSock, history, seqnum, devices, ueCalls, ueSent, heard>>
SendEnqueue(t) ==
    /\ ueCall[t].at = "send" /\ ueCall[t].to # NoUeSocket
    /\ IF nlSock[ueCall[t].to].open THEN Enqueued(ueCall[t].to, ueCall[t].m) ELSE UNCHANGED <<nlSock, heard>>
    /\ UeGo(t, Sending(ueCall[t], ueCall[t].todo, NoUeSocket))
    /\ UNCHANGED <<history, seqnum, devices, ueCalls, ueSent>>
SendDone(t) ==
    /\ ueCall[t].at = "send" /\ ueCall[t].to = NoUeSocket /\ ueCall[t].todo = {}
    /\ UeGo(t, ueCall[t].then)
    /\ UNCHANGED <<nlSock, history, seqnum, devices, ueCalls, ueSent, heard>>

---------------------------------------------------------------------------
(* Devices                                                                 *)

\* publish_kobject_uevent
Publishing(then) == [at |-> "push", groups |-> {KernelGroup}, port |-> 0, then |-> then]

\* register_device: the nodes in /dev
RegisterNodes(t, d) ==
    /\ UeStarts(t) /\ devices[d] = {}
    /\ \A u \in UeThread : ueCall[u].at = "sysfs" => ueCall[u].device # d
    /\ devices' = [devices EXCEPT ![d] = {"nodes"}]
    /\ UeGo(t, [at |-> "sysfs", device |-> d])
    /\ UNCHANGED <<nlSock, history, seqnum, ueSent, heard>>
\* register_sysfs_resource: the directory, with its uevent file, and the
\* links; then the announcement
RegisterSysfs(t) ==
    /\ ueCall[t].at = "sysfs"
    /\ devices' = [devices EXCEPT ![ueCall[t].device] = @ \cup {"uevent"}]
    /\ seqnum' = seqnum + 1
    /\ UeGo(t, Publishing([at |-> "entries", device |-> ueCall[t].device]))
    /\ UNCHANGED <<nlSock, history, ueCalls, ueSent, heard>>
\* The device's own entries come after the announcement
RegisterEntries(t) ==
    /\ ueCall[t].at = "entries"
    /\ devices' = [devices EXCEPT ![ueCall[t].device] = @ \cup {"entries"}]
    /\ UeGo(t, UeIdle)
    /\ UNCHANGED <<nlSock, history, seqnum, ueCalls, ueSent, heard>>
\* A program writes to the uevent file: announced again
WriteUevent(t, d) ==
    /\ UeStarts(t) /\ "uevent" \in devices[d]
    /\ seqnum' = seqnum + 1
    /\ UeGo(t, Publishing(UeIdle))
    /\ UNCHANGED <<nlSock, history, devices, ueSent, heard>>

---------------------------------------------------------------------------
(* Sockets                                                                 *)

NlCreate(t, s) ==
    /\ UeStarts(t) /\ ~nlSock[s].open
    /\ \A u \in UeThread : ueCall[u].at = "send" => s # ueCall[u].to /\ s \notin ueCall[u].todo
    /\ nlSock' = [nlSock EXCEPT ![s] = [ClosedSocket EXCEPT !.open = TRUE]]
    /\ heard' = [heard EXCEPT ![s] = {}]
    /\ UNCHANGED <<history, seqnum, devices, ueCall, ueSent>>
\* The last reference goes: no call is on the socket
NlDrop(t, s) ==
    /\ On(t, s)
    /\ \A u \in UeThread : ~Busy(u, s)
    /\ nlSock' = [nlSock EXCEPT ![s] = ClosedSocket]
    /\ UNCHANGED <<history, seqnum, devices, ueCall, ueSent, heard>>

\* portid_in_use, allocate_portid
InUse(s, port) == \E r \in LiveSockets \ {s} : nlSock[r].port = port
Allocated(s) == CHOOSE port \in 1..(Cardinality(UeSocket) + 1) :
                  ~InUse(s, port) /\ \A low \in 1..(port - 1) : InUse(s, low)
\* ensure_portid
EnsuredPort(s) == IF nlSock[s].port = 0 THEN Allocated(s) ELSE nlSock[s].port

\* set_sol_netlink: the groups, and a replay of what is new to the socket
AddMembership(t, s, group) ==
    /\ On(t, s)
    /\ nlSock' = [nlSock EXCEPT ![s].groups = @ \cup {group}]
    /\ UeGo(t, [at |-> "replay", nlSock |-> s, groups |-> {group} \ nlSock[s].groups])
    /\ UNCHANGED <<history, seqnum, devices, ueSent, heard>>
DropMembership(t, s, group) ==
    /\ On(t, s)
    /\ nlSock' = [nlSock EXCEPT ![s].groups = @ \ {group}]
    /\ UNCHANGED <<history, seqnum, devices, ueCall, ueSent, heard>>

\* bind: the port is checked, or found, before the socket is locked
BindCheck(t, s, port, groups) ==
    /\ On(t, s) /\ (port # 0 => ~InUse(s, port))
    /\ UeGo(t, [at |-> "bind", nlSock |-> s, port |-> IF port = 0 THEN Allocated(s) ELSE port, groups |-> groups])
    /\ UNCHANGED <<nlSock, history, seqnum, devices, ueSent, heard>>
NlBind(t) ==
    /\ ueCall[t].at = "bind"
    /\ LET c == ueCall[t]
       IN  /\ nlSock' = [nlSock EXCEPT ![c.nlSock].port = c.port, ![c.nlSock].groups = c.groups]
           /\ UeGo(t, [at |-> "replay", nlSock |-> c.nlSock, groups |-> c.groups])
    /\ UNCHANGED <<history, seqnum, devices, ueCalls, ueSent, heard>>

\* deliver_historical_messages: a copy of the history, then one by one those that
\* are wanted (the copy is of these alone; neither they nor the groups change)
Replay(t) ==
    /\ ueCall[t].at = "replay"
    /\ UeGo(t, [at |-> "deliver", nlSock |-> ueCall[t].nlSock, groups |-> ueCall[t].groups, todo |-> history])
    /\ UNCHANGED <<nlSock, history, seqnum, devices, ueCalls, ueSent, heard>>
Deliver(t) ==
    /\ ueCall[t].at = "deliver"
    /\ LET c == ueCall[t]
       IN  IF c.todo = <<>> THEN UeGo(t, UeIdle) /\ UNCHANGED <<nlSock, heard>>
           ELSE /\ UeGo(t, [at |-> "deliver", nlSock |-> c.nlSock, groups |-> c.groups, todo |-> Tail(c.todo)])
                /\ IF Head(c.todo).groups \cap c.groups # {} THEN Enqueued(c.nlSock, Head(c.todo))
                   ELSE UNCHANGED <<nlSock, heard>>
    /\ UNCHANGED <<history, seqnum, devices, ueCalls, ueSent>>

NlConnect(t, s, port) ==
    /\ On(t, s)
    /\ nlSock' = [nlSock EXCEPT ![s].peer = port, ![s].port = EnsuredPort(s)]
    /\ UNCHANGED <<history, seqnum, devices, ueCall, ueSent, heard>>
\* send_to: to the groups of the address, or to the socket of its port
SendGroups(t, s) ==
    /\ On(t, s)
    /\ nlSock' = [nlSock EXCEPT ![s].port = EnsuredPort(s)]
    /\ UeGo(t, [at |-> "push", groups |-> {UserGroup}, port |-> EnsuredPort(s), then |-> UeIdle])
    /\ UNCHANGED <<history, seqnum, devices, ueSent, heard>>
LookupPort(s, port) == {r \in LiveSockets \ {s} : nlSock[r].port = port}
SendPort(t, s) ==
    /\ On(t, s) /\ nlSock[s].peer # 0
    /\ \E r \in LookupPort(s, nlSock[s].peer) :
         nlSock' = [nlSock EXCEPT ![s].port = EnsuredPort(s),
                    ![r].queue = IF Len(@) < RcvSlots
                                 THEN Append(@, [id |-> 0, groups |-> {}, port |-> EnsuredPort(s)]) ELSE @]
    /\ UNCHANGED <<history, seqnum, devices, ueCall, ueSent, heard>>
\* recv_from without MSG_PEEK
RecvFrom(t, s) ==
    /\ On(t, s) /\ nlSock[s].queue # <<>>
    /\ nlSock' = [nlSock EXCEPT ![s].queue = Tail(@)]
    /\ UNCHANGED <<history, seqnum, devices, ueCall, ueSent, heard>>

UeNext ==
    \E t \in UeThread :
      \/ Push(t) \/ Collect(t) \/ SendEnqueue(t) \/ SendDone(t)
      \/ RegisterSysfs(t) \/ RegisterEntries(t) \/ NlBind(t) \/ Replay(t) \/ Deliver(t)
      \/ \E d \in UeDevice : RegisterNodes(t, d) \/ WriteUevent(t, d)
      \/ \E s \in UeSocket :
           \/ SendLook(t, s) \/ NlCreate(t, s) \/ NlDrop(t, s)
           \/ \E g \in {KernelGroup, UserGroup} : AddMembership(t, s, g) \/ DropMembership(t, s, g)
           \/ \E port \in UePorts \cup {0}, gs \in {{}, {KernelGroup}} : BindCheck(t, s, port, gs)
           \/ \E port \in UePorts : NlConnect(t, s, port)
           \/ SendGroups(t, s) \/ SendPort(t, s) \/ RecvFrom(t, s)
UeSpec == UeInit /\ [][UeNext]_ueVars

---------------------------------------------------------------------------
(* Properties                                                              *)

\* A message of one of the last MaxHistory reaches every socket of its group
\* (or is refused for want of room), whether the socket joined before it,
\* after it or while it was sent: the history is written before the sockets
\* are looked at and the groups are set before the history is read
\* (broadcast_message, deliver_historical_messages).
UeventsHeard ==
    \A s \in LiveSockets :
      (\A t \in UeThread : ~Busy(t, s)) =>
        \A i \in DOMAIN ueSent :
          (/\ i > Len(ueSent) - MaxHistory
           /\ ueSent[i].groups \cap nlSock[s].groups # {}
           /\ \A t \in UeThread : ueCall[t].at \in {"collect", "send"} => ueCall[t].m.id # i)
            => i \in heard[s]
=============================================================================
