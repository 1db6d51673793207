----------------------------- MODULE UnixSocket -----------------------------
(***************************************************************************)
(* AF_UNIX sockets (net/unix.rs) under the socket system calls: creation,  *)
(* bind, listen, connect, accept, send, receive, shutdown, close, and the  *)
(* blocking of all of them through file_blocking_syscall.                  *)
(*                                                                         *)
(* A receive queue is a sequence of items: for a stream the bytes, of      *)
(* which one that begins a chunk with ancillary data carries the length of *)
(* that chunk; for the other kinds the packets.  The number of an item is  *)
(* that of its last byte among all that were queued.  A socket refers to   *)
(* others by weak references: a reference to a socket that is gone is      *)
(* Dead, which the code tells from None.  What a call does under the locks *)
(* it takes is one step; between a call that would block and its sleep     *)
(* anything may happen.                                                    *)
(***************************************************************************)
EXTENDS Naturals, Sequences, FiniteSets, SequencesExt

CONSTANTS
    Socket, SockThread, Address,
    Buffer,     \* UNIX_BUFFER_SIZE
    BufferSizes,\* the values SO_RCVBUF may be given
    Backlogs,   \* the backlog limits listen() may be given
    SockBudget, \* the kind of the sockets, and bounds on the calls that create sockets,
                \* the items sent and the shutdowns and resizings
    NoSocket, Dead

ASSUME SockBudgetAssumption ==
    SockBudget \subseteq [kind : {"stream", "seqpacket", "dgram"}, opens : Nat, items : Nat, shuts : Nat]
ASSUME SockSizeAssumption == Buffer \in Nat /\ BufferSizes \subseteq Nat /\ Backlogs \subseteq Nat
ASSUME SockNoneAssumption ==
    {NoSocket, Dead} \cap (Socket \cup Address) = {} /\ NoSocket # Dead /\ "none" \notin Address

VARIABLES
    sock,      \* UnixSocketState of each socket
    bound,     \* BOUND_SOCKETS
    sockNodes, \* addresses for which the file system holds a socket node
    sockCall,  \* what each thread is doing
    budget,    \* what is left of the bounds
    sent,      \* bytes ever queued on each socket
    tuned,     \* what was done that poll does not take into account: <<s, "limit">> when
               \* the buffer or backlog limit of s was changed, <<s, "connect">> when s
               \* is connected and waits to be connected again
    spliced    \* a receive has joined bytes across a chunk with ancillary data

unixVars == <<sock, bound, sockNodes, sockCall, budget, sent, tuned, spliced>>

ShutHow == {"rd", "wr", "both"}
Fresh == [life |-> "free", owner |-> FALSE, addr |-> NoSocket, peer |-> NoSocket,
          pending |-> NoSocket, established |-> FALSE, listening |-> FALSE, limit |-> 0,
          backlog |-> <<>>, connects |-> {}, queue |-> <<>>, size |-> 0, rcvbuf |-> Buffer,
          shutRd |-> FALSE, shutWr |-> FALSE]
Call(op, s, len, anc, flag) == [pc |-> "try", op |-> op, s |-> s, len |-> len, anc |-> anc, flag |-> flag]
Idle == [Call("recv", NoSocket, 0, FALSE, "none") EXCEPT !.pc = "user"]

UnixInit ==
    /\ sock = [s \in Socket |-> Fresh]
    /\ bound = [a \in Address |-> NoSocket]
    /\ sockNodes = {}
    /\ sockCall = [t \in SockThread |-> Idle]
    /\ budget \in SockBudget
    /\ sent = [s \in Socket |-> 0]
    /\ tuned = {}
    /\ spliced = FALSE

sockKind == budget.kind
Stream == sockKind = "stream"
ConnectionOriented == sockKind \in {"stream", "seqpacket"}
Upgrades(weak) == weak \in Socket
PeerOf(s) == sock[s].peer
InCall(s) == \E t \in SockThread : sockCall[t].pc # "user" /\ sockCall[t].s = s
Free == {s \in Socket : sock[s].life = "free"}
\* Socket objects are interchangeable: which free one is taken does not matter.
NextFree == CHOOSE s \in Free : TRUE
UserOf(s) == sock[s].life = "open"

-----------------------------------------------------------------------------
(* WaitQueue: N is a set of <<socket, event>>; "HUP" reaches every waiter. *)

OpEvent(op) == IF op \in {"recv", "accept"} THEN "READ" ELSE "WRITE"
Hears(c, N) == <<c.s, OpEvent(c.op)>> \in N \/ <<c.s, "HUP">> \in N
Notify(calls, N) ==
    [t \in SockThread |-> IF calls[t].pc = "asleep" /\ Hears(calls[t], N)
                          THEN [calls[t] EXCEPT !.pc = "try"] ELSE calls[t]]
Returns(t, N) == sockCall' = Notify([sockCall EXCEPT ![t] = Idle], N)
\* EAGAIN: a blocking call goes to wait_file, one that may not block returns
WouldBlockIn(t, c) ==
    \/ sockCall' = [sockCall EXCEPT ![t] = [c EXCEPT !.pc = "again"]]
    \/ sockCall' = [sockCall EXCEPT ![t] = Idle]

\* Thread t makes the call c, or makes it again after its sleep.
Calling(t, c) ==
    \/ sockCall[t].pc = "user" /\ UserOf(c.s)
    \/ sockCall[t].pc = "try" /\ sockCall[t] = c

-----------------------------------------------------------------------------
(* Creation and names *)

\* UnixSocket::shared, create_socket
SocketCreate(s) ==
    /\ Free # {} /\ s = NextFree /\ budget.opens > 0
    /\ sock' = [sock EXCEPT ![s].life = "open"]
    /\ budget' = [budget EXCEPT !.opens = @ - 1]
    /\ UNCHANGED <<bound, sockNodes, sockCall, sent, tuned, spliced>>

\* UnixSocket::pair, create_socket_pair
SocketPair(s, r) ==
    /\ Cardinality(Free) > 1 /\ s = NextFree /\ budget.opens > 0
    /\ r = CHOOSE x \in Free \ {s} : TRUE
    /\ sock' = [x \in Socket |->
                   IF x = s THEN [Fresh EXCEPT !.life = "open", !.peer = r, !.established = TRUE]
                   ELSE IF x = r THEN [Fresh EXCEPT !.life = "open", !.peer = s, !.established = TRUE]
                   ELSE sock[x]]
    /\ budget' = [budget EXCEPT !.opens = @ - 1]
    /\ UNCHANGED <<bound, sockNodes, sockCall, sent, tuned, spliced>>

\* UnixSocket::bind fails: bound already, or the address belongs to a live socket
BindRefused(s, a) == sock[s].addr # NoSocket \/ (Upgrades(bound[a]) /\ bound[a] # s)

\* bind: the node is made first (EEXIST if it is there), and removed again when
\* the socket cannot be bound
Bind(s, a) ==
    /\ UserOf(s) /\ a \notin sockNodes
    /\ IF BindRefused(s, a)
       THEN UNCHANGED <<sock, bound, sockNodes>>
       ELSE /\ sock' = [sock EXCEPT ![s].addr = a, ![s].owner = TRUE]
            /\ bound' = [bound EXCEPT ![a] = s]
            /\ sockNodes' = sockNodes \cup {a}
    /\ UNCHANGED <<sockCall, budget, sent, tuned, spliced>>

\* unlink removes the node; the table of bound sockets is left alone
UnlinkNode(a) ==
    /\ a \in sockNodes
    /\ sockNodes' = sockNodes \ {a}
    /\ UNCHANGED <<sock, bound, sockCall, budget, sent, tuned, spliced>>

\* resolve_socket_address_target, lookup_target
Resolves(a) == a \in sockNodes /\ Upgrades(bound[a])

\* listen notifies waiters of the listener, not the connects pending on it.
\* (No program makes a connected socket listen: left out.)
Listen(s, limit) ==
    /\ UserOf(s) /\ ConnectionOriented /\ ~sock[s].established
    /\ sock' = [sock EXCEPT ![s].listening = TRUE, ![s].limit = limit]
    /\ tuned' = IF sock[s].listening THEN tuned \cup {<<s, "limit">>} ELSE tuned
    /\ sockCall' = Notify(sockCall, {<<s, "WRITE">>})
    /\ UNCHANGED <<bound, sockNodes, budget, sent, spliced>>

\* setsockopt(SO_RCVBUF): nobody is notified
SetRcvBuf(s, n) ==
    /\ UserOf(s) /\ sock[s].rcvbuf # n /\ budget.shuts > 0
    /\ budget' = [budget EXCEPT !.shuts = @ - 1]
    /\ sock' = [sock EXCEPT ![s].rcvbuf = n]
    /\ tuned' = tuned \cup {<<s, "limit">>}
    /\ UNCHANGED <<bound, sockNodes, sockCall, sent, spliced>>

-----------------------------------------------------------------------------
(* Readiness *)

PeerShutWr(s) == IF Upgrades(PeerOf(s)) THEN sock[PeerOf(s)].shutWr ELSE sock[s].established
HasSpace(p) == sock[p].size < sock[p].rcvbuf

\* read_ready_snapshot
ReadReady(s) ==
    IF sock[s].listening THEN sock[s].backlog # <<>>
    ELSE \/ Stream /\ sock[s].shutRd
         \/ sock[s].queue # <<>>
         \/ sock[s].established /\ PeerShutWr(s)

\* write_ready_snapshot
WriteReady(s) ==
    LET l == sock[s].pending
        p == PeerOf(s)
    IN
    /\ ~sock[s].shutWr
    /\ IF sock[s].listening THEN Len(sock[s].backlog) < sock[s].limit
       ELSE IF sockKind = "dgram" /\ p = NoSocket THEN TRUE
       ELSE IF Upgrades(l)
       THEN ~sock[l].listening \/ (sock[l].limit # 0 /\ Len(sock[l].backlog) < sock[l].limit)
       ELSE IF Upgrades(p) THEN ~sock[p].shutRd /\ HasSpace(p)
       ELSE sockKind = "dgram"

\* poll with the event asked for and those always reported
PollReady(s, event) ==
    LET p == PeerOf(s) IN
    \/ event = "READ" /\ ReadReady(s)
    \/ /\ event = "WRITE" /\ WriteReady(s)
       /\ \/ sockKind = "dgram" /\ p = NoSocket
          \/ Upgrades(sock[s].pending)
          \/ Upgrades(p) /\ ~sock[p].shutRd /\ HasSpace(p)
    \/ /\ ~sock[s].listening
       /\ IF Stream THEN PeerShutWr(s) ELSE sock[s].shutRd

-----------------------------------------------------------------------------
(* Calls that may block *)

Self(t) == sockCall[t].s
KeepQueues == UNCHANGED <<bound, sockNodes, sent, spliced>>

\* clear_pending_connect of s
Cleared(sk, s) ==
    [x \in Socket |-> IF x = s THEN [sk[x] EXCEPT !.pending = NoSocket]
                      ELSE IF x = sk[s].pending THEN [sk[x] EXCEPT !.connects = @ \ {s}]
                      ELSE sk[x]]

BacklogFull(l) == sock[l].limit = 0 \/ Len(sock[l].backlog) >= sock[l].limit

\* connect_socket: client c, listener l and the socket v the listener will accept
Established(sk, c, l, v) ==
    [sk EXCEPT ![v] = [Fresh EXCEPT !.life = "backlog", !.addr = sk[l].addr,
                                    !.rcvbuf = sk[l].rcvbuf, !.established = TRUE, !.peer = c],
               ![c].peer = v, ![c].established = TRUE, ![l].backlog = Append(@, v)]

\* connect_socket, connection oriented.  A listening socket that connects is
\* left out: at its own address it takes its own lock twice and spins for ever.
TryConnect(t, call) ==
    LET c == call.s
        a == call.flag
        l == bound[a]
        cleared == Cleared(sock, c)
    IN
    /\ Calling(t, call) /\ ConnectionOriented /\ ~sock[c].listening
    /\ UNCHANGED budget
    /\ IF ~Resolves(a)
       THEN Returns(t, {}) /\ UNCHANGED sock
       ELSE IF ~sock[l].listening
       THEN sock' = cleared /\ Returns(t, {})
       ELSE IF BacklogFull(l)
       THEN /\ sock' = [cleared EXCEPT ![c].pending = l, ![l].connects = @ \cup {c}]
            /\ WouldBlockIn(t, call)
       ELSE IF Upgrades(PeerOf(c))
       THEN sock' = cleared /\ Returns(t, {})
       ELSE /\ Free # {}
            /\ sock' = Established(cleared, c, l, NextFree)
            /\ Returns(t, {<<l, "READ">>, <<c, "WRITE">>})
    /\ tuned' = IF sock[c].established /\ Upgrades(sock'[c].pending) THEN tuned \cup {<<c, "connect">>} ELSE tuned
    /\ KeepQueues

\* connect_socket of a datagram socket points one way only
TryConnectDgram(t, call) ==
    LET c == call.s
        a == call.flag
    IN
    /\ Calling(t, call) /\ sockKind = "dgram"
    /\ UNCHANGED <<budget, tuned>>
    /\ IF ~Resolves(a)
       THEN Returns(t, {}) /\ UNCHANGED sock
       ELSE /\ sock' = [sock EXCEPT ![c].peer = bound[a], ![c].pending = NoSocket,
                                    ![c].established = TRUE]
            /\ Returns(t, {<<c, "WRITE">>})
    /\ KeepQueues

\* notify_pending_connects: room in the backlog wakes every pending connect
AcceptHeard(l) == {<<c, "WRITE">> : c \in sock[l].connects} \cup {<<l, "WRITE">>}

TryAccept(t, call) ==
    LET l == call.s IN
    /\ Calling(t, call)
    /\ UNCHANGED <<budget, tuned>>
    /\ IF ~sock[l].listening
       THEN Returns(t, {}) /\ UNCHANGED sock
       ELSE IF sock[l].backlog = <<>>
       THEN WouldBlockIn(t, call) /\ UNCHANGED sock
       ELSE /\ sock' = [sock EXCEPT ![l].backlog = Tail(@), ![Head(sock[l].backlog)].life = "open"]
            /\ Returns(t, AcceptHeard(l))
    /\ KeepQueues

Lowest(m, n) == IF m < n THEN m ELSE n

\* enqueue_stream: as much as fits, numbered; the ancillary data with its first byte
StreamItems(p, count, anc) ==
    [i \in 1..count |-> [no |-> sent[p] + i, anc |-> IF anc /\ i = 1 THEN count ELSE 0, len |-> 1]]
\* enqueue_packet_from: all or nothing
PacketItem(p, len, anc) == <<[no |-> sent[p] + len, anc |-> IF anc THEN 1 ELSE 0, len |-> len]>>
Space(p) == IF sock[p].rcvbuf > sock[p].size THEN sock[p].rcvbuf - sock[p].size ELSE 0

\* A datagram may name its destination; any other goes to the peer.
Target(call) ==
    IF call.flag \notin Address THEN PeerOf(call.s)
    ELSE IF Resolves(call.flag) THEN bound[call.flag] ELSE NoSocket

\* send_to_socket, send_msg_to_socket.  The sender's own shut_wr is not looked at.
TrySend(t, call) ==
    LET p == Target(call)
        len == call.len
        count == IF Stream THEN Lowest(Space(p), len) ELSE len
        items == IF Stream THEN StreamItems(p, count, call.anc)
                 ELSE PacketItem(p, len, call.anc)
    IN
    /\ Calling(t, call)
    /\ UNCHANGED <<bound, sockNodes, tuned, spliced>>
    /\ IF ~Upgrades(p) \/ sock[p].shutRd
       THEN Returns(t, {}) /\ UNCHANGED <<sock, sent, budget>>
       ELSE IF (Stream /\ Space(p) = 0) \/ (~Stream /\ sock[p].size + len > sock[p].rcvbuf)
       THEN WouldBlockIn(t, call) /\ UNCHANGED <<sock, sent, budget>>
       ELSE /\ Len(items) <= budget.items
            /\ sock' = [sock EXCEPT ![p].queue = @ \o items, ![p].size = @ + count]
            /\ budget' = [budget EXCEPT !.items = @ - Len(items)]
            /\ sent' = [sent EXCEPT ![p] = @ + count]
            /\ Returns(t, {<<p, "READ">>})

\* recv_stream joins bytes up to the next chunk with ancillary data, and reads
\* a chunk that still has its own alone.
Joined(q) ==
    IF q[1].anc > 0 THEN q[1].anc
    ELSE LET marks == {i \in 2..Len(q) : q[i].anc > 0}
         IN IF marks = {} THEN Len(q) ELSE (CHOOSE m \in marks : \A i \in marks : m <= i) - 1

\* Mutant of SpaceHeard: the writer is told only once the queue is empty.
SpaceHeardEmpty(s) == IF sock[s].size = 1 THEN {<<PeerOf(s), "WRITE">>} ELSE {}
\* the writer is told when the queue was full
SpaceHeard(s) == IF sock[s].size = sock[s].rcvbuf THEN {<<PeerOf(s), "WRITE">>} ELSE {}

\* MSG_PEEK: what a receive would return, and nothing else changes
Peek(s, len) ==
    LET q == sock[s].queue IN
    /\ UserOf(s) /\ q # <<>> /\ Stream
    /\ spliced' = (spliced \/ \E i \in 2..Lowest(len, Joined(q)) : q[i].anc > 0)
    /\ UNCHANGED <<sock, bound, sockNodes, sockCall, budget, sent, tuned>>

\* recv_stream, recv_packet
TryRecv(t, call) ==
    LET s == call.s
        q == sock[s].queue
        n == IF Stream THEN Lowest(call.len, Joined(q)) ELSE 1
        taken == IF Stream THEN n ELSE q[1].len
    IN
    /\ Calling(t, call)
    /\ UNCHANGED <<bound, sockNodes, budget, sent, tuned>>
    /\ IF sock[s].shutRd
       THEN Returns(t, {}) /\ UNCHANGED <<sock, spliced>>
       ELSE IF q = <<>>
       THEN /\ IF ConnectionOriented /\ (~sock[s].established \/ PeerShutWr(s))
               THEN Returns(t, {}) ELSE WouldBlockIn(t, call)
            /\ UNCHANGED <<sock, spliced>>
       ELSE /\ spliced' = (spliced \/ \E i \in 2..n : q[i].anc > 0)
            /\ sock' = [sock EXCEPT ![s].queue = SubSeq(q, n + 1, Len(q)), ![s].size = @ - taken]
            /\ Returns(t, SpaceHeard(s))

\* wait_file: registered, polled once more, asleep
Sleep(t) ==
    /\ sockCall[t].pc = "again"
    /\ sockCall' = [sockCall EXCEPT ![t].pc =
                       IF PollReady(Self(t), OpEvent(sockCall[t].op)) THEN "try" ELSE "asleep"]
    /\ UNCHANGED <<sock, bound, sockNodes, budget, sent, tuned, spliced>>

\* The group of the thread exits: the call ends.
Interrupted(t) ==
    /\ sockCall[t].pc = "asleep"
    /\ sockCall' = [sockCall EXCEPT ![t] = Idle]
    /\ UNCHANGED <<sock, bound, sockNodes, budget, sent, tuned, spliced>>

-----------------------------------------------------------------------------
(* The end of a connection *)

Everyone == {"READ", "WRITE", "HUP"}

Shutdown(s, how) ==
    LET p == PeerOf(s) IN
    /\ UserOf(s) /\ (sock[s].established \/ Upgrades(p)) /\ budget.shuts > 0
    /\ budget' = [budget EXCEPT !.shuts = @ - 1]
    /\ sock' = [sock EXCEPT ![s].shutRd = @ \/ how # "wr", ![s].shutWr = @ \/ how # "rd"]
    /\ sockCall' = Notify(sockCall, {s, p} \X Everyone)
    /\ UNCHANGED <<bound, sockNodes, sent, tuned, spliced>>

\* Mutant of Unbinds: whoever has the address gives it up.
UnbindsInherited(D) == {a \in Address : \E s \in D : sock[s].addr = a}
\* Drop: the address is given up by the socket the table holds for it
Unbinds(D) == {a \in Address : \E s \in D : sock[s].addr = a /\ bound[a] = s}

DropHeard(D) ==
    ({sock[s].peer : s \in D} \X Everyone) \cup ((UNION {sock[s].connects : s \in D}) \X {"WRITE", "HUP"})

\* The last descriptor is closed and no call holds the file: Drop, of the
\* socket and of those in its backlog.  A peer that points back forgets it.
Close(s) ==
    LET D == {s} \cup ToSet(sock[s].backlog)
        weak(x, w) == IF w \notin D THEN w
                      ELSE IF sock[w].peer = x THEN NoSocket ELSE Dead
        dead(w) == IF w \in D THEN Dead ELSE w
    IN
    /\ UserOf(s) /\ ~InCall(s)
    /\ sock' = [x \in Socket |->
                  IF x \in D THEN Fresh
                  ELSE [sock[x] EXCEPT !.peer = weak(x, @), !.pending = dead(@),
                                       !.connects = @ \ D]]
    /\ bound' = [a \in Address |-> IF a \in Unbinds(D) THEN NoSocket ELSE dead(bound[a])]
    /\ sockCall' = Notify(sockCall, DropHeard(D))
    /\ sent' = [x \in Socket |-> IF x \in D THEN 0 ELSE sent[x]]
    /\ tuned' = tuned \ (D \X {"limit", "connect"})
    /\ UNCHANGED <<sockNodes, budget, spliced>>

-----------------------------------------------------------------------------
\* The system calls on a socket that may block
ConnectCalls(s) == {Call("connect", s, 0, FALSE, a) : a \in Address}
AcceptCall(s) == Call("accept", s, 0, FALSE, "none")
\* A datagram may name where it goes; only sendmsg carries ancillary data.
Destinations == {"none"} \cup (IF sockKind = "dgram" THEN Address ELSE {})
SendtoCalls(s) == {Call("send", s, len, FALSE, to) : len \in 1..Buffer, to \in Destinations}
SendmsgCalls(s) == {Call("send", s, len, TRUE, to) : len \in 1..Buffer, to \in Destinations}
RecvCalls(s) == {Call("recv", s, len, FALSE, "none") : len \in 1..Buffer}

\* The sockets a thread may call on: any it has open, or the one of its call
CalledOn(t) == CASE sockCall[t].pc = "user" -> {s \in Socket : UserOf(s)}
                 [] sockCall[t].pc = "try" -> {sockCall[t].s}
                 [] OTHER -> {}
UnixNext ==
    \/ \E s \in Socket :
          \/ SocketCreate(s) \/ Close(s) \/ (\E len \in 1..Buffer : Peek(s, len))
          \/ \E r \in Socket : SocketPair(s, r)
          \/ \E a \in Address : Bind(s, a)
          \/ \E limit \in Backlogs : Listen(s, limit)
          \/ \E n \in BufferSizes : SetRcvBuf(s, n)
          \/ \E how \in ShutHow : Shutdown(s, how)
    \/ \E a \in Address : UnlinkNode(a)
    \/ \E t \in SockThread :
          \/ \E s \in CalledOn(t) :
                \/ \E call \in ConnectCalls(s) : TryConnect(t, call) \/ TryConnectDgram(t, call)
                \/ TryAccept(t, AcceptCall(s))
                \/ \E call \in SendtoCalls(s) \cup SendmsgCalls(s) : TrySend(t, call)
                \/ \E call \in RecvCalls(s) : TryRecv(t, call)
          \/ Sleep(t) \/ Interrupted(t)

-----------------------------------------------------------------------------
(* Properties *)

SockRecord(s) ==
    /\ sock[s].life \in {"free", "open", "backlog"}
    /\ sock[s].peer \in Socket \cup {NoSocket, Dead}
    /\ sock[s].pending \in Socket \cup {NoSocket, Dead}
    /\ sock[s].addr \in Address \cup {NoSocket}
    /\ sock[s].connects \subseteq Socket
    /\ sock[s].size \in Nat

\* Typing, and what Close relies on: a free socket is as new, and nothing but a
\* listener's backlog holds a socket that has no descriptor.
UnixTypeOK ==
    /\ \A s \in Socket : SockRecord(s)
    /\ \A s \in Free : sock[s] = Fresh
    /\ \A s \in Socket : sock[s].life = "backlog" <=> \E l \in Socket : s \in ToSet(sock[l].backlog)

\* connect waits on exactly the listener that will wake it.
PendingIndexed ==
    \A s \in Socket : Upgrades(sock[s].pending) <=> \E l \in Socket : s \in sock[l].connects

\* The two ends of a connection know each other, from connect on and before
\* the listener has accepted; a socket that is gone is nobody's peer; and a
\* connect that waits for room is known to the listener it waits for
\* (connect_socket, pair, clear_pending_connect, Drop).
SocketsLinked ==
    /\ UnixTypeOK /\ PendingIndexed
    /\ ConnectionOriented =>
        \A s \in Socket : Upgrades(PeerOf(s)) =>
            /\ sock[PeerOf(s)].life # "free"
            /\ PeerOf(PeerOf(s)) = s /\ sock[s].established

\* Nothing is lost, doubled or reordered on its way through a receive queue:
\* its items follow each other up to the last byte sent, the first one follows
\* what was received, and recv_size is what is left between the two
\* (enqueue_stream, enqueue_packet_from, recv_stream, recv_packet); no receive
\* joins bytes across ancillary data, which would hand the descriptors of one
\* message out with the bytes of another.
Consumed(s) == sent[s] - sock[s].size
QueueExact ==
    /\ ~spliced
    /\ \A s \in Socket :
          LET q == sock[s].queue IN
          /\ \A i \in 1..Len(q) : q[i].no = (IF i = 1 THEN Consumed(s) ELSE q[i - 1].no) + q[i].len
          /\ sent[s] = IF q = <<>> THEN Consumed(s) ELSE q[Len(q)].no

\* The address a live socket was bound to leads to that socket: closing a
\* connection that inherited the listener's address does not take it away
\* (inherit_listener_state, Drop).
BoundReachable ==
    \A s \in Socket : UserOf(s) /\ sock[s].owner => bound[sock[s].addr] = s

\* Would the call of t block again?
BlocksAgain(t) ==
    LET s == Self(t)
        p == Target(sockCall[t])
        l == sock[s].pending
    IN CASE sockCall[t].op = "accept" -> sock[s].listening /\ sock[s].backlog = <<>>
         [] sockCall[t].op = "connect" -> Upgrades(l) /\ sock[l].listening /\ BacklogFull(l)
         [] sockCall[t].op = "send" -> /\ Upgrades(p) /\ ~sock[p].shutRd
                                       /\ Space(p) < (IF Stream THEN 1 ELSE sockCall[t].len)
         [] sockCall[t].op = "recv" -> /\ ~sock[s].shutRd /\ sock[s].queue = <<>>
                                       /\ ~(ConnectionOriented /\ PeerShutWr(s))

Resized(s) == <<s, "limit">> \in tuned

\* What poll and the wait queue do not tell the call of t that waits to write.
\* A datagram socket need not be known to the one it sends to.  A send: the
\* socket has shut its sending side, the peer is gone (packets) or reads no more
\* or has been resized, or the socket is connected and waits to be connected
\* again, which poll looks at instead.  A connect: the socket is connected or
\* listens, the listener is gone or has been resized, or the connect of another
\* thread has cleared this one.
Overlooked(t) ==
    LET s == Self(t)
        p == PeerOf(s)
        l == sock[s].pending
    IN \/ sockKind = "dgram" \/ sock[s].shutWr
       \/ /\ sockCall[t].op = "send"
          /\ \/ ~Stream /\ ~Upgrades(p)
             \/ Upgrades(p) /\ (sock[p].shutRd \/ Resized(p))
             \/ <<s, "connect">> \in tuned
       \/ /\ sockCall[t].op = "connect"
          /\ sock[s].established \/ sock[s].listening \/ ~Upgrades(l) \/ Resized(l)

\* No thread sleeps in a call that would return: every change that lets one go
\* on reaches it, before it sleeps through poll, or after through the wait queue
\* of its own socket.  Nothing is excepted of who reads or accepts; what the code
\* does not handle of who writes or connects is Overlooked (unix.rs, poll,
\* setsockopt, listen, connect_socket).
NoStrandedSleeper ==
    \A t \in SockThread :
        sockCall[t].pc = "asleep" =>
            BlocksAgain(t) \/ (OpEvent(sockCall[t].op) = "WRITE" /\ Overlooked(t))

\* Connections are exact: both ends agree, what is queued is what was sent, and
\* a bound address leads to its socket (unix.rs).
ConnectionsExact == SocketsLinked /\ QueueExact /\ BoundReachable
=============================================================================
