-------------------------------- MODULE Pty --------------------------------
(***************************************************************************)
(* A pseudo terminal (fs/pty.rs) and its line discipline (aether-terminal  *)
(* TtyEndpoint): the master writes what the line discipline collects into  *)
(* lines for the slave to read; what the slave writes, and the echo, wait  *)
(* for the master.  A call changes its queue under a lock and tells the    *)
(* waiters afterwards; the flags and the count of open slaves are atomics. *)
(*                                                                         *)
(* A byte is its kind; those that stay in a queue are numbered, and an end *)
(* of line is marked.                                                      *)
(***************************************************************************)
EXTENDS Integers, Sequences, SequencesExt

CONSTANTS
    PtyThread,
    InputSize,     \* TTY_INPUT_BUF_SIZE
    Typed,         \* what the master may write: sequences of kinds of bytes
    MaxOutput,     \* bound: bytes on their way to the master
    MaxPtyCalls    \* bound

ByteKind == {"char", "newline", "erase", "kill", "eof", "signal"}
ASSUME PtyAssumption ==
    /\ InputSize \in Nat \ {0}
    /\ Typed \subseteq Seq(ByteKind)

VARIABLES
    pty,        \* PtyShared: master alive, slaves open, locked, output stopped;
                \* and whether the manager lists the pair
    line,       \* ConsoleTtyState: canonical mode, input_buf, canon_buf
    output,     \* master_buffer: its length
    ptyCall, ptyCalls,
    typedNo,    \* history: number of the last byte that was queued
    gone,       \* history: how many of them were read, erased or flushed
    mixed,      \* history: raw mode was set with a line half typed
    unheard     \* history: threads asleep when erasing made room
ptyVars == <<pty, line, output, ptyCall, ptyCalls, typedNo, gone, mixed, unheard>>

PtyUser == [at |-> "user", tell |-> {}]
PtyInit ==
    /\ pty = [master |-> TRUE, slaves |-> 0, locked |-> TRUE, mStop |-> FALSE, sStop |-> FALSE,
              listed |-> TRUE]
    /\ line = [canon |-> TRUE, input |-> <<>>, half |-> <<>>]
    /\ output = 0
    /\ ptyCall = [t \in PtyThread |-> PtyUser] /\ ptyCalls = 0
    /\ typedNo = 0 /\ gone = 0 /\ mixed = FALSE /\ unheard = {}

Waiting == Len(line.input) + Len(line.half)    \* tty_pending_input_len
SideOf(op) == IF op \in {"mread", "mwrite"} THEN "master" ELSE "slave"
EventOf(op) == IF op \in {"mread", "sread"} THEN "READ" ELSE "WRITE"
History == <<typedNo, gone, mixed>>

---------------------------------------------------------------------------
(* Waiting                                                                 *)

\* poll: what wakes the call, hangups included
PtyReady(op) ==
    CASE op = "mread"  -> output > 0 \/ pty.slaves = 0
      [] op = "mwrite" -> pty.slaves = 0 \/ (~pty.mStop /\ Waiting < InputSize)
      [] op = "sread"  -> line.input # <<>> \/ ~pty.master
      [] op = "swrite" -> ~pty.sStop \/ ~pty.master

Reaches(tell, op) == <<SideOf(op), EventOf(op)>> \in tell \/ <<SideOf(op), "HUP">> \in tell
\* The thread is left with tell to be told to the waiters.
Telling(t, tell, then) ==
    ptyCall' = [ptyCall EXCEPT ![t] = IF tell = {} THEN [at |-> then, tell |-> {}]
                                      ELSE [at |-> "notify", tell |-> tell, then |-> then]]
Returning(t, tell) == Telling(t, tell, "user")
PtyNotify(t) ==
    /\ ptyCall[t].at = "notify"
    /\ LET told == {s \in PtyThread : ptyCall[s].at = "asleep" /\ Reaches(ptyCall[t].tell, ptyCall[s].op)}
       IN  /\ ptyCall' = [s \in PtyThread |->
                            IF s = t THEN [at |-> ptyCall[t].then, tell |-> {}]
                            ELSE IF s \in told THEN [ptyCall[s] EXCEPT !.at = "try"] ELSE ptyCall[s]]
           /\ unheard' = unheard \ told
    /\ UNCHANGED <<pty, line, output, ptyCalls, History>>

\* A call begins, or is made again after its sleep.
Begins(t, op, bytes) ==
    \/ /\ ptyCall[t].at = "user" /\ ptyCalls < MaxPtyCalls /\ ptyCalls' = ptyCalls + 1
       /\ IF SideOf(op) = "master" THEN pty.master ELSE pty.slaves > 0
    \/ /\ ptyCall[t].at = "try" /\ ptyCall[t].op = op /\ ptyCall[t].bytes = bytes /\ UNCHANGED ptyCalls
\* EAGAIN: the call waits, or returns it
Blocks(t, op, bytes) ==
    ptyCall' \in {[ptyCall EXCEPT ![t] = [at |-> "again", op |-> op, bytes |-> bytes]],
                  [ptyCall EXCEPT ![t] = PtyUser]}
PtySleep(t) ==
    /\ ptyCall[t].at = "again"
    /\ ptyCall' = [ptyCall EXCEPT ![t].at = IF PtyReady(ptyCall[t].op) THEN "try" ELSE "asleep"]
    /\ UNCHANGED <<pty, line, output, ptyCalls, unheard, History>>

---------------------------------------------------------------------------
(* The line discipline                                                     *)

\* tty_input_commit_canon: what does not fit is dropped.
Committed(l) ==
    LET room == InputSize - Len(l.input)
        fits == SubSeq(l.half, 1, IF Len(l.half) < room THEN Len(l.half) ELSE room)
    IN  [l EXCEPT !.input = @ \o fits, !.half = <<>>]

Full(l) == Len(l.input) + Len(l.half) >= InputSize

\* One byte of tty_receive_bytes.  s: the line, the number of bytes taken, the
\* last number, what was erased, whether to wake the reader, the echo.
Receive(s, byte) ==
    LET item == [no |-> s.no + 1, eol |-> byte = "newline"]
        taken == [s EXCEPT !.taken = @ + 1]
        queued == [taken EXCEPT !.no = item.no, !.echo = @ + 1]
        stuck == [s EXCEPT !.stuck = TRUE]
        raw == IF Len(s.line.input) >= InputSize THEN stuck
               ELSE [queued EXCEPT !.line.input = Append(@, item), !.wake = TRUE]
        kept == IF byte = "kill" \/ s.line.half = <<>> THEN <<>> ELSE Front(s.line.half)
        ended == [s.line EXCEPT !.half = Append(@, item)]
        cooked ==
          CASE byte \in {"erase", "kill"} ->
                 [taken EXCEPT !.line.half = kept, !.gone = @ + Len(s.line.half) - Len(kept),
                               !.echo = IF s.line.half = <<>> THEN @ ELSE @ + 1]
            [] byte = "eof" -> [taken EXCEPT !.line = Committed(s.line), !.wake = @ \/ s.line.half # <<>>]
            [] byte \in {"char", "newline"} ->
                 IF Full(s.line) THEN stuck
                 ELSE IF byte = "char" THEN [queued EXCEPT !.line.half = Append(@, item)]
                 ELSE [queued EXCEPT !.line = Committed(ended), !.wake = TRUE]
    IN  IF s.stuck THEN s ELSE IF byte = "signal" THEN taken
        ELSE IF s.line.canon THEN cooked ELSE raw
Unreceived == [line |-> line, taken |-> 0, no |-> typedNo, gone |-> 0, wake |-> FALSE,
               echo |-> 0, stuck |-> FALSE]
Received(bytes) ==
    LET after[n \in 0..Len(bytes)] == IF n = 0 THEN Unreceived ELSE Receive(after[n - 1], bytes[n])
    IN  after[Len(bytes)]

\* PtmxMasterFile::write, try_receive_bytes: the echo goes to the master, the
\* reader is woken once a line is there
TakeTyped(t, s) ==
    /\ output + s.echo <= MaxOutput /\ output' = output + s.echo
    /\ line' = s.line /\ typedNo' = s.no /\ gone' = gone + s.gone
    /\ unheard' = IF s.gone = 0 THEN unheard
                  ELSE unheard \cup {u \in PtyThread : ptyCall[u].at = "asleep" /\ ptyCall[u].op = "mwrite"}
    /\ Returning(t, (IF s.echo > 0 THEN {<<"master", "READ">>} ELSE {})
                      \cup (IF s.wake THEN {<<"slave", "READ">>} ELSE {}))
MasterWrite(t, bytes) ==
    /\ Begins(t, "mwrite", bytes)
    /\ \/ /\ pty.mStop \/ (pty.slaves > 0 /\ Received(bytes).taken = 0)
          /\ Blocks(t, "mwrite", bytes) /\ UNCHANGED <<line, output, typedNo, gone, unheard>>
       \/ /\ ~pty.mStop /\ pty.slaves = 0
          /\ Returning(t, {}) /\ UNCHANGED <<line, output, typedNo, gone, unheard>>
       \/ /\ ~pty.mStop /\ pty.slaves > 0 /\ Received(bytes).taken > 0
          /\ TakeTyped(t, Received(bytes))
    /\ UNCHANGED <<pty, mixed>>

\* TtyFile::read: up to the end of a line, or VMIN bytes in raw mode (here 1);
\* the master may write again
\* Mutant of RoomTold: only when the buffer was full.
RoomToldFull(l) == IF Len(l.input) = InputSize THEN {<<"master", "WRITE">>} ELSE {}
RoomTold(l) == {<<"master", "WRITE">>}
ReadLen(room) ==
    LET last == {k \in DOMAIN line.input : line.input[k].eol \/ ~line.canon \/ k = Len(line.input) \/ k = room}
    IN  CHOOSE k \in last : \A j \in last : k <= j
SlaveRead(t, room) ==
    /\ Begins(t, "sread", <<>>)
    /\ IF line.input = <<>>
       THEN /\ IF pty.master THEN Blocks(t, "sread", <<>>) ELSE Returning(t, {})
            /\ UNCHANGED <<line, gone>>
       ELSE /\ line' = [line EXCEPT !.input = SubSeq(@, ReadLen(room) + 1, Len(@))]
            /\ gone' = gone + ReadLen(room) /\ Returning(t, RoomTold(line))
    /\ UNCHANGED <<pty, output, typedNo, mixed, unheard>>

---------------------------------------------------------------------------
(* The way back                                                            *)

\* dequeue_master_bytes: all there is, or as much as fits the buffer
Dequeued == output' \in {0, IF output > 1 THEN output - 1 ELSE 0}
MasterRead(t) ==
    /\ Begins(t, "mread", <<>>)
    /\ IF output = 0 /\ pty.slaves > 0 THEN Blocks(t, "mread", <<>>) /\ UNCHANGED output
       ELSE Returning(t, {}) /\ Dequeued
    /\ UNCHANGED <<pty, line, unheard, History>>

SlaveWrite(t) ==
    /\ Begins(t, "swrite", <<>>)
    /\ IF pty.master /\ pty.sStop THEN Blocks(t, "swrite", <<>>) /\ UNCHANGED output
       ELSE IF ~pty.master THEN Returning(t, {}) /\ UNCHANGED output
       ELSE /\ output < MaxOutput /\ output' = output + 1
            /\ Returning(t, {<<"master", "READ">>})
    /\ UNCHANGED <<pty, line, unheard, History>>

---------------------------------------------------------------------------
(* ioctl                                                                   *)

Asks(t, side) ==
    /\ ptyCall[t].at = "user" /\ ptyCalls < MaxPtyCalls /\ ptyCalls' = ptyCalls + 1
    /\ IF side = "master" THEN pty.master ELSE pty.slaves > 0

\* TCSETS: canonical or raw; what is half typed stays where it is
SetTermios(t, canon) ==
    /\ Asks(t, "slave") /\ line.canon # canon
    /\ line' = [line EXCEPT !.canon = canon]
    /\ mixed' = (mixed \/ line.half # <<>>)
    /\ UNCHANGED <<pty, output, ptyCall, typedNo, gone, unheard>>

\* TCFLSH, TCSETSF: flush_input and flush_readable
FlushInput(t) ==
    /\ Asks(t, "slave")
    /\ line' = [line EXCEPT !.input = <<>>, !.half = <<>>] /\ gone' = gone + Waiting
    /\ Returning(t, {<<"master", "WRITE">>, <<"slave", "READ">>})
    /\ UNCHANGED <<pty, output, typedNo, mixed, unheard>>
FlushReadable(t) ==
    /\ Asks(t, "master")
    /\ output' = 0 /\ Returning(t, IF output > 0 THEN {<<"master", "READ">>} ELSE {})
    /\ UNCHANGED <<pty, line, unheard, History>>

\* TCXONC: TCOOFF and TCOON, on either side
Stop(t, side, stop) ==
    /\ Asks(t, side)
    /\ pty' = IF side = "master" THEN [pty EXCEPT !.mStop = stop] ELSE [pty EXCEPT !.sStop = stop]
    /\ Returning(t, IF pty' = pty THEN {} ELSE {<<side, "WRITE">>})
    /\ UNCHANGED <<line, output, unheard, History>>

\* TCIOFF and TCION, with IXON: a stop or start character for the other side
SendFlow(t, side) ==
    /\ Asks(t, side)
    /\ \/ /\ side = "master" /\ pty.slaves > 0 /\ Received(<<"char">>).taken > 0
          /\ TakeTyped(t, Received(<<"char">>))
       \/ /\ side = "slave" /\ pty.master
          /\ output < MaxOutput /\ output' = output + 1 /\ Returning(t, {<<"master", "READ">>})
          /\ UNCHANGED <<line, unheard, typedNo, gone>>
    /\ UNCHANGED <<pty, mixed>>

\* TIOCSPTLCK
SetLocked(t, locked) ==
    /\ Asks(t, "master")
    /\ pty' = [pty EXCEPT !.locked = locked]
    /\ UNCHANGED <<line, output, ptyCall, unheard, History>>

---------------------------------------------------------------------------
(* Opening and closing                                                     *)

Using(side) == \E t \in PtyThread : ptyCall[t].at \in {"again", "asleep", "try"}
                                      /\ SideOf(ptyCall[t].op) = side
\* DevPtsRootNode::lookup or TIOCGPTPEER, then open_file and open
LookupSlave(t) ==
    /\ ptyCall[t].at = "user" /\ ptyCalls < MaxPtyCalls /\ ptyCalls' = ptyCalls + 1
    /\ pty.listed
    /\ ptyCall' = [ptyCall EXCEPT ![t] = [at |-> "open", tell |-> {}]]
    /\ UNCHANGED <<pty, line, output, unheard, History>>
OpenSlave(t) ==
    /\ ptyCall[t].at = "open"
    /\ IF pty.locked THEN Returning(t, {}) /\ UNCHANGED pty
       ELSE /\ pty' = [pty EXCEPT !.slaves = @ + 1]
            /\ Returning(t, IF pty.slaves = 0 THEN {<<"master", "WRITE">>, <<"master", "HUP">>} ELSE {})
    /\ UNCHANGED <<line, output, ptyCalls, unheard, History>>

CloseSlave(t) ==
    /\ ptyCall[t].at = "user" /\ pty.slaves > 0 /\ (Using("slave") => pty.slaves > 1)
    /\ pty' = [pty EXCEPT !.slaves = @ - 1]
    /\ IF pty.slaves = 1 THEN Telling(t, {<<"master", "HUP">>}, "cleanup") ELSE UNCHANGED ptyCall
    /\ UNCHANGED <<line, output, ptyCalls, unheard, History>>
CloseMaster(t) ==
    /\ ptyCall[t].at = "user" /\ pty.master /\ ~Using("master")
    /\ pty' = [pty EXCEPT !.master = FALSE]
    /\ ptyCall' = [ptyCall EXCEPT ![t] = [at |-> "cleanup", tell |-> {<<"slave", "HUP">>, <<"master", "HUP">>}]]
    /\ UNCHANGED <<line, output, ptyCalls, unheard, History>>

\* cleanup_if_unused, and the rest of PtmxMasterFile::release
PtyUnused == ~pty.master /\ pty.slaves = 0
Cleanup(t) ==
    /\ ptyCall[t].at = "cleanup"
    /\ IF PtyUnused THEN ptyCall' = [ptyCall EXCEPT ![t].at = "remove"]
       ELSE Returning(t, ptyCall[t].tell)
    /\ UNCHANGED <<pty, line, output, ptyCalls, unheard, History>>
RemovePty(t) ==
    /\ ptyCall[t].at = "remove"
    /\ pty' = [pty EXCEPT !.listed = FALSE]
    /\ Returning(t, ptyCall[t].tell)
    /\ UNCHANGED <<line, output, ptyCalls, unheard, History>>

PtyNext == \E t \in PtyThread :
    \/ PtyNotify(t) \/ PtySleep(t)
    \/ \E bytes \in Typed : MasterWrite(t, bytes)
    \/ \E room \in 1..InputSize : SlaveRead(t, room)
    \/ MasterRead(t) \/ SlaveWrite(t)
    \/ \E canon \in BOOLEAN : SetTermios(t, canon) \/ SetLocked(t, canon)
    \/ FlushInput(t) \/ FlushReadable(t)
    \/ \E side \in {"master", "slave"}, stop \in BOOLEAN : Stop(t, side, stop)
    \/ \E side \in {"master", "slave"} : SendFlow(t, side)
    \/ LookupSlave(t) \/ OpenSlave(t) \/ CloseSlave(t) \/ CloseMaster(t)
    \/ Cleanup(t) \/ RemovePty(t)
PtySpec == PtyInit /\ [][PtyNext]_ptyVars

---------------------------------------------------------------------------
(* Properties                                                              *)

(* Nobody sleeps at a pseudo terminal whose call could go on: room, data,  *)
(* restarted output or a hangup has been told to the sleeper, or a thread  *)
(* is about to tell it.  Left out are writers that slept while another     *)
(* writer's erase or kill made room, which tells nobody.                   *)
NoPtySleeper ==
    \A t \in PtyThread : ptyCall[t].at = "asleep" /\ PtyReady(ptyCall[t].op) =>
        \/ t \in unheard
        \/ \E s \in PtyThread : ptyCall[s].at \in {"notify", "cleanup", "remove"}
                                /\ Reaches(ptyCall[s].tell, ptyCall[t].op)

(* What was typed and not erased or flushed is read once and in order: the *)
(* bytes that wait are the last ones queued, none is missing between the   *)
(* lines that are ready and the one that is half typed.  Left out is raw   *)
(* mode set while a line was half typed.                                   *)
TypedInOrder ==
    ~mixed => /\ gone + Waiting = typedNo
              /\ LET all == line.input \o line.half
                 IN  \A i \in 1..(Len(all) - 1) : all[i].no < all[i + 1].no

(* /dev/pts lists a pair exactly as long as it is of use: while the master *)
(* is open, and not after both sides are closed and the last to close has  *)
(* cleaned up, whichever of them that is.                                  *)
ListedWhileUsed ==
    /\ pty.master => pty.listed
    /\ ~pty.master /\ pty.slaves = 0 /\ (\A t \in PtyThread : ptyCall[t].at \notin {"notify", "cleanup", "remove", "open"})
         => ~pty.listed

(* A pseudo terminal loses no wake-up, no byte and no name (fs/pty.rs,     *)
(* aether-terminal).                                                       *)
PtySound == NoPtySleeper /\ TypedInOrder /\ ListedWhileUsed
============================================================================
