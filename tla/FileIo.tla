------------------------------- MODULE FileIo -------------------------------
(***************************************************************************)
(* Data through open files: read, write, their vectored and positioned     *)
(* forms, lseek, sendfile and copy_file_range (handlers/fd), on one file   *)
(* that is open several times and one channel: a pipe, a stream socket or  *)
(* a terminal.  An open file has a position and a lock; the file behind it *)
(* has a lock of its own, so calls through two open files interleave       *)
(* wherever a call goes back to the file.                                  *)
(*                                                                         *)
(* A unit of data is known by the call that wrote it and its place in that *)
(* call's buffer.  The channel holds the last units of stream, those that  *)
(* are not drained.  Page cache and wait queues are in PageCache and       *)
(* FileWait: a wait here ends when the channel is ready.                   *)
(***************************************************************************)
EXTENDS Integers, Sequences

CONSTANTS
    IoThread,
    IoFile,       \* the open files
    FirstLength,  \* units the file has at first
    MaxLength,    \* bound on its length
    ChannelRoom,  \* units the channel holds
    ChunkSize,    \* SENDFILE_CHUNK_SIZE
    IoVectors,    \* lengths of the segments of a vectored call
    IoSetups,     \* channel, open files with O_APPEND, calls to be made and how many
    Unlocked

ASSUME FileIoAssumption ==
    /\ "channel" \notin IoFile /\ Unlocked \notin IoThread
    /\ FirstLength \in Nat /\ MaxLength \in Nat /\ FirstLength <= MaxLength
    /\ ChannelRoom \in Nat \ {0} /\ ChunkSize \in Nat \ {0}
    /\ \A v \in IoVectors : v \in Seq(Nat) /\ v # <<>>
    /\ \A s \in IoSetups : /\ s.append \subseteq IoFile /\ s.places \subseteq IoFile \cup {"channel"}
                          /\ s.nonblock \in BOOLEAN /\ s.calls \in Nat

VARIABLES
    content,      \* the file: its units
    position,     \* of each open file
    stream,       \* what went into the channel,
    drained,      \* and how much of it has been read
    ioLock,       \* who has the lock of each open file, ends of the channel included
    ioCall, ioCalls, ioSetup,
    appended,     \* history: places written with O_APPEND and not written over since
    overrun,      \* history: places appended to with an outdated size
    broken        \* history: calls that got EAGAIN after they had moved something, or
                  \* dropped what they had read
ioVars == <<content, position, stream, drained, ioLock, ioCall, ioCalls, ioSetup,
            appended, overrun, broken>>

IoHole == <<0, 0>>
IoInit ==
    /\ ioSetup \in IoSetups
    /\ content = [i \in 1..FirstLength |-> <<0, i>>]
    /\ position = [o \in IoFile |-> 0]
    /\ stream = <<>> /\ drained = 0
    /\ ioLock = [o \in IoFile \cup {"reader", "writer"} |-> Unlocked]
    /\ ioCall = [t \in IoThread |-> [at |-> "idle"]] /\ ioCalls = 0
    /\ appended = <<>> /\ overrun = {} /\ broken = {}

IoLesser(x, y) == IF x < y THEN x ELSE y
IoGo(t, r) == ioCall' = [ioCall EXCEPT ![t] = r]
IoReturned(r) == [r EXCEPT !.at = "returned"]
Nonblock == ioSetup.nonblock
IoQueued == Len(stream) - drained
IoRoom == ChannelRoom - IoQueued

\* The file's read: how many of n units there are at a place
UnitsAt(place, n) == IF place >= Len(content) THEN 0 ELSE IoLesser(n, Len(content) - place)
\* The file's write: what is left out before it is a hole
Overwritten(place, units) ==
    [i \in 1..(IF place + Len(units) > Len(content) THEN place + Len(units) ELSE Len(content)) |->
       IF i \in (place + 1)..(place + Len(units)) THEN units[i - place]
       ELSE IF i <= Len(content) THEN content[i] ELSE IoHole]
Spoilt(place, n) == place..(place + n - 1)
ForgetAppended(places) == appended' = [p \in DOMAIN appended \ places |-> appended[p]]

\* The lock of an open file is free for a call, and is kept or given up after a step.
Lockable(t, o) == ioLock[o] \in {Unlocked, t}
IoKeep(t, o, keep) == ioLock' = [ioLock EXCEPT ![o] = IF keep THEN t ELSE Unlocked]

-----------------------------------------------------------------------------
(* Calls *)

NewCall(op, from, to, segments, place) ==
    [at |-> "run", op |-> op, from |-> from, to |-> to, segments |-> segments, left |-> segments,
     start |-> place, place |-> place,   \* offsets given with the call, -1 for none
     first |-> -1, whole |-> TRUE,       \* where a read began, and that it is of one piece
     hand |-> <<>>, part |-> 0, total |-> 0, took |-> 0, gave |-> 0,
     stale |-> FALSE, id |-> ioCalls + 1]
IoStarts(t, op) ==
    /\ ioCall[t].at \in {"idle", "returned"}
    /\ op \in ioSetup.ops /\ ioCalls < ioSetup.calls /\ ioCalls' = ioCalls + 1
StartsOnly == UNCHANGED <<content, position, stream, drained, ioLock, ioSetup, appended, overrun, broken>>
NoOffsets == [from |-> -1, to |-> -1]

\* recv_from of a socket takes the whole vector at once.
Joined(segments) == IF ioSetup.kind = "socket" /\ Len(segments) = 2
                    THEN <<segments[1] + segments[2]>> ELSE segments
\* read_fd, readv_fd; pread64, preadv64
ReadCall(t, o, segments) ==
    /\ IoStarts(t, "read")
    /\ IoGo(t, NewCall("read", o, "user", IF o = "channel" THEN Joined(segments) ELSE segments, NoOffsets))
    /\ StartsOnly
PreadCall(t, o, segments, offset) ==
    /\ IoStarts(t, "pread")
    /\ IoGo(t, NewCall("read", o, "user", segments, [NoOffsets EXCEPT !.from = offset]))
    /\ StartsOnly
\* write_fd, writev_fd; pwrite64, pwritev64
WriteCall(t, o, segments) ==
    /\ IoStarts(t, "write")
    /\ IoGo(t, NewCall("write", "user", o, segments, NoOffsets))
    /\ StartsOnly
PwriteCall(t, o, segments, offset) ==
    /\ IoStarts(t, "pwrite")
    /\ IoGo(t, NewCall("write", "user", o, segments, [NoOffsets EXCEPT !.to = offset]))
    /\ StartsOnly
\* sendfile_step: not to an open file with O_APPEND, nor to a pipe, nor to the
\* same descriptor, of which an open file may have two
Sendfile(t, o, to, count, offset) ==
    /\ IoStarts(t, "sendfile")
    /\ to \notin ioSetup.append /\ (to = "channel" => ioSetup.kind # "pipe")
    /\ IoGo(t, NewCall("sendfile", o, to, <<count>>, [NoOffsets EXCEPT !.from = offset]))
    /\ StartsOnly
\* copy_file_range_step: nor to a socket; either offset may be given
CopyFileRange(t, o, to, count, from, onto) ==
    /\ IoStarts(t, "copy")
    /\ to \notin ioSetup.append /\ (to = "channel" => ioSetup.kind = "tty")
    /\ IoGo(t, NewCall("copy", o, to, <<count>>, [from |-> from, to |-> onto]))
    /\ StartsOnly

\* lseek: whence gives the base
Lseek(t, o, whence, offset) ==
    LET base == CASE whence = "SET" -> 0 [] whence = "CUR" -> position[o] [] whence = "END" -> Len(content)
    IN  /\ IoStarts(t, "lseek") /\ Lockable(t, o)
        /\ base + offset \in 0..MaxLength
        /\ position' = [position EXCEPT ![o] = base + offset]
        /\ UNCHANGED <<content, stream, drained, ioLock, ioCall, ioSetup, appended, overrun, broken>>

\* EAGAIN: a call that may block waits and starts over, whatever it has moved;
\* file_blocking_syscall, and the loops of sendfile and copy_file_range
Retried(r) == [r EXCEPT !.at = "wait", !.left = r.segments, !.total = 0, !.place = r.start,
                        !.first = -1, !.hand = <<>>, !.part = 0]
IoAgain(t, r) ==
    /\ IoGo(t, IF Nonblock THEN IoReturned([r EXCEPT !.total = 0]) ELSE Retried(r))
    /\ broken' = IF r.total > 0 THEN broken \cup {r.id} ELSE broken
IoReady(r) == IF r.from = "channel" THEN IoQueued > 0 ELSE IoRoom > 0
\* wait_file returns; with a signal the call ends
IoWake(t) ==
    /\ ioCall[t].at = "wait"
    /\ \/ IoReady(ioCall[t]) /\ IoGo(t, [ioCall[t] EXCEPT !.at = "run"])
       \/ IoGo(t, IoReturned(ioCall[t]))
    /\ UNCHANGED <<content, position, stream, drained, ioLock, ioCalls, ioSetup, appended, overrun, broken>>

-----------------------------------------------------------------------------
(* Reading *)

Moves(t, op) == ioCall[t].at = "run" /\ ioCall[t].op = op
\* A segment has been filled, or as much of it as there was; the lock is kept
\* from the first segment to the last.
AfterRead(r, n) ==
    LET next == [r EXCEPT !.total = @ + n, !.took = @ + n, !.left = Tail(@)]
    IN  IF n < Head(r.left) \/ Len(r.left) = 1 THEN IoReturned(next) ELSE next
KeepsReading(r) == r.at = "run"
IoReadChannel(t) ==
    LET r == ioCall[t]
        n == IoLesser(Head(r.left), IoQueued)
    IN  /\ Moves(t, "read") /\ r.from = "channel" /\ Lockable(t, "reader")
        /\ IF n = 0 THEN IoAgain(t, r) /\ IoKeep(t, "reader", FALSE) /\ UNCHANGED drained
           ELSE /\ IoGo(t, AfterRead(r, n))
                /\ IoKeep(t, "reader", KeepsReading(AfterRead(r, n)))
                /\ drained' = drained + n
                /\ UNCHANGED broken
        /\ UNCHANGED <<content, position, stream, ioCalls, ioSetup, appended, overrun>>
IoReadFile(t) ==
    LET r == ioCall[t]
        o == r.from
        place == IF r.place.from >= 0 THEN r.place.from ELSE position[o]
        n == UnitsAt(place, Head(r.left))
        next == AfterRead([r EXCEPT !.first = IF @ = -1 THEN place ELSE @,
                                    !.whole = @ /\ (r.first # -1 => place = r.first + r.total),
                                    !.place.from = IF @ >= 0 THEN @ + n ELSE @], n)
    IN  /\ Moves(t, "read") /\ o \in IoFile
        /\ IoGo(t, next)
        /\ IF r.place.from >= 0 THEN UNCHANGED <<position, ioLock>>
           ELSE /\ Lockable(t, o) /\ IoKeep(t, o, KeepsReading(next))
                /\ position' = [position EXCEPT ![o] = @ + n]
        /\ UNCHANGED <<content, stream, drained, ioCalls, ioSetup, appended, overrun, broken>>

-----------------------------------------------------------------------------
(* Writing *)

\* n units of the segment have gone, and with them the segment or not
AfterWrite(r, n) ==
    LET next == [r EXCEPT !.at = "run", !.total = @ + n, !.gave = @ + n, !.part = @ + n, !.stale = FALSE]
    IN  IF next.part < Head(r.left) THEN next
        ELSE IF Len(r.left) = 1 THEN IoReturned(next) ELSE [next EXCEPT !.left = Tail(@), !.part = 0]
OwnUnits(r, n) == [i \in 1..n |-> <<r.id, r.total + i>>]

\* With O_APPEND the position is set to the size first; the lock of the open
\* file is kept over both, the one of the file is not.
AppendAt(t) ==
    LET r == ioCall[t]
    IN  /\ Moves(t, "write") /\ r.to \in ioSetup.append /\ r.place.to < 0 /\ Lockable(t, r.to)
        /\ position' = [position EXCEPT ![r.to] = Len(content)]
        /\ IoKeep(t, r.to, TRUE)
        /\ IoGo(t, [r EXCEPT !.at = "append"])
        /\ UNCHANGED <<content, stream, drained, ioCalls, ioSetup, appended, overrun, broken>>
\* An append through another open file has its size already.
Outdating(t, o) ==
    [s \in IoThread |-> IF s # t /\ ioCall[s].at = "append" /\ ioCall[s].to # o
                        THEN [ioCall[s] EXCEPT !.stale = TRUE] ELSE ioCall[s]]
IoWriteFile(t) ==
    LET r == ioCall[t]
        o == r.to
        place == IF r.place.to >= 0 THEN r.place.to ELSE position[o]
        units == OwnUnits(r, Head(r.left))
        n == Len(units)
        appends == r.at = "append"
        next == AfterWrite([r EXCEPT !.place.to = IF @ >= 0 THEN @ + n ELSE @], n)
    IN  /\ appends \/ (Moves(t, "write") /\ (r.place.to >= 0 \/ o \notin ioSetup.append))
        /\ o \in IoFile
        /\ place + n <= MaxLength
        /\ content' = Overwritten(place, units)
        /\ ioCall' = [Outdating(t, o) EXCEPT ![t] = next]
        /\ IF r.place.to >= 0 THEN UNCHANGED <<position, ioLock>>
           ELSE /\ Lockable(t, o) /\ IoKeep(t, o, FALSE)
                /\ position' = [position EXCEPT ![o] = @ + n]
        /\ IF appends
           THEN /\ appended' = [p \in DOMAIN appended \cup Spoilt(place, n) |->
                                  IF p \in DOMAIN appended THEN appended[p] ELSE units[p - place + 1]]
                /\ overrun' = IF r.stale THEN overrun \cup Spoilt(place, n) ELSE overrun
           ELSE ForgetAppended(Spoilt(place, n)) /\ UNCHANGED overrun
        /\ UNCHANGED <<stream, drained, ioCalls, ioSetup, broken>>

\* A pipe is filled turn by turn, under the open file's lock; a socket and a
\* terminal take what they have room for.  Out of room a write ends, with what it
\* has of the segment; without any it is EAGAIN, which writev passes on unless
\* it writes to a socket and has done a segment.
IoWriteChannel(t) ==
    LET r == ioCall[t]
        n == IoLesser(Head(r.left) - r.part, IoRoom)
        next == AfterWrite(r, n)
        over == r.part + n < Head(r.left) /\ ioSetup.kind # "pipe"
    IN  /\ Moves(t, "write") /\ r.to = "channel" /\ Lockable(t, "writer")
        /\ IF n > 0
           THEN /\ stream' = stream \o OwnUnits(r, n)
                /\ IoGo(t, IF over THEN IoReturned(next) ELSE next)
                /\ IoKeep(t, "writer", next.part > 0 /\ next.at = "run" /\ ~over)
                /\ UNCHANGED broken
           ELSE /\ IF r.part > 0 \/ (ioSetup.kind = "socket" /\ r.total > 0)
                   THEN IoGo(t, IoReturned(r)) /\ UNCHANGED broken
                   ELSE IoAgain(t, r)
                /\ IoKeep(t, "writer", FALSE) /\ UNCHANGED stream
        /\ UNCHANGED <<content, position, drained, ioCalls, ioSetup, appended, overrun>>

-----------------------------------------------------------------------------
(* Copying: a chunk is read under one lock and written under another. *)

Copies(r) == r.op \in {"sendfile", "copy"}
Fetch(t) ==
    LET r == ioCall[t]
        given == r.place.from >= 0
        place == IF given THEN r.place.from ELSE position[r.from]
        n == UnitsAt(place, IoLesser(Head(r.segments) - r.total, ChunkSize))
    IN  /\ r.at = "run" /\ Copies(r)
        /\ given \/ Lockable(t, r.from)
        /\ IoGo(t, IF n = 0 THEN IoReturned(r)
                   ELSE [r EXCEPT !.at = "deliver", !.took = @ + n,
                                  !.hand = SubSeq(content, place + 1, place + n)])
        /\ position' = IF given THEN position ELSE [position EXCEPT ![r.from] = @ + n]
        /\ UNCHANGED <<content, stream, drained, ioLock, ioCalls, ioSetup, appended, overrun, broken>>

\* How far the offset of the source moves: sendfile goes by what was written,
\* copy_file_range by what was read.
\* Mutant of Advanced: sendfile does the same.
AdvancedByRead(r, written) == Len(r.hand)
Advanced(r, written) == IF r.op = "sendfile" THEN written ELSE Len(r.hand)
AfterDeliver(r, w) ==
    LET next == [r EXCEPT !.at = "run", !.hand = <<>>, !.total = @ + w, !.gave = @ + w,
                          !.place = [from |-> IF @.from >= 0 THEN @.from + Advanced(r, w) ELSE -1,
                                     to |-> IF @.to >= 0 THEN @.to + w ELSE -1]]
    IN  IF w < Len(r.hand) \/ next.total = Head(r.segments) THEN IoReturned(next) ELSE next
DeliverFile(t) ==
    LET r == ioCall[t]
        o == r.to
        place == IF r.place.to >= 0 THEN r.place.to ELSE position[o]
        n == Len(r.hand)
    IN  /\ ioCall[t].at = "deliver" /\ o \in IoFile
        /\ Lockable(t, o) /\ place + n <= MaxLength
        /\ content' = Overwritten(place, r.hand)
        /\ position' = IF r.place.to >= 0 THEN position ELSE [position EXCEPT ![o] = @ + n]
        /\ ioCall' = [Outdating(t, o) EXCEPT ![t] = AfterDeliver(r, n)]
        /\ ForgetAppended(Spoilt(place, n))
        /\ UNCHANGED <<stream, drained, ioLock, ioCalls, ioSetup, overrun, broken>>
\* A channel without room: what was read is dropped, and the position is not set
\* back; so it is where an offset is given, for the node of a terminal has no file.
\* A unit is numbered by how far into the range it was read.
DeliverChannel(t) ==
    LET r == ioCall[t]
        w == IF r.place.to >= 0 THEN 0 ELSE IoLesser(Len(r.hand), IoRoom)
        before == IF r.place.from >= 0 THEN r.place.from - r.start.from ELSE r.took - Len(r.hand)
    IN  /\ r.at = "deliver" /\ r.to = "channel" /\ Lockable(t, "writer")
        /\ stream' = stream \o [i \in 1..w |-> <<r.id, before + i>>]
        /\ IoGo(t, IF w > 0 THEN AfterDeliver(r, w)
                   ELSE IF r.total > 0 \/ Nonblock \/ r.place.to >= 0 THEN IoReturned(r)
                   ELSE Retried(r))
        /\ broken' = IF w < Len(r.hand) /\ (r.place.from < 0 \/ r.op = "copy")
                     THEN broken \cup {r.id} ELSE broken
        /\ UNCHANGED <<content, position, drained, ioLock, ioCalls, ioSetup, appended, overrun>>

IoNext == \E t \in IoThread :
    \/ \E o \in ioSetup.places, v \in IoVectors : ReadCall(t, o, v) \/ WriteCall(t, o, v)
    \/ \E o \in IoFile, v \in IoVectors, p \in {1} : PreadCall(t, o, v, p) \/ PwriteCall(t, o, v, p)
    \/ \E o \in IoFile, to \in ioSetup.places, p \in {-1, 0} :
         \/ Sendfile(t, o, to, FirstLength, p)
         \/ \E q \in {-1, 1} : CopyFileRange(t, o, to, FirstLength, p, q)
    \/ \E o \in IoFile, w \in {"SET", "CUR", "END"}, k \in {-1, 0} : Lseek(t, o, w, k)
    \/ IoWake(t) \/ IoReadChannel(t) \/ IoReadFile(t) \/ AppendAt(t) \/ IoWriteFile(t) \/ IoWriteChannel(t)
    \/ Fetch(t) \/ DeliverFile(t) \/ DeliverChannel(t)

IoSpec == IoInit /\ [][IoNext]_ioVars

-----------------------------------------------------------------------------
(* Properties *)

\* What was written with O_APPEND stays in the file, whoever appends, writes and
\* moves the position meanwhile, until a call with a place of its own writes
\* there; but for appends through two open files, which may take the same size.
AppendsKept == \A p \in DOMAIN appended \ overrun : content[p + 1] = appended[p]

\* What a call has done when it returns is what it tells: the count, and the
\* offsets it gives back, so that the program goes on where the data ended; and
\* readv fills its segments from one piece of the file.
TruthTold ==
    \A t \in IoThread : ioCall[t].at = "returned" =>
      LET r == ioCall[t]
      IN  /\ r.whole
          /\ (r.op = "sendfile" /\ r.start.from >= 0) => r.place.from - r.start.from = r.total
          /\ r.start.to >= 0 => r.place.to - r.start.to = r.total
          /\ r.id \notin broken =>
               /\ r.to # "user" => r.gave = r.total
               /\ (r.from # "user" /\ r.start.from < 0) => r.took = r.total
               /\ (r.from # "user" /\ r.start.from >= 0) => r.place.from - r.start.from = r.total

\* What one call puts into a pipe, a socket or a terminal comes out in the order
\* of its buffer or of the file it was read from, without a gap and without a
\* repetition, wherever the channel was full on the way.
StreamInOrder ==
    \A id \in (1..ioCalls) \ broken :
      \A k \in DOMAIN stream : stream[k][1] = id =>
        /\ stream[k][2] = 1 \/ \E j \in 1..(k - 1) : stream[j] = <<id, stream[k][2] - 1>>
        /\ \A j \in 1..(k - 1) : stream[j][1] = id => stream[j][2] < stream[k][2]

\* No call loses, repeats or misreports data (file.rs, the handlers of fd) but
\* those that got EAGAIN after they had moved something: readv and writev start
\* over, sendfile and copy_file_range do not give back what they have read.
IoTold == AppendsKept /\ TruthTold /\ StreamInOrder
=============================================================================
