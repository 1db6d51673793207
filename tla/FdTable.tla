------------------------------ MODULE FdTable -------------------------------
(***************************************************************************)
(* File descriptor tables, open file descriptions and flock.               *)
(*                                                                         *)
(* A table is an Arc: clone with CLONE_FILES shares it, fork copies it, and *)
(* a copy still names the same open files.  An open file lives as long as  *)
(* a table, a system call in progress, a blocked waiter or a message in a  *)
(* socket refers to it; when the last reference goes it is dropped, and    *)
(* dropping it gives up its flock lock.  The lock is the open file's,      *)
(* whoever uses it, and the inode has the state of all of them.            *)
(*                                                                         *)
(* FdTable::duplicate reads the table and inserts in two lock sections, a  *)
(* flock call reads the table, then locks the inode, then notifies, and a  *)
(* call that would block looks the descriptor up again to register.  Each  *)
(* of these is a step here.  FileWait shows that a listener's wake reaches *)
(* its thread; here that path is one step, from signalled to Wake.         *)
(***************************************************************************)
EXTENDS Naturals, FiniteSets

CONSTANTS
    Task,     \* the tasks, and the names of their tables
    File,     \* open file descriptions, by OpenFileDescription.id
    Inode,
    MaxFd,    \* bound: the largest descriptor of a table
    Cloexec,  \* bound: the close-on-exec flags the tasks ask for
    NonBlock, \* bound: whether the tasks' flock calls have LOCK_NB
    Passing,  \* bound: whether they send each other descriptors, or else dup them
    None

ASSUME MaxFdAssumption == MaxFd \in Nat
ASSUME FlagAssumption == /\ Cloexec \subseteq BOOLEAN /\ NonBlock \subseteq BOOLEAN
                          /\ Passing \subseteq BOOLEAN

Fd == 0..MaxFd
Descriptor == [file : File, cloexec : BOOLEAN]

ASSUME NoneAssumption == /\ None \notin Task /\ None \notin File /\ None \notin Inode
                         /\ None \notin Descriptor

Operation == {"Shared", "Exclusive", "Unlock"}

VARIABLES
    table,      \* the table a live task refers to, or None
    entries,    \* FdTable.entries of each table
    inode,      \* the inode of an open file
    held,       \* the descriptor a system call has cloned out of the table
    rights,     \* the open file in a message queued at a socket (SCM_RIGHTS), or None;
                \* NotPassing in a behaviour that sends none
    pc,         \* where in its system call a task is
    arg,        \* the call's arguments
    shared, exclusive,  \* FlockState of each inode
    waiter,     \* the open file whose flock_waiters has the task's listener
    raced,      \* history: blocked tasks whose lock was free when they blocked
    notify,     \* inodes whose waiters the task has yet to notify
    dropping,   \* open files whose last reference the task has dropped
    signalled   \* tasks in the file wait queue of the process manager

vars == <<table, entries, inode, held, rights, pc, arg, shared, exclusive, waiter, raced, notify, dropping,
          signalled>>
lockVars == <<shared, exclusive>>
waitVars == <<waiter, raced, signalled>>

PC == {"user", "insert", "insertAt", "get", "flock", "again", "blocked", "received"}
NoArg == [fd |-> 0, to |-> 0, op |-> "Unlock", wait |-> FALSE]

NotPassing == <<"none">>
Passed == <<"one">>
\* rights is either the name of an open file or one of these, never both
ASSUME TagsAssumption == NotPassing \notin File /\ Passed \notin File

Empty == [fd \in Fd |-> None]

\* The first task, with its standard input open
Init ==
    \E t \in Task, f \in File, i \in Inode :
        /\ table = [u \in Task |-> IF u = t THEN t ELSE None]
        /\ entries = [k \in Task |-> IF k = t
                        THEN [Empty EXCEPT ![0] = [file |-> f, cloexec |-> FALSE]] ELSE Empty]
        /\ inode = [g \in File |-> i]
        /\ held = [u \in Task |-> None]
        /\ \E passing \in Passing : rights = IF passing THEN None ELSE NotPassing
        /\ pc = [u \in Task |-> "user"]
        /\ arg = [u \in Task |-> NoArg]
        /\ shared = [j \in Inode |-> {}]
        /\ exclusive = [j \in Inode |-> None]
        /\ waiter = [u \in Task |-> None]
        /\ raced = {} /\ signalled = {}
        /\ notify = [u \in Task |-> {}]
        /\ dropping = [u \in Task |-> {}]

-----------------------------------------------------------------------------
(* Reference counts *)

\* Some Arc of the open file exists.
Referenced(f) ==
    \/ \E k \in Task, fd \in Fd : entries[k][fd] # None /\ entries[k][fd].file = f
    \/ \E t \in Task : held[t] # None /\ held[t].file = f
    \/ \E t \in Task : waiter[t] = f
    \/ rights = f

Fresh(f) == ~Referenced(f) /\ \A t \in Task : f \notin dropping[t]

\* Mutant of Drops: dropping a descriptor drops its open file.
DropsEach(t) ==
    dropping' = [dropping EXCEPT ![t] = @ \cup
        {f \in File : \E k \in Task, fd \in Fd :
            /\ entries[k][fd] # None /\ entries[k][fd].file = f
            /\ entries'[k][fd] # entries[k][fd]}]
\* The files whose last reference goes in this step are t's to drop.
Drops(t) ==
    dropping' = [dropping EXCEPT ![t] = @ \cup {f \in File : Referenced(f) /\ ~Referenced(f)'}]

\* t runs in user mode, or has nothing left to do before its next step
Done(t) == notify[t] = {} /\ dropping[t] = {}
Runs(t, where) == table[t] # None /\ pc[t] = where /\ Done(t)

Mine(t) == entries[table[t]]
Become(t, where) == pc' = [pc EXCEPT ![t] = where]
SetEntries(t, new) == entries' = [entries EXCEPT ![table[t]] = new]

-----------------------------------------------------------------------------
(* The table *)

\* insert: the lowest free descriptor not below min
LowestFree(t, min) ==
    {fd \in Fd : /\ fd >= min /\ Mine(t)[fd] = None
                 /\ \A lower \in Fd : min <= lower /\ lower < fd => Mine(t)[lower] # None}

Open(t, f, i, cloexec) ==
    /\ Runs(t, "user") /\ Fresh(f)
    /\ \E fd \in LowestFree(t, 0) :
          SetEntries(t, [Mine(t) EXCEPT ![fd] = [file |-> f, cloexec |-> cloexec]])
    /\ inode' = [inode EXCEPT ![f] = i]
    /\ UNCHANGED <<table, rights, held, pc, arg, lockVars, waitVars, notify, dropping>>

Close(t, fd) ==
    /\ Runs(t, "user")
    /\ SetEntries(t, [Mine(t) EXCEPT ![fd] = None])
    /\ UNCHANGED <<table, inode, rights, held, pc, arg, lockVars, waitVars, notify>>
    /\ Drops(t)

\* dup, F_DUPFD, F_DUPFD_CLOEXEC (where = insert) and dup2, dup3 (insertAt)
DupGet(t, fd, to, cloexec, where) ==
    /\ Runs(t, "user")
    /\ where = "insertAt" => fd # to
    /\ rights = NotPassing
    /\ Mine(t)[fd] # None
    /\ held' = [held EXCEPT ![t] = [Mine(t)[fd] EXCEPT !.cloexec = cloexec]]
    /\ arg' = [arg EXCEPT ![t].to = to]
    /\ Become(t, where)
    /\ UNCHANGED <<table, entries, inode, rights, lockVars, waitVars, notify, dropping>>

DupInsert(t) ==
    /\ \/ /\ Runs(t, "insert")
          /\ \E fd \in LowestFree(t, arg[t].to) : SetEntries(t, [Mine(t) EXCEPT ![fd] = held[t]])
       \/ /\ Runs(t, "insertAt")
          /\ SetEntries(t, [Mine(t) EXCEPT ![arg[t].to] = held[t]])
    /\ held' = [held EXCEPT ![t] = None]
    /\ arg' = [arg EXCEPT ![t] = NoArg]
    /\ Become(t, "user")
    /\ UNCHANGED <<table, inode, rights, lockVars, waitVars, notify>>
    /\ Drops(t)

\* bound: every descriptor from the minimum on is taken; the code goes on above
DupFull(t) ==
    /\ Runs(t, "insert") /\ LowestFree(t, arg[t].to) = {}
    /\ held' = [held EXCEPT ![t] = None]
    /\ arg' = [arg EXCEPT ![t] = NoArg]
    /\ Become(t, "user")
    /\ UNCHANGED <<table, entries, inode, rights, lockVars, waitVars, notify>>
    /\ Drops(t)

\* F_SETFD, of one descriptor, and CLOSE_RANGE_CLOEXEC
SetCloexec(t, first, last, cloexec) ==
    /\ Runs(t, "user") /\ first <= last
    /\ first < last => cloexec
    /\ SetEntries(t, [fd \in Fd |-> IF fd \in first..last /\ Mine(t)[fd] # None
                        THEN [Mine(t)[fd] EXCEPT !.cloexec = cloexec] ELSE Mine(t)[fd]])
    /\ UNCHANGED <<table, inode, rights, held, pc, arg, lockVars, waitVars, notify, dropping>>

\* close_range, with CLOSE_RANGE_UNSHARE or without: the flag changes nothing
CloseRange(t, first, last) ==
    /\ Runs(t, "user") /\ first <= last
    /\ SetEntries(t, [fd \in Fd |-> IF fd \in first..last THEN None ELSE Mine(t)[fd]])
    /\ UNCHANGED <<table, inode, rights, held, pc, arg, lockVars, waitVars, notify>>
    /\ Drops(t)

\* A successful execve: close_cloexec, on the table the task shares or not
Execve(t) ==
    /\ Runs(t, "user")
    /\ SetEntries(t, [fd \in Fd |-> IF Mine(t)[fd] # None /\ Mine(t)[fd].cloexec
                        THEN None ELSE Mine(t)[fd]])
    /\ UNCHANGED <<table, inode, rights, held, pc, arg, lockVars, waitVars, notify>>
    /\ Drops(t)

\* clone with CLONE_FILES
CloneFiles(t, child) ==
    /\ Runs(t, "user") /\ table[child] = None /\ Done(child)
    /\ table' = [table EXCEPT ![child] = table[t]]
    /\ UNCHANGED <<entries, inode, rights, held, pc, arg, lockVars, waitVars, notify, dropping>>

\* clone without it: clone_fd_table_for_fork, the entries copied under the table's lock
Fork(t, child) ==
    /\ Runs(t, "user") /\ table[child] = None /\ Done(child)
    /\ \E k \in Task :
          /\ \A u \in Task : table[u] # k
          /\ table' = [table EXCEPT ![child] = k]
          /\ entries' = [entries EXCEPT ![k] = Mine(t)]
    /\ UNCHANGED <<inode, rights, held, pc, arg, lockVars, waitVars, notify, dropping>>

\* The process is dropped, and with the last user of a table its entries.
Exit(t) ==
    /\ Runs(t, "user")
    /\ table' = [table EXCEPT ![t] = None]
    /\ entries' = IF \E u \in Task \ {t} : table[u] = table[t] THEN entries
                  ELSE [entries EXCEPT ![table[t]] = Empty]
    /\ UNCHANGED <<inode, rights, held, pc, arg, lockVars, waitVars, notify>>
    /\ Drops(t)

-----------------------------------------------------------------------------
(* Descriptors sent over a socket.  One message is in flight at a time: a   *)
(* second one would refer to the same open files.                           *)

\* parse_socket_send_control: the message refers to the open file from now on
SendRights(t, fd) ==
    /\ Runs(t, "user") /\ rights = None /\ Mine(t)[fd] # None
    /\ rights' = Mine(t)[fd].file
    /\ UNCHANGED <<table, entries, inode, held, pc, arg, lockVars, waitVars, notify, dropping>>

\* write_socket_receive_control: the descriptor is inserted without the flag ...
RecvRights(t, cloexec) ==
    /\ Runs(t, "user") /\ rights \in File
    /\ \E fd \in LowestFree(t, 0) :
          /\ SetEntries(t, [Mine(t) EXCEPT ![fd] = [file |-> rights, cloexec |-> FALSE]])
          /\ arg' = [arg EXCEPT ![t].fd = IF cloexec THEN fd ELSE @]
    /\ rights' = Passed
    /\ Become(t, IF cloexec THEN "received" ELSE "user")
    /\ UNCHANGED <<table, inode, held, lockVars, waitVars, notify, dropping>>

\* ... and gets it (MSG_CMSG_CLOEXEC) by its number, under a lock of its own:
\* by then the number may be another file's, or nobody's.
SetReceivedCloexec(t) ==
    LET fd == arg[t].fd IN
    /\ Runs(t, "received")
    /\ IF Mine(t)[fd] = None THEN UNCHANGED entries
       ELSE SetEntries(t, [Mine(t) EXCEPT ![fd].cloexec = TRUE])
    /\ arg' = [arg EXCEPT ![t] = NoArg]
    /\ Become(t, "user")
    /\ UNCHANGED <<table, inode, rights, held, lockVars, waitVars, notify, dropping>>

\* The receiver has no room for it (MSG_CTRUNC), or closes the socket.
DropRights(t) ==
    /\ Runs(t, "user") /\ rights \in File
    /\ rights' = Passed
    /\ UNCHANGED <<table, entries, inode, held, pc, arg, lockVars, waitVars, notify>>
    /\ Drops(t)

-----------------------------------------------------------------------------
(* flock *)

\* Inode::flock would return WouldBlock
Conflicts(f, op) ==
    \/ op # "Unlock" /\ exclusive[inode[f]] \notin {None, f}
    \/ op = "Exclusive" /\ exclusive[inode[f]] # f /\ shared[inode[f]] \ {f} # {}

\* Mutant of SetLock: an exclusive lock leaves the owner's shared one in place.
KeepShared(f, op) ==
    /\ shared' = [shared EXCEPT ![inode[f]] = IF op = "Shared" THEN @ \cup {f} ELSE @]
    /\ exclusive' = [exclusive EXCEPT ![inode[f]] =
                        IF op = "Exclusive" THEN f ELSE IF @ = f THEN None ELSE @]
\* Inode::flock, once it does not block
SetLock(f, op) ==
    /\ shared' = [shared EXCEPT ![inode[f]] = IF op = "Shared" THEN @ \cup {f} ELSE @ \ {f}]
    /\ exclusive' = [exclusive EXCEPT ![inode[f]] =
                        IF op = "Exclusive" THEN f ELSE IF @ = f THEN None ELSE @]

\* changed: the inode's state is not what it was
MustNotify(f) == shared'[inode[f]] # shared[inode[f]] \/ exclusive'[inode[f]] # exclusive[inode[f]]

Notifies(t, f) ==
    notify' = [notify EXCEPT ![t] = IF MustNotify(f) THEN @ \cup {inode[f]} ELSE @]

\* flock_blocking.  bound: shared locks only where no descriptors are sent
Flock(t, fd, op, nonblock) ==
    /\ Runs(t, "user")
    /\ op = "Shared" => rights = NotPassing
    /\ arg' = [arg EXCEPT ![t] = [NoArg EXCEPT !.fd = fd, !.op = op,
                                             !.wait = ~nonblock /\ op # "Unlock"]]
    /\ Become(t, "get")
    /\ UNCHANGED <<table, entries, inode, rights, held, lockVars, waitVars, notify, dropping>>

FlockGet(t) ==
    /\ Runs(t, "get")
    /\ held' = [held EXCEPT ![t] = Mine(t)[arg[t].fd]]
    /\ Become(t, IF Mine(t)[arg[t].fd] = None THEN "user" ELSE "flock")
    /\ arg' = IF Mine(t)[arg[t].fd] = None THEN [arg EXCEPT ![t] = NoArg] ELSE arg
    /\ UNCHANGED <<table, entries, inode, rights, lockVars, waitVars, notify, dropping>>

\* The inode is locked, unlocked or not; then the descriptor is dropped.
FlockTry(t) ==
    /\ Runs(t, "flock")
    /\ LET f == held[t].file IN
       \/ /\ ~Conflicts(f, arg[t].op)
          /\ SetLock(f, arg[t].op)
          /\ Notifies(t, f)
          /\ Become(t, "user")
          /\ arg' = [arg EXCEPT ![t] = NoArg]
       \/ /\ Conflicts(f, arg[t].op)
          /\ Become(t, IF arg[t].wait THEN "again" ELSE "user")
          /\ arg' = IF arg[t].wait THEN arg ELSE [arg EXCEPT ![t] = NoArg]
          /\ UNCHANGED <<lockVars, notify>>
    /\ held' = [held EXCEPT ![t] = None]
    /\ UNCHANGED <<table, entries, inode, rights, waitVars>>
    /\ Drops(t)

\* requeue_process: register with the file the descriptor names now, if any, and
\* sleep.  The poll in between is of the file's operations, which know no locks.
Block(t) ==
    /\ Runs(t, "again")
    /\ LET d == Mine(t)[arg[t].fd] IN
          /\ waiter' = [waiter EXCEPT ![t] = IF d = None THEN None ELSE d.file]
          /\ raced' = IF d # None /\ Conflicts(d.file, arg[t].op) THEN raced ELSE raced \cup {t}
    /\ Become(t, "blocked")
    /\ UNCHANGED <<table, entries, inode, rights, held, arg, lockVars, notify, dropping, signalled>>

\* unregister_file_wait_registrations
Unregister(t) == waiter' = [waiter EXCEPT ![t] = None]

\* wake_ready_file_blocks takes the task off the queue.
Wake(t) ==
    /\ t \in signalled
    /\ signalled' = signalled \ {t}
    /\ IF pc[t] = "blocked"
         THEN Become(t, "get") /\ Unregister(t) /\ raced' = raced \ {t}
         ELSE UNCHANGED <<pc, waiter, raced>>
    /\ UNCHANGED <<table, entries, inode, rights, held, arg, lockVars, notify>>
    /\ Drops(t)

\* A signal: EINTR
Interrupt(t) ==
    /\ Runs(t, "blocked")
    /\ Become(t, "user")
    /\ arg' = [arg EXCEPT ![t] = NoArg]
    /\ Unregister(t)
    /\ raced' = raced \ {t}
    /\ UNCHANGED <<table, entries, inode, rights, held, lockVars, notify, signalled>>
    /\ Drops(t)

\* flock_waiters.notify
Notify(t, i) ==
    /\ i \in notify[t]
    /\ notify' = [notify EXCEPT ![t] = @ \ {i}]
    /\ signalled' = signalled \cup {u \in Task : waiter[u] # None /\ inode[waiter[u]] = i}
    /\ UNCHANGED <<table, entries, inode, rights, held, pc, arg, lockVars, waiter, raced, dropping>>

\* Drop for OpenFileDescription
DropFile(t, f) ==
    /\ f \in dropping[t]
    /\ SetLock(f, "Unlock")
    /\ Notifies(t, f)
    /\ dropping' = [dropping EXCEPT ![t] = @ \ {f}]
    /\ UNCHANGED <<table, entries, inode, rights, held, pc, arg, waitVars>>

Next ==
    \E t \in Task :
        \/ \E f \in File, i \in Inode, c \in Cloexec : Open(t, f, i, c)
        \/ \E fd \in Fd :
              \/ Close(t, fd) \/ SendRights(t, fd)
              \/ \E to \in Fd, c \in Cloexec, w \in {"insert", "insertAt"} : DupGet(t, fd, to, c, w)
              \/ \E last \in Fd, c \in Cloexec : SetCloexec(t, fd, last, c)
              \/ \E last \in Fd : CloseRange(t, fd, last)
              \/ \E op \in Operation, nb \in NonBlock : Flock(t, fd, op, nb)
        \/ \E c \in Cloexec : RecvRights(t, c)
        \/ SetReceivedCloexec(t) \/ DropRights(t)
        \/ DupInsert(t) \/ DupFull(t) \/ Execve(t) \/ Exit(t)
        \/ \E child \in Task \ {t} : CloneFiles(t, child) \/ Fork(t, child)
        \/ FlockGet(t) \/ FlockTry(t) \/ Block(t) \/ Wake(t) \/ Interrupt(t)
        \/ \E i \in Inode : Notify(t, i)
        \/ \E f \in File : DropFile(t, f)

Spec == Init /\ [][Next]_vars

-----------------------------------------------------------------------------
(* Properties *)

\* Typing: a descriptor a call holds, and a listener, are where the call's
\* progress says; a task has at most one table and a table of no task is empty.
TypeOK ==
    /\ table \in [Task -> Task \cup {None}]
    /\ entries \in [Task -> [Fd -> Descriptor \cup {None}]]
    /\ inode \in [File -> Inode]
    /\ held \in [Task -> Descriptor \cup {None}]
    /\ rights \in File \cup {None, NotPassing, Passed}
    /\ pc \in [Task -> PC]
    /\ arg \in [Task -> [fd : Fd, to : Fd, op : Operation, wait : BOOLEAN]]
    /\ shared \in [Inode -> SUBSET File]
    /\ exclusive \in [Inode -> File \cup {None}]
    /\ waiter \in [Task -> File \cup {None}]
    /\ raced \subseteq {t \in Task : pc[t] = "blocked"}
    /\ notify \in [Task -> SUBSET Inode]
    /\ dropping \in [Task -> SUBSET File]
    /\ signalled \subseteq Task
    /\ \A t \in Task : /\ held[t] # None <=> pc[t] \in {"insert", "insertAt", "flock"}
                       /\ waiter[t] # None => pc[t] = "blocked"
                       /\ (\A u \in Task : table[u] # t) => entries[t] = Empty

\* flock is a reader-writer lock between open files (inode.rs, flock): with an
\* exclusive holder nobody, the holder included, has a shared lock.
FlockExclusion == \A i \in Inode : exclusive[i] # None => shared[i] = {}

Owners(i) == shared[i] \cup ({exclusive[i]} \ {None})

\* No lock outlives its open file, and none is on another inode: whatever two
\* threads do to the table in the meantime - a close between the get and the
\* lock of a flock call, a dup2 over the descriptor, an exec, an exit - an owner
\* is an open file of this inode that somebody still refers to or is dropping
\* (file.rs, Drop for OpenFileDescription).  The tables are well typed.
LocksOwned ==
    TypeOK /\ \A i \in Inode : \A f \in Owners(i) :
        /\ inode[f] = i
        /\ Referenced(f) \/ \E t \in Task : f \in dropping[t]

\* A lock belongs to the open file, not to the descriptor it was taken through:
\* closing one of several duplicates, in this task or in a fork, an exec or an
\* exit never takes it away.  Only an unlock or the last close does.
LockSurvivesClose ==
    [][\A i \in Inode : \A f \in Owners(i) :
         \/ f \in Owners(i)'
         \/ \E t \in Task : f \in dropping[t] /\ ~Referenced(f)
         \/ \E t \in Task : pc[t] = "flock" /\ held[t].file = f /\ arg[t].op = "Unlock"]_vars

\* An unlock is not lost on a registered waiter: a task that went to sleep
\* behind a lock is still behind one, or is in the wait queue, or somebody is
\* about to notify its inode or to drop the owner.  (A task that went to sleep
\* when the lock was free already, because it was released after flock failed
\* and before the listener was registered, is in raced: the code has no second
\* look for it.)
NoLostUnlock ==
    \A t \in Task : waiter[t] # None /\ t \notin raced =>
        \/ Conflicts(waiter[t], arg[t].op)
        \/ t \in signalled
        \/ \E u \in Task : inode[waiter[t]] \in notify[u]

\* flock excludes, its locks have owners, and no waiter misses an unlock
\* (inode.rs, file.rs, flock.rs).
FlockSound == FlockExclusion /\ LocksOwned /\ NoLostUnlock

\* What the comment in close_range.rs (29-30) says of CLOSE_RANGE_UNSHARE: the
\* operation applies to the calling task's table only, nobody else's changes.
\* (Ranges that close two descriptors: one could be a plain close's.)
UnshareIsPrivate ==
    [][\A t \in Task : \A first, last \in Fd :
         /\ CloseRange(t, first, last)
         /\ first < last /\ Mine(t)[first] # None /\ Mine(t)[last] # None
         => \A u \in Task \ {t} : table[u] # None => entries'[table[u]] = entries[table[u]]]_vars
=============================================================================
