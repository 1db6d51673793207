--------------------------- MODULE FdTableProofs ----------------------------
(***************************************************************************)
(* Proofs about FdTable (flock) and Pty (pseudo terminals).                *)
(*                                                                         *)
(* flock, for any number of tasks, open files, inodes and descriptors:     *)
(* FlockSound is not inductive: the drop of an open file may only take away *)
(* a lock nobody uses if a file being dropped stays unreferenced.  LockInv *)
(* adds that (DroppedGone).  Most operations change no lock and make no    *)
(* reference but by copying one; QuietStep deals with all of them.  The    *)
(* lock operations, open and the notifications have proofs of their own.   *)
(*                                                                         *)
(* Pseudo terminals, for any number of threads, any size of the input      *)
(* buffer and writes of any length: PtySound follows from PtyInv, in which *)
(* LineInv counts and numbers what waits in a line and PtyNames says who   *)
(* removes the pair.  A write is received byte by byte; FoldSound holds    *)
(* after each of them, by induction through the least number of bytes for  *)
(* which it would not (HasLeast).                                          *)
(***************************************************************************)
EXTENDS FdTable, Pty, TLAPS, SequenceTheorems, WellFoundedInduction

\* A file that is being dropped has no reference left, and gets none again.
DroppedGone == \A t \in Task : \A f \in dropping[t] : ~Referenced(f)

\* LocksOwned without the types.
OwnersLive ==
    \A i \in Inode : \A f \in Owners(i) :
        /\ inode[f] = i
        /\ Referenced(f) \/ \E t \in Task : f \in dropping[t]

LockInv == TypeOK /\ FlockExclusion /\ OwnersLive /\ NoLostUnlock /\ DroppedGone

\* The descriptor d names the open file f; some table has such a descriptor.
Names(d, f) == d # None /\ d.file = f
InTables(f) == \E k \in Task, fd \in Fd : Names(entries[k][fd], f)
InTask(f) == \E t \in Task : Names(held[t], f) \/ waiter[t] = f

\* The references of a file, by where they are.
LEMMA ReferencedIs ==
    ASSUME NEW f PROVE /\ Referenced(f) <=> InTables(f) \/ InTask(f) \/ rights = f
                       /\ Referenced(f)' <=> InTables(f)' \/ InTask(f)' \/ rights' = f
BY DEF Referenced, InTables, InTask, Names

\* The table of a task that has one.
LEMMA MineType ==
    ASSUME TypeOK, NEW t \in Task, table[t] # None
    PROVE  /\ table[t] \in Task /\ Mine(t) \in [Fd -> Descriptor \cup {None}]
           /\ \A fd \in Fd : Mine(t)[fd] = entries[table[t]][fd]
BY DEF TypeOK, Mine

Table == [Fd -> Descriptor \cup {None}]

\* What giving a table new entries does to the references in tables.
LEMMA SetEntriesFact ==
    ASSUME TypeOK, NEW t \in Task, table[t] # None, NEW new \in Table, SetEntries(t, new)
    PROVE  /\ entries' \in [Task -> Table]
           /\ \A k \in Task : entries'[k] = IF k = table[t] THEN new ELSE entries[k]
           /\ \A f : InTables(f)' => InTables(f) \/ \E fd \in Fd : Names(new[fd], f)
           /\ \A f : /\ InTables(f)
                     /\ \A fd \in Fd : Names(Mine(t)[fd], f) => \E e \in Fd : Names(new[e], f)
                     => InTables(f)'
<1>1. table[t] \in Task /\ \A fd \in Fd : Mine(t)[fd] = entries[table[t]][fd]
   BY MineType
<1>2. /\ entries' \in [Task -> Table]
      /\ \A k \in Task : entries'[k] = IF k = table[t] THEN new ELSE entries[k]
   BY <1>1 DEF SetEntries, TypeOK, Table
<1>3. ASSUME NEW f, InTables(f)' PROVE InTables(f) \/ \E fd \in Fd : Names(new[fd], f)
   BY <1>2, <1>3 DEF InTables, Names
<1>4. ASSUME NEW f, InTables(f),
             \A fd \in Fd : Names(Mine(t)[fd], f) => \E e \in Fd : Names(new[e], f)
      PROVE  InTables(f)'
  BY <1>4, <1>1, <1>2 DEF InTables, Names
<1> QED BY <1>2, <1>3, <1>4

\* The step drops no reference without handing the file to a task to drop.
Handed ==
    /\ \A f \in File : Referenced(f) => Referenced(f)' \/ \E u \in Task : f \in dropping'[u]
    /\ \A u \in Task : dropping[u] \subseteq dropping'[u]
    /\ \A u \in Task : \A f \in dropping'[u] : f \in dropping[u] \/ ~Referenced(f)'
    /\ dropping' \in [Task -> SUBSET File]

\* Drops does that, and so does a step that loses no reference.
LEMMA DropsHanded == ASSUME TypeOK, NEW t \in Task, Drops(t) PROVE Handed
<1> DEFINE lost == {f \in File : Referenced(f) /\ ~Referenced(f)'}
<1>1. dropping' = [dropping EXCEPT ![t] = @ \cup lost] BY DEF Drops
<1>2. \A f \in File : f \in lost <=> Referenced(f) /\ ~Referenced(f)' OBVIOUS
<1>3. lost \in SUBSET File OBVIOUS
<1> HIDE DEF lost
<1>4. dropping \in [Task -> SUBSET File] BY DEF TypeOK
<1>5. \A u \in Task : dropping'[u] = IF u = t THEN dropping[u] \cup lost ELSE dropping[u]
   BY <1>1, <1>4
<1> QED BY <1>1, <1>2, <1>3, <1>4, <1>5 DEF Handed

\* A step after which every file has the references it had, or others.
LEMMA KeepsHanded ==
    ASSUME TypeOK, UNCHANGED dropping, \A f \in File : Referenced(f) => Referenced(f)'
    PROVE  Handed
BY DEF Handed, TypeOK

\* The waiters after the step are waiters from before it, with the same call.
SameWaiters ==
    \A u \in Task : waiter'[u] # None =>
        /\ waiter'[u] = waiter[u] /\ arg'[u].op = arg[u].op
        /\ u \in raced => u \in raced'
        /\ u \in signalled => u \in signalled'

\* A step that changes no lock and makes no reference but by copying one keeps
\* the locks exclusive and owned.
LEMMA QuietLocks ==
    ASSUME LockInv, TypeOK', UNCHANGED <<inode, shared, exclusive>>,
           Handed, \A f \in File : Referenced(f)' => Referenced(f)
    PROVE  FlockExclusion' /\ OwnersLive' /\ DroppedGone'
<1>1. FlockExclusion' BY DEF LockInv, FlockExclusion
<1>2. OwnersLive'
  <2>1. \A i \in Inode : Owners(i)' = Owners(i) BY DEF Owners
  <2>2. \A i \in Inode : Owners(i) \subseteq File BY DEF Owners, LockInv, TypeOK
  <2>3. ASSUME NEW i \in Inode, NEW f \in Owners(i)
        PROVE  inode'[f] = i /\ (Referenced(f)' \/ \E t \in Task : f \in dropping'[t])
    BY <2>2 DEF LockInv, OwnersLive, Handed
  <2> QED BY <2>1, <2>3 DEF OwnersLive
<1>3. DroppedGone'
  BY DEF Handed, TypeOK, LockInv, DroppedGone
<1> QED BY <1>1, <1>2, <1>3

\* If it registers no listener and notifies nobody, it keeps all of LockInv.
LEMMA QuietStep ==
    ASSUME LockInv, TypeOK', UNCHANGED <<inode, shared, exclusive, notify>>, SameWaiters,
           Handed, \A f \in File : Referenced(f)' => Referenced(f)
    PROVE  LockInv'
<1>1. FlockExclusion' /\ OwnersLive' /\ DroppedGone' BY QuietLocks
<1>2. NoLostUnlock'
  BY DEF SameWaiters, LockInv, NoLostUnlock, Conflicts
<1> QED BY <1>1, <1>2 DEF LockInv

\* A step that only gives the task's table other entries, each naming a file the
\* table named before.
LEMMA EntryStep ==
    ASSUME LockInv, NEW t \in Task, table[t] # None, NEW new \in Table, SetEntries(t, new),
           \A f \in File, fd \in Fd : Names(new[fd], f) => \E e \in Fd : Names(Mine(t)[e], f),
           \/ Drops(t)
           \/ /\ UNCHANGED dropping
              /\ \A f \in File, fd \in Fd : Names(Mine(t)[fd], f) => \E e \in Fd : Names(new[e], f),
           UNCHANGED <<table, inode, rights, held, pc, arg, lockVars, waitVars, notify>>
    PROVE  LockInv'
<1>0. TypeOK BY DEF LockInv
<1>1. /\ entries' \in [Task -> Table]
      /\ \A k \in Task : entries'[k] = IF k = table[t] THEN new ELSE entries[k]
      /\ \A f : InTables(f)' => InTables(f) \/ \E fd \in Fd : Names(new[fd], f)
      /\ \A f : /\ InTables(f)
                /\ \A fd \in Fd : Names(Mine(t)[fd], f) => \E e \in Fd : Names(new[e], f)
                => InTables(f)'
   BY <1>0, SetEntriesFact
<1>2. table[t] \in Task /\ \A fd \in Fd : Mine(t)[fd] = entries[table[t]][fd]
   BY <1>0, MineType
<1>3. \A f \in File : InTables(f)' => InTables(f) BY <1>1, <1>2 DEF InTables
<1>4. \A f : InTask(f)' <=> InTask(f) BY DEF InTask, Names, waitVars
<1>5. \A f \in File : Referenced(f)' => Referenced(f) BY <1>3, <1>4, ReferencedIs
<1>6. Handed
  BY <1>0, DropsHanded, <1>1, <1>4, ReferencedIs, KeepsHanded
<1>7. TypeOK'
  BY <1>0, <1>1, <1>6 DEF TypeOK, Table, Handed, lockVars, waitVars
<1>8. SameWaiters BY DEF SameWaiters, waitVars
<1> QED BY <1>5, <1>6, <1>7, <1>8, QuietStep DEF lockVars

\* close, F_SETFD, CLOSE_RANGE_CLOEXEC, close_range and execve.
LEMMA EntryActions ==
    ASSUME LockInv, NEW t \in Task,
           \/ \E fd \in Fd : Close(t, fd)
           \/ \E fd \in Fd, last \in Fd, c \in Cloexec : SetCloexec(t, fd, last, c)
           \/ \E fd \in Fd, last \in Fd : CloseRange(t, fd, last)
           \/ Execve(t)
    PROVE  LockInv'
<1>0. TypeOK BY DEF LockInv
<1>1. table[t] # None BY DEF Close, SetCloexec, CloseRange, Execve, Runs
<1>2. Mine(t) \in Table BY <1>0, <1>1, MineType DEF Table
<1>3. ASSUME NEW fd \in Fd, Close(t, fd) PROVE LockInv'
  <2> DEFINE new == [Mine(t) EXCEPT ![fd] = None]
  <2>1. new \in Table BY <1>2 DEF Table
  <2>2. \A f \in File, e \in Fd : Names(new[e], f) => Names(Mine(t)[e], f)
     BY <1>2 DEF Names, Table
  <2>3. /\ SetEntries(t, new) /\ Drops(t)
        /\ UNCHANGED <<table, inode, rights, held, pc, arg, lockVars, waitVars, notify>>
     BY <1>3 DEF Close
  <2> HIDE DEF new
  <2> QED BY <2>1, <2>2, <2>3, <1>1, EntryStep
<1>4. ASSUME NEW fd \in Fd, NEW last \in Fd, NEW c \in Cloexec, SetCloexec(t, fd, last, c)
      PROVE  LockInv'
  <2> DEFINE new == [e \in Fd |-> IF e \in fd..last /\ Mine(t)[e] # None
                                  THEN [Mine(t)[e] EXCEPT !.cloexec = c] ELSE Mine(t)[e]]
  <2>0. c \in BOOLEAN BY FlagAssumption
  <2>1. ASSUME NEW e \in Fd
        PROVE  /\ new[e] \in Descriptor \cup {None}
               /\ \A f \in File : Names(new[e], f) <=> Names(Mine(t)[e], f)
    BY <2>0, NoneAssumption, <1>2 DEF Names, Descriptor, Table
  <2>2. new \in Table BY <2>1 DEF Table
  <2>3. /\ SetEntries(t, new) /\ UNCHANGED dropping
        /\ UNCHANGED <<table, inode, rights, held, pc, arg, lockVars, waitVars, notify>>
     BY <1>4 DEF SetCloexec
  <2> HIDE DEF new
  <2> QED BY <2>1, <2>2, <2>3, <1>1, EntryStep
<1>5. ASSUME NEW fd \in Fd, NEW last \in Fd, CloseRange(t, fd, last) PROVE LockInv'
  <2> DEFINE new == [e \in Fd |-> IF e \in fd..last THEN None ELSE Mine(t)[e]]
  <2>1. new \in Table BY <1>2 DEF Table
  <2>2. \A f \in File, e \in Fd : Names(new[e], f) => Names(Mine(t)[e], f)
     BY <1>2 DEF Names, Table
  <2>3. /\ SetEntries(t, new) /\ Drops(t)
        /\ UNCHANGED <<table, inode, rights, held, pc, arg, lockVars, waitVars, notify>>
     BY <1>5 DEF CloseRange
  <2> HIDE DEF new
  <2> QED BY <2>1, <2>2, <2>3, <1>1, EntryStep
<1>6. CASE Execve(t)
  <2> DEFINE new == [e \in Fd |-> IF Mine(t)[e] # None /\ Mine(t)[e].cloexec
                                  THEN None ELSE Mine(t)[e]]
  <2>1. new \in Table BY <1>2 DEF Table
  <2>2. \A f \in File, e \in Fd : Names(new[e], f) => Names(Mine(t)[e], f)
     BY <1>2 DEF Names, Table
  <2>3. /\ SetEntries(t, new) /\ Drops(t)
        /\ UNCHANGED <<table, inode, rights, held, pc, arg, lockVars, waitVars, notify>>
     BY <1>6 DEF Execve
  <2> HIDE DEF new
  <2> QED BY <2>1, <2>2, <2>3, <1>1, EntryStep
<1> QED BY <1>3, <1>4, <1>5, <1>6

\* A task's table names only files that are in tables.
LEMMA MineNamed ==
    ASSUME TypeOK, NEW t \in Task, table[t] # None, NEW fd \in Fd, NEW f, Names(Mine(t)[fd], f)
    PROVE  InTables(f) /\ Referenced(f)
  BY MineType, ReferencedIs DEF InTables

\* The call a task that runs is in, and what it has there.
LEMMA RunsFact ==
    ASSUME TypeOK, NEW t \in Task, NEW where, Runs(t, where)
    PROVE  /\ table[t] \in Task /\ table[t] # None /\ pc[t] = where
           /\ Mine(t) \in Table
           /\ where \in {"user", "get", "again", "received", "blocked"} => held[t] = None
           /\ where \in {"insert", "insertAt", "flock"} => held[t] \in Descriptor
           /\ where # "blocked" => waiter[t] = None /\ t \notin raced
  BY MineType DEF Runs, TypeOK, Table

\* FdTable::get of dup and flock: the call clones a descriptor out of the table.
LEMMA GetActions ==
    ASSUME LockInv, NEW t \in Task,
           \/ \E fd \in Fd, to \in Fd, c \in Cloexec, w \in {"insert", "insertAt"} :
                 DupGet(t, fd, to, c, w)
           \/ \E fd \in Fd, op \in Operation, nb \in NonBlock : Flock(t, fd, op, nb)
           \/ FlockGet(t)
    PROVE  LockInv'
<1>0. TypeOK BY DEF LockInv
<1>1. ASSUME NEW fd \in Fd, NEW d \in Descriptor, NEW w \in {"insert", "insertAt", "flock"},
             NEW a \in [fd : Fd, to : Fd, op : Operation, wait : BOOLEAN],
             table[t] # None, pc[t] \in {"user", "get"}, Mine(t)[fd] # None, d.file = Mine(t)[fd].file,
             held' = [held EXCEPT ![t] = d], pc' = [pc EXCEPT ![t] = w],
             arg' = [arg EXCEPT ![t] = a],
             UNCHANGED <<table, entries, inode, rights, lockVars, waitVars, notify, dropping>>
      PROVE  LockInv'
  <2>1. \A u \in Task : held'[u] = IF u = t THEN d ELSE held[u] BY <1>0, <1>1 DEF TypeOK
  <2>2. \A u \in Task : pc'[u] = IF u = t THEN w ELSE pc[u] BY <1>0, <1>1 DEF TypeOK
  <2>3. held[t] = None /\ waiter[t] = None /\ t \notin raced BY <1>0, <1>1 DEF TypeOK
  <2>4. d # None BY NoneAssumption
  <2>5. TypeOK'
    <3>1. held' \in [Task -> Descriptor \cup {None}] /\ pc' \in [Task -> PC]
       BY <1>0, <1>1 DEF TypeOK, PC
    <3>2. arg' \in [Task -> [fd : Fd, to : Fd, op : Operation, wait : BOOLEAN]]
       BY <1>0, <1>1 DEF TypeOK
    <3>3. raced' \subseteq {u \in Task : pc'[u] = "blocked"}
       BY <1>0, <1>1, <2>2, <2>3 DEF TypeOK, waitVars
    <3>4. \A u \in Task : /\ held'[u] # None <=> pc'[u] \in {"insert", "insertAt", "flock"}
                          /\ waiter'[u] # None => pc'[u] = "blocked"
                          /\ (\A v \in Task : table'[v] # u) => entries'[u] = Empty
       BY <1>0, <1>1, <2>1, <2>2, <2>3, <2>4 DEF TypeOK, waitVars
    <3> QED BY <1>0, <1>1, <3>1, <3>2, <3>3, <3>4 DEF TypeOK, lockVars, waitVars
  <2>6. \A f : InTables(f)' <=> InTables(f) BY <1>1 DEF InTables, Names
  <2>7. \A f : InTask(f) => InTask(f)' BY <1>1, <2>1, <2>3 DEF InTask, Names, waitVars
  <2>8. \A f \in File : InTask(f)' => InTask(f) \/ Names(Mine(t)[fd], f)
     BY <1>1, <2>1 DEF InTask, Names, waitVars
  <2>9. \A f \in File : Referenced(f)' => Referenced(f)
     BY <1>0, <1>1, <2>6, <2>8, MineNamed, ReferencedIs
  <2>10. \A f \in File : Referenced(f) => Referenced(f)'
     BY <1>1, <2>6, <2>7, ReferencedIs
  <2>11. Handed BY <1>0, <1>1, <2>10, KeepsHanded
  <2>12. SameWaiters
    BY <1>0, <1>1, <2>3 DEF TypeOK, SameWaiters, waitVars
  <2> QED BY <2>5, <2>9, <2>11, <2>12, <1>1, QuietStep DEF lockVars
<1>2. ASSUME NEW w \in {"user", "get"}, NEW a \in [fd : Fd, to : Fd, op : Operation, wait : BOOLEAN],
             pc[t] \in {"user", "get"}, pc' = [pc EXCEPT ![t] = w], arg' = [arg EXCEPT ![t] = a],
             UNCHANGED <<table, entries, inode, rights, held, lockVars, waitVars, notify, dropping>>
      PROVE  LockInv'
  <2>1. \A u \in Task : pc'[u] = IF u = t THEN w ELSE pc[u] BY <1>0, <1>2 DEF TypeOK
  <2>2. waiter[t] = None /\ t \notin raced BY <1>0, <1>2 DEF TypeOK
  <2>3. TypeOK'
    BY <1>0, <1>2, <2>1, <2>2 DEF TypeOK, PC, waitVars, lockVars
  <2>4. \A f : Referenced(f)' <=> Referenced(f) BY <1>2 DEF Referenced, waitVars
  <2>5. Handed BY <1>0, <1>2, <2>4, KeepsHanded
  <2>6. SameWaiters
    BY <1>0, <1>2, <2>2 DEF TypeOK, SameWaiters, waitVars
  <2> QED BY <2>3, <2>4, <2>5, <2>6, <1>2, QuietStep DEF lockVars
<1>3. ASSUME NEW fd \in Fd, NEW to \in Fd, NEW c \in Cloexec, NEW w \in {"insert", "insertAt"},
             DupGet(t, fd, to, c, w)
      PROVE  LockInv'
  <2> DEFINE d == [Mine(t)[fd] EXCEPT !.cloexec = c]
             a == [arg[t] EXCEPT !.to = to]
  <2>1. table[t] # None /\ pc[t] = "user" /\ Mine(t)[fd] # None /\ Mine(t) \in Table
     BY <1>0, <1>3, RunsFact DEF DupGet
  <2>2. c \in BOOLEAN BY FlagAssumption
  <2>3. Mine(t)[fd] \in Descriptor BY <2>1 DEF Table
  <2>4. d \in Descriptor /\ d.file = Mine(t)[fd].file BY <2>2, <2>3 DEF Descriptor
  <2>5. arg[t] \in [fd : Fd, to : Fd, op : Operation, wait : BOOLEAN] BY <1>0 DEF TypeOK
  <2>6. a \in [fd : Fd, to : Fd, op : Operation, wait : BOOLEAN] BY <2>5
  <2>7. arg' = [arg EXCEPT ![t] = a] BY <1>3 DEF DupGet
  <2>8. /\ held' = [held EXCEPT ![t] = d] /\ pc' = [pc EXCEPT ![t] = w]
        /\ UNCHANGED <<table, entries, inode, rights, lockVars, waitVars, notify, dropping>>
     BY <1>3 DEF DupGet, Become
  <2> HIDE DEF d, a
  <2> QED BY <2>1, <2>4, <2>6, <2>7, <2>8, <1>1
<1>4. ASSUME NEW fd \in Fd, NEW op \in Operation, NEW nb \in NonBlock, Flock(t, fd, op, nb)
      PROVE  LockInv'
  <2> DEFINE a == [NoArg EXCEPT !.fd = fd, !.op = op, !.wait = ~nb /\ op # "Unlock"]
  <2>1. pc[t] = "user" BY <1>0, <1>4, RunsFact DEF Flock
  <2>2. NoArg \in [fd : Fd, to : Fd, op : Operation, wait : BOOLEAN]
     BY MaxFdAssumption DEF NoArg, Operation, Fd
  <2>3. a \in [fd : Fd, to : Fd, op : Operation, wait : BOOLEAN]
    <3> DEFINE wait == ~nb /\ op # "Unlock"
    <3>1. wait \in BOOLEAN BY Zenon
    <3> HIDE DEF wait
    <3>2. [NoArg EXCEPT !.fd = fd, !.op = op, !.wait = wait]
             \in [fd : Fd, to : Fd, op : Operation, wait : BOOLEAN]
       BY <2>2, <3>1
    <3> QED BY <3>2 DEF wait
  <2>4. /\ arg' = [arg EXCEPT ![t] = a] /\ pc' = [pc EXCEPT ![t] = "get"]
        /\ UNCHANGED <<table, entries, inode, rights, held, lockVars, waitVars, notify, dropping>>
     BY <1>4 DEF Flock, Become
  <2> HIDE DEF a
  <2> QED BY <2>1, <2>3, <2>4, <1>2
<1>5. CASE FlockGet(t)
  <2>1. table[t] # None /\ pc[t] = "get" /\ Mine(t) \in Table /\ held[t] = None
     BY <1>0, <1>5, RunsFact DEF FlockGet
  <2>2. arg[t] \in [fd : Fd, to : Fd, op : Operation, wait : BOOLEAN] /\ arg[t].fd \in Fd
     BY <1>0 DEF TypeOK
  <2>3. NoArg \in [fd : Fd, to : Fd, op : Operation, wait : BOOLEAN]
     BY MaxFdAssumption DEF NoArg, Operation, Fd
  <2>4. CASE Mine(t)[arg[t].fd] = None
    <3>1. held' = held BY <1>0, <1>5, <2>1, <2>4 DEF FlockGet, TypeOK
    <3>2. /\ arg' = [arg EXCEPT ![t] = NoArg] /\ pc' = [pc EXCEPT ![t] = "user"]
          /\ UNCHANGED <<table, entries, inode, rights, lockVars, waitVars, notify, dropping>>
       BY <1>5, <2>4 DEF FlockGet, Become
    <3> QED BY <3>1, <3>2, <2>1, <2>3, <1>2
  <2>5. CASE Mine(t)[arg[t].fd] # None
    <3>1. arg' = [arg EXCEPT ![t] = arg[t]] BY <1>0, <1>5, <2>5 DEF FlockGet, TypeOK
    <3>2. /\ held' = [held EXCEPT ![t] = Mine(t)[arg[t].fd]] /\ pc' = [pc EXCEPT ![t] = "flock"]
          /\ UNCHANGED <<table, entries, inode, rights, lockVars, waitVars, notify, dropping>>
       BY <1>5, <2>5 DEF FlockGet, Become
    <3>3. Mine(t)[arg[t].fd] \in Descriptor BY <2>1, <2>2, <2>5 DEF Table
    <3> QED BY <3>1, <3>2, <3>3, <2>1, <2>2, <2>5, <1>1
  <2> QED BY <2>4, <2>5
<1> QED BY <1>3, <1>4, <1>5

Arg == [fd : Fd, to : Fd, op : Operation, wait : BOOLEAN]

\* The types, when the descriptor, the table and the call of one task change and
\* no listener does.
LEMMA CallTypes ==
    ASSUME TypeOK, NEW t \in Task, NEW d \in Descriptor \cup {None}, NEW w \in PC, NEW a \in Arg,
           w # "blocked", pc[t] # "blocked",
           d # None <=> w \in {"insert", "insertAt", "flock"},
           held' = [held EXCEPT ![t] = d], pc' = [pc EXCEPT ![t] = w], arg' = [arg EXCEPT ![t] = a],
           entries' \in [Task -> Table],
           \A k \in Task : (\A u \in Task : table[u] # k) => entries'[k] = entries[k],
           shared' \in [Inode -> SUBSET File], exclusive' \in [Inode -> File \cup {None}],
           rights' \in File \cup {None, NotPassing, Passed},
           notify' \in [Task -> SUBSET Inode], dropping' \in [Task -> SUBSET File],
           UNCHANGED <<table, inode, waitVars>>
    PROVE  TypeOK' /\ SameWaiters
  BY DEF TypeOK, Arg, waitVars, Table, SameWaiters

\* The argument of no call is well typed.
LEMMA NoArgType == NoArg \in Arg
BY MaxFdAssumption DEF NoArg, Arg, Operation, Fd

\* dup, dup2 and dup3 put the descriptor they hold into the table, or find no room.
LEMMA DupActions ==
    ASSUME LockInv, NEW t \in Task, DupInsert(t) \/ DupFull(t)
    PROVE  LockInv'
<1>0. TypeOK BY DEF LockInv
<1>1. table[t] # None /\ table[t] \in Task /\ Mine(t) \in Table /\ held[t] \in Descriptor
      /\ pc[t] \in {"insert", "insertAt"}
   BY <1>0, RunsFact DEF DupInsert, DupFull
<1>2. /\ held' = [held EXCEPT ![t] = None] /\ pc' = [pc EXCEPT ![t] = "user"]
      /\ arg' = [arg EXCEPT ![t] = NoArg] /\ Drops(t)
      /\ UNCHANGED <<table, inode, rights, shared, exclusive, waitVars, notify>>
   BY DEF DupInsert, DupFull, Become, lockVars
<1>3. Handed BY <1>0, <1>2, DropsHanded
<1>4. \A f \in File : Names(held[t], f) => InTask(f) BY DEF InTask
<1>5. \A f \in File : InTask(f)' => InTask(f)
  BY <1>0, <1>2 DEF TypeOK, InTask, Names, waitVars
<1>6. /\ entries' \in [Task -> Table]
      /\ \A k \in Task : (\A u \in Task : table[u] # k) => entries'[k] = entries[k]
      /\ \A f \in File : InTables(f)' => InTables(f) \/ Names(held[t], f)
  <2>1. CASE DupFull(t) BY <2>1, <1>0 DEF DupFull, InTables, TypeOK, Table
  <2>2. CASE DupInsert(t)
    <3>1. PICK fd \in Fd : SetEntries(t, [Mine(t) EXCEPT ![fd] = held[t]])
      BY <1>0, <2>2 DEF TypeOK, DupInsert, LowestFree
    <3> DEFINE new == [Mine(t) EXCEPT ![fd] = held[t]]
    <3>2. new \in Table BY <1>1 DEF Table
    <3>3. \A e \in Fd : new[e] = IF e = fd THEN held[t] ELSE Mine(t)[e] BY <1>1 DEF Table
    <3>4. SetEntries(t, new) BY <3>1
    <3> HIDE DEF new
    <3>5. /\ entries' \in [Task -> Table]
          /\ \A k \in Task : entries'[k] = IF k = table[t] THEN new ELSE entries[k]
          /\ \A f : InTables(f)' => InTables(f) \/ \E e \in Fd : Names(new[e], f)
       BY <1>0, <1>1, <3>2, <3>4, SetEntriesFact
    <3>6. \A f \in File, e \in Fd : Names(new[e], f) => Names(held[t], f) \/ InTables(f)
       BY <1>0, <1>1, <3>3, MineNamed
    <3> QED BY <3>5, <3>6
  <2> QED BY <2>1, <2>2
<1>7. \A f \in File : Referenced(f)' => Referenced(f)
   BY <1>2, <1>4, <1>5, <1>6, ReferencedIs
<1>8. TypeOK' /\ SameWaiters
  <2>1. dropping' \in [Task -> SUBSET File] BY <1>3 DEF Handed
  <2>2. /\ shared' \in [Inode -> SUBSET File] /\ exclusive' \in [Inode -> File \cup {None}]
        /\ rights' \in File \cup {None, NotPassing, Passed} /\ notify' \in [Task -> SUBSET Inode]
     BY <1>0, <1>2 DEF TypeOK
  <2>3. "user" \in PC /\ "user" \notin {"insert", "insertAt", "flock", "blocked"}
        /\ pc[t] # "blocked"
     BY <1>1 DEF PC
  <2> QED BY <1>0, <1>2, <1>6, <2>1, <2>2, <2>3, NoArgType, CallTypes
<1> QED BY <1>2, <1>3, <1>7, <1>8, QuietStep

\* SCM_RIGHTS: a message refers to an open file, and hands it to the receiver.
LEMMA RightsActions ==
    ASSUME LockInv, NEW t \in Task,
           \/ \E fd \in Fd : SendRights(t, fd)
           \/ \E c \in Cloexec : RecvRights(t, c)
           \/ SetReceivedCloexec(t) \/ DropRights(t)
    PROVE  LockInv'
<1>0. TypeOK BY DEF LockInv
<1>t. /\ shared \in [Inode -> SUBSET File] /\ exclusive \in [Inode -> File \cup {None}]
      /\ rights \in File \cup {None, NotPassing, Passed} /\ notify \in [Task -> SUBSET Inode]
      /\ dropping \in [Task -> SUBSET File] /\ entries \in [Task -> Table]
      /\ held = [held EXCEPT ![t] = held[t]] /\ pc = [pc EXCEPT ![t] = pc[t]]
      /\ arg = [arg EXCEPT ![t] = arg[t]] /\ arg[t] \in Arg /\ pc[t] \in PC
   BY <1>0 DEF TypeOK, Table, Arg
<1>1. ASSUME NEW fd \in Fd, SendRights(t, fd) PROVE LockInv'
  <2>1. table[t] # None /\ pc[t] = "user" /\ held[t] = None /\ Mine(t) \in Table
     BY <1>0, <1>1, RunsFact DEF SendRights
  <2>2. /\ Mine(t)[fd] # None /\ rights = None /\ rights' = Mine(t)[fd].file
        /\ UNCHANGED <<table, entries, inode, held, pc, arg, shared, exclusive, waitVars, notify, dropping>>
     BY <1>1 DEF SendRights, lockVars
  <2>3. Mine(t)[fd] \in Descriptor /\ rights' \in File BY <2>1, <2>2 DEF Table, Descriptor
  <2>4. \A f : (InTables(f)' <=> InTables(f)) /\ (InTask(f)' <=> InTask(f))
     BY <2>2 DEF InTables, InTask, waitVars
  <2>5. \A f \in File : rights' = f => Referenced(f)
     BY <1>0, <2>1, <2>2, MineNamed DEF Names
  <2>6. \A f \in File : Referenced(f)' <=> Referenced(f) \/ rights' = f
     BY <2>2, <2>4, NoneAssumption, ReferencedIs
  <2>7. Handed BY <1>0, <2>2, <2>6, KeepsHanded
  <2>8. TypeOK' BY <1>0, <2>2, <2>3 DEF TypeOK, waitVars
  <2>9. SameWaiters BY <2>2 DEF SameWaiters, waitVars
  <2> QED BY <2>2, <2>5, <2>6, <2>7, <2>8, <2>9, QuietStep
<1>2. ASSUME NEW c \in Cloexec, RecvRights(t, c) PROVE LockInv'
  <2>1. /\ table[t] # None /\ table[t] \in Task /\ pc[t] = "user" /\ held[t] = None
        /\ Mine(t) \in Table
     BY <1>0, <1>2, RunsFact DEF RecvRights
  <2>2. PICK fd \in LowestFree(t, 0) :
          /\ SetEntries(t, [Mine(t) EXCEPT ![fd] = [file |-> rights, cloexec |-> FALSE]])
          /\ arg' = [arg EXCEPT ![t].fd = IF c THEN fd ELSE @]
     BY <1>2 DEF RecvRights
  <2>3. fd \in Fd /\ Mine(t)[fd] = None BY DEF LowestFree
  <2>4. /\ rights \in File /\ rights' = Passed
        /\ pc' = [pc EXCEPT ![t] = IF c THEN "received" ELSE "user"]
        /\ UNCHANGED <<table, inode, held, shared, exclusive, waitVars, notify, dropping>>
     BY <1>2 DEF RecvRights, Become, lockVars
  <2> DEFINE d == [file |-> rights, cloexec |-> FALSE]
             new == [Mine(t) EXCEPT ![fd] = d]
             a == [arg[t] EXCEPT !.fd = IF c THEN fd ELSE @]
             w == IF c THEN "received" ELSE "user"
  <2>5. d \in Descriptor /\ d.file = rights BY <2>4 DEF Descriptor
  <2>6. d # None BY <2>5, NoneAssumption
  <2> HIDE DEF d
  <2>7. new \in Table /\ \A e \in Fd : new[e] = IF e = fd THEN d ELSE Mine(t)[e]
     BY <2>1, <2>3, <2>5 DEF Table
  <2>8. SetEntries(t, new) BY <2>2 DEF d
  <2>9. a \in Arg /\ arg' = [arg EXCEPT ![t] = a] BY <1>t, <2>2, <2>3 DEF Arg
  <2>10. w \in PC /\ w \notin {"insert", "insertAt", "flock", "blocked"} BY DEF PC
  <2> HIDE DEF new, a, w
  <2>11. /\ entries' \in [Task -> Table]
         /\ \A k \in Task : entries'[k] = IF k = table[t] THEN new ELSE entries[k]
         /\ \A f : InTables(f)' => InTables(f) \/ \E e \in Fd : Names(new[e], f)
         /\ \A f : /\ InTables(f)
                   /\ \A e \in Fd : Names(Mine(t)[e], f) => \E e2 \in Fd : Names(new[e2], f)
                   => InTables(f)'
     BY <1>0, <2>1, <2>7, <2>8, SetEntriesFact
  <2>12. \A f \in File : Referenced(f)' => Referenced(f)
    <3>1. \A f \in File, e \in Fd : Names(new[e], f) => rights = f \/ InTables(f)
       BY <1>0, <2>1, <2>5, <2>7, MineNamed DEF Names
    <3>2. \A f : InTask(f)' <=> InTask(f) BY <2>4 DEF InTask, waitVars
    <3>3. ASSUME NEW f \in File, rights' = f PROVE Referenced(f)
       BY <3>3, <2>4, TagsAssumption
    <3> QED BY <3>1, <3>2, <3>3, <2>11, ReferencedIs
  <2>13. \A f \in File : Referenced(f) => Referenced(f)'
    <3>1. \A f : InTask(f)' <=> InTask(f) BY <2>4 DEF InTask, waitVars
    <3>2. \A f \in File : InTables(f) => InTables(f)'
       BY <2>3, <2>7, <2>11 DEF Names
    <3>3. Names(entries'[table[t]][fd], rights) BY <2>1, <2>3, <2>5, <2>6, <2>7, <2>11 DEF Names
    <3>4. \A f \in File : f = rights => InTables(f)' BY <3>3, <2>1, <2>3 DEF InTables, Names
    <3> QED BY <3>1, <3>2, <3>4, ReferencedIs
  <2>14. Handed BY <1>0, <2>4, <2>13, KeepsHanded
  <2>15. TypeOK' /\ SameWaiters
    BY <2>4, <2>1, <2>11, <1>t, <1>0, <2>9, <2>10, CallTypes DEF w
  <2> QED BY <2>4, <2>12, <2>14, <2>15, QuietStep
<1>3. CASE SetReceivedCloexec(t)
  <2> DEFINE fd == arg[t].fd
  <2>1. /\ table[t] # None /\ table[t] \in Task /\ pc[t] = "received" /\ held[t] = None
        /\ Mine(t) \in Table /\ fd \in Fd
     BY <1>0, <1>t, <1>3, RunsFact DEF SetReceivedCloexec, Arg
  <2>2. /\ arg' = [arg EXCEPT ![t] = NoArg] /\ pc' = [pc EXCEPT ![t] = "user"]
        /\ UNCHANGED <<table, inode, rights, held, shared, exclusive, waitVars, notify, dropping>>
     BY <1>3 DEF SetReceivedCloexec, Become, lockVars
  <2>3. /\ entries' \in [Task -> Table]
        /\ \A k \in Task : (\A u \in Task : table[u] # k) => entries'[k] = entries[k]
        /\ \A f \in File : InTables(f)' <=> InTables(f)
    <3>1. CASE Mine(t)[fd] = None
      BY <1>3, <3>1, <1>t DEF SetReceivedCloexec, InTables
    <3>2. CASE Mine(t)[fd] # None
      <4> DEFINE d == [Mine(t)[fd] EXCEPT !.cloexec = TRUE]
                 new == [Mine(t) EXCEPT ![fd] = d]
      <4>1. Mine(t)[fd] \in Descriptor BY <2>1, <3>2 DEF Table
      <4>2. d \in Descriptor /\ d.file = Mine(t)[fd].file BY <4>1 DEF Descriptor
      <4>3. d # None BY <4>2, NoneAssumption
      <4>4. SetEntries(t, new) BY <1>3, <3>2 DEF SetReceivedCloexec
      <4> HIDE DEF fd, d
      <4>5. new \in Table /\ \A e \in Fd : new[e] = IF e = fd THEN d ELSE Mine(t)[e]
         BY <2>1, <4>2 DEF Table
      <4> HIDE DEF new
      <4>6. \A f : \A e \in Fd : Names(new[e], f) <=> Names(Mine(t)[e], f)
         BY <4>2, <4>3, <4>5, <3>2 DEF Names
      <4>7. /\ entries' \in [Task -> Table]
            /\ \A k \in Task : entries'[k] = IF k = table[t] THEN new ELSE entries[k]
            /\ \A f : InTables(f)' => InTables(f) \/ \E e \in Fd : Names(new[e], f)
            /\ \A f : /\ InTables(f)
                      /\ \A e \in Fd : Names(Mine(t)[e], f) => \E e2 \in Fd : Names(new[e2], f)
                      => InTables(f)'
         BY <1>0, <2>1, <4>4, <4>5, SetEntriesFact
      <4>8. \A f : \A e \in Fd : Names(new[e], f) => InTables(f) BY <1>0, <2>1, <4>6, MineNamed
      <4>9. \A f \in File : InTables(f)' => InTables(f) BY <4>7, <4>8
      <4>10. \A f \in File : InTables(f) => InTables(f)' BY <4>6, <4>7
      <4>11. \A k \in Task : (\A u \in Task : table[u] # k) => entries'[k] = entries[k]
         BY <4>7, <2>1
      <4> QED BY <4>7, <4>9, <4>10, <4>11
    <3> QED BY <3>1, <3>2
  <2>4. \A f : InTask(f)' <=> InTask(f) BY <2>2 DEF InTask, waitVars
  <2>5. \A f \in File : Referenced(f)' <=> Referenced(f) BY <2>2, <2>3, <2>4, ReferencedIs
  <2>6. Handed BY <1>0, <2>2, <2>5, KeepsHanded
  <2>7. TypeOK' /\ SameWaiters
    <3>1. "user" \in PC /\ "user" \notin {"insert", "insertAt", "flock", "blocked"}
          /\ pc[t] # "blocked"
       BY <2>1 DEF PC
    <3>2. held' = [held EXCEPT ![t] = None] BY <1>t, <2>1, <2>2
    <3>3. /\ shared' \in [Inode -> SUBSET File] /\ exclusive' \in [Inode -> File \cup {None}]
          /\ rights' \in File \cup {None, NotPassing, Passed} /\ notify' \in [Task -> SUBSET Inode]
          /\ dropping' \in [Task -> SUBSET File] /\ UNCHANGED <<table, inode, waitVars>>
       BY <1>t, <2>2
    <3> HIDE DEF fd
    <3> QED BY <1>0, <2>2, <2>3, <3>1, <3>2, <3>3, NoArgType, CallTypes
  <2> QED BY <2>2, <2>5, <2>6, <2>7, QuietStep
<1>4. CASE DropRights(t)
  <2>1. /\ rights \in File /\ rights' = Passed /\ Drops(t)
        /\ UNCHANGED <<table, entries, inode, held, pc, arg, shared, exclusive, waitVars, notify>>
     BY <1>4 DEF DropRights, lockVars
  <2>2. Handed BY <1>0, <2>1, DropsHanded
  <2>3. \A f : (InTables(f)' <=> InTables(f)) /\ (InTask(f)' <=> InTask(f))
     BY <2>1 DEF InTables, InTask, waitVars
  <2>4. \A f \in File : Referenced(f)' => Referenced(f)
     BY <2>1, <2>3, TagsAssumption, ReferencedIs
  <2>5. dropping' \in [Task -> SUBSET File] BY <2>2 DEF Handed
  <2>6. TypeOK' BY <1>0, <2>1, <2>5 DEF TypeOK, waitVars
  <2>7. SameWaiters BY <2>1 DEF SameWaiters, waitVars
  <2> QED BY <2>1, <2>2, <2>4, <2>6, <2>7, QuietStep
<1> QED BY <1>1, <1>2, <1>3, <1>4

\* clone with and without CLONE_FILES, and exit.
LEMMA TaskActions ==
    ASSUME LockInv, NEW t \in Task,
           \/ \E child \in Task \ {t} : CloneFiles(t, child) \/ Fork(t, child)
           \/ Exit(t)
    PROVE  LockInv'
<1>0. TypeOK BY DEF LockInv
<1>1. table[t] # None /\ table[t] \in Task /\ Mine(t) \in Table /\ pc[t] = "user"
   BY <1>0, RunsFact DEF CloneFiles, Fork, Exit
<1>2. table \in [Task -> Task \cup {None}] /\ entries \in [Task -> Table]
   BY <1>0 DEF TypeOK, Table
<1>3. \A k \in Task : (\A u \in Task : table[u] # k) => entries[k] = Empty BY <1>0 DEF TypeOK
<1>4. Empty \in Table /\ \A fd \in Fd : Empty[fd] = None BY DEF Empty, Table
<1>5. UNCHANGED <<inode, rights, held, pc, arg, shared, exclusive, waitVars, notify>>
   BY DEF CloneFiles, Fork, Exit, lockVars
<1>6. SameWaiters BY <1>5 DEF SameWaiters, waitVars
<1>7. \A f : InTask(f)' <=> InTask(f) BY <1>5 DEF InTask, waitVars
<1>8. ASSUME NEW child \in Task \ {t}, CloneFiles(t, child) PROVE LockInv'
  <2>1. /\ table' = [table EXCEPT ![child] = table[t]] /\ table[child] = None
        /\ entries' = entries /\ dropping' = dropping
     BY <1>8 DEF CloneFiles
  <2>2. \A k \in Task : (\A u \in Task : table'[u] # k) => entries'[k] = Empty
     BY <2>1, <1>1, <1>2, <1>3, NoneAssumption
  <2>3. table' \in [Task -> Task \cup {None}] BY <2>1, <1>1, <1>2
  <2>4. TypeOK' BY <1>0, <1>5, <2>1, <2>2, <2>3 DEF TypeOK, waitVars
  <2>5. \A f : InTables(f)' <=> InTables(f) BY <2>1 DEF InTables
  <2>6. \A f \in File : Referenced(f)' <=> Referenced(f) BY <1>5, <1>7, <2>5, ReferencedIs
  <2>7. Handed BY <1>0, <2>1, <2>6, KeepsHanded
  <2> QED BY <1>5, <1>6, <2>4, <2>6, <2>7, QuietStep
<1>9. ASSUME NEW child \in Task \ {t}, Fork(t, child) PROVE LockInv'
  <2>1. PICK k \in Task : /\ \A u \in Task : table[u] # k
                          /\ table' = [table EXCEPT ![child] = k]
                          /\ entries' = [entries EXCEPT ![k] = Mine(t)]
     BY <1>9 DEF Fork
  <2>2. table[child] = None /\ dropping' = dropping BY <1>9 DEF Fork
  <2>3. \A u \in Task : table'[u] = IF u = child THEN k ELSE table[u] BY <2>1, <1>2
  <2>4. \A j \in Task : entries'[j] = IF j = k THEN Mine(t) ELSE entries[j] BY <2>1, <1>2
  <2>5. \A j \in Task : (\A u \in Task : table'[u] # j) => entries'[j] = Empty
     BY <2>2, <2>3, <2>4, <1>3, NoneAssumption
  <2>6. table' \in [Task -> Task \cup {None}] /\ entries' \in [Task -> [Fd -> Descriptor \cup {None}]]
     BY <2>1, <1>1, <1>2 DEF Table
  <2>7. TypeOK' BY <1>0, <1>5, <2>2, <2>5, <2>6 DEF TypeOK, waitVars
  <2>8. \A f : InTables(f)' => InTables(f)
    BY <1>0, <1>1, MineType, <2>4 DEF InTables
  <2>9. \A f : InTables(f) => InTables(f)'
    BY <2>1, <1>3, <1>4, <2>4 DEF Names, InTables
  <2>10. \A f \in File : Referenced(f)' <=> Referenced(f) BY <1>5, <1>7, <2>8, <2>9, ReferencedIs
  <2>11. Handed BY <1>0, <2>2, <2>10, KeepsHanded
  <2> QED BY <1>5, <1>6, <2>7, <2>10, <2>11, QuietStep
<1>10. CASE Exit(t)
  <2>1. /\ table' = [table EXCEPT ![t] = None] /\ Drops(t)
        /\ entries' = IF \E u \in Task \ {t} : table[u] = table[t] THEN entries
                      ELSE [entries EXCEPT ![table[t]] = Empty]
     BY <1>10 DEF Exit
  <2>2. \A k \in Task : entries'[k] = entries[k] \/ entries'[k] = Empty BY <2>1, <1>1, <1>2
  <2>3. \A k \in Task : (\A u \in Task : table'[u] # k) => entries'[k] = Empty
    BY <2>1, <1>2, <1>1, <2>2, <1>3
  <2>4. table' \in [Task -> Task \cup {None}] BY <2>1, <1>2
  <2>5. entries' \in [Task -> [Fd -> Descriptor \cup {None}]] BY <2>1, <1>1, <1>2, <1>4 DEF Table
  <2>6. Handed BY <1>0, <2>1, DropsHanded
  <2>7. dropping' \in [Task -> SUBSET File] BY <2>6 DEF Handed
  <2>8. TypeOK' BY <1>0, <1>5, <2>3, <2>4, <2>5, <2>7 DEF TypeOK, waitVars
  <2>9. \A f : InTables(f)' => InTables(f) BY <2>2, <1>4 DEF InTables, Names
  <2>10. \A f \in File : Referenced(f)' => Referenced(f) BY <1>5, <1>7, <2>9, ReferencedIs
  <2> QED BY <1>5, <1>6, <2>6, <2>8, <2>10, QuietStep
<1> QED BY <1>8, <1>9, <1>10

\* Wake and Interrupt: the listener goes, and with it perhaps the last reference.
LEMMA WakeActions ==
    ASSUME LockInv, NEW t \in Task, Wake(t) \/ Interrupt(t)
    PROVE  LockInv'
<1>0. TypeOK BY DEF LockInv
<1>1. /\ UNCHANGED <<table, entries, inode, rights, held, shared, exclusive, notify>> /\ Drops(t)
      /\ \A u \in signalled : u = t \/ u \in signalled'
      /\ signalled' \subseteq signalled
   BY DEF Wake, Interrupt, lockVars
<1>2. Handed BY <1>0, <1>1, DropsHanded
<1>3. waiter \in [Task -> File \cup {None}] /\ pc \in [Task -> PC] /\ arg \in [Task -> Arg]
      /\ raced \subseteq {u \in Task : pc[u] = "blocked"}
   BY <1>0 DEF TypeOK, Arg
<1>4. /\ \A u \in Task \ {t} : /\ waiter'[u] = waiter[u] /\ pc'[u] = pc[u] /\ arg'[u] = arg[u]
                               /\ u \in raced' <=> u \in raced
      /\ waiter'[t] = None /\ t \notin raced'
      /\ raced' \subseteq raced
      /\ waiter' \in [Task -> File \cup {None}] /\ pc' \in [Task -> PC] /\ arg' \in [Task -> Arg]
      /\ held[t] # None <=> pc'[t] \in {"insert", "insertAt", "flock"}
  <2>1. CASE Wake(t) /\ pc[t] = "blocked"
     BY <2>1, <1>0, <1>3 DEF Wake, Become, Unregister, TypeOK, PC
  <2>2. CASE Wake(t) /\ pc[t] # "blocked"
     BY <2>2, <1>0, <1>3 DEF Wake, TypeOK
  <2>3. CASE Interrupt(t)
    <3>1. pc[t] = "blocked" BY <2>3 DEF Interrupt, Runs
    <3> QED BY <2>3, <3>1, <1>0, <1>3, NoArgType DEF Interrupt, Become, Unregister, TypeOK, PC
  <2> QED BY <2>1, <2>2, <2>3
<1>5. TypeOK'
  BY <1>3, <1>4, <1>0, <1>1, <1>2 DEF TypeOK, Handed, Arg
<1>6. SameWaiters BY <1>1, <1>4 DEF SameWaiters
<1>7. \A f : InTables(f)' <=> InTables(f) BY <1>1 DEF InTables
<1>8. \A f \in File : InTask(f)' => InTask(f) BY <1>1, <1>4, NoneAssumption DEF InTask
<1>9. \A f \in File : Referenced(f)' => Referenced(f) BY <1>1, <1>7, <1>8, ReferencedIs
<1> QED BY <1>1, <1>2, <1>5, <1>6, <1>9, QuietStep

\* open: the new open file is nobody's yet, so it owns and awaits no lock.
LEMMA OpenAction ==
    ASSUME LockInv, NEW t \in Task, NEW f \in File, NEW i \in Inode, NEW c \in Cloexec,
           Open(t, f, i, c)
    PROVE  LockInv'
<1>0. TypeOK BY DEF LockInv
<1>1. table[t] # None /\ table[t] \in Task /\ Mine(t) \in Table
   BY <1>0, RunsFact DEF Open
<1>2. /\ inode' = [inode EXCEPT ![f] = i] /\ ~Referenced(f) /\ \A u \in Task : f \notin dropping[u]
      /\ UNCHANGED <<table, rights, held, pc, arg, shared, exclusive, waitVars, notify, dropping>>
   BY DEF Open, Fresh, lockVars
<1>3. PICK fd \in LowestFree(t, 0) :
         SetEntries(t, [Mine(t) EXCEPT ![fd] = [file |-> f, cloexec |-> c]])
   BY DEF Open
<1>4. fd \in Fd /\ Mine(t)[fd] = None BY DEF LowestFree
<1> DEFINE d == [file |-> f, cloexec |-> c]
           new == [Mine(t) EXCEPT ![fd] = d]
<1>5. d \in Descriptor /\ d.file = f BY FlagAssumption DEF Descriptor
<1>6. d # None BY <1>5, NoneAssumption
<1>7. SetEntries(t, new) BY <1>3
<1> HIDE DEF d
<1>8. new \in Table /\ \A e \in Fd : new[e] = IF e = fd THEN d ELSE Mine(t)[e]
   BY <1>1, <1>4, <1>5 DEF Table
<1> HIDE DEF new
<1>9. /\ entries' \in [Task -> Table]
      /\ \A k \in Task : entries'[k] = IF k = table[t] THEN new ELSE entries[k]
      /\ \A g : InTables(g)' => InTables(g) \/ \E e \in Fd : Names(new[e], g)
      /\ \A g : /\ InTables(g)
                /\ \A e \in Fd : Names(Mine(t)[e], g) => \E e2 \in Fd : Names(new[e2], g)
                => InTables(g)'
   BY <1>0, <1>1, <1>7, <1>8, SetEntriesFact
<1>10. \A g : InTask(g)' <=> InTask(g) BY <1>2 DEF InTask, waitVars
<1>11. \A g \in File : Referenced(g) => Referenced(g)'
  BY <1>4, <1>8, <1>9, <1>2, <1>10, ReferencedIs DEF Names
<1>12. \A g \in File : Referenced(g)' => Referenced(g) \/ g = f
  <2>1. \A g : \A e \in Fd : Names(new[e], g) => g = f \/ InTables(g)
     BY <1>0, <1>1, <1>5, <1>8, MineNamed DEF Names
  <2> QED BY <1>2, <1>9, <1>10, <2>1, ReferencedIs
<1>13. \A g \in File \ {f} : inode'[g] = inode[g] BY <1>0, <1>2 DEF TypeOK
<1>14. TypeOK'
  BY <1>0, <1>1, <1>2, <1>9 DEF TypeOK, Table, waitVars
<1>15. FlockExclusion' BY <1>2 DEF LockInv, FlockExclusion
<1>16. OwnersLive'
  BY <1>0, <1>2, <1>11, <1>13 DEF Owners, TypeOK, LockInv, OwnersLive
<1>17. NoLostUnlock'
  <2>1. ASSUME NEW u \in Task, waiter'[u] # None, u \notin raced'
        PROVE  \/ Conflicts(waiter[u], arg[u].op)'
               \/ u \in signalled'
               \/ \E v \in Task : inode'[waiter'[u]] \in notify'[v]
    <3>1. waiter'[u] = waiter[u] /\ raced' = raced /\ signalled' = signalled /\ arg' = arg
       BY <1>2 DEF waitVars
    <3>2. Referenced(waiter[u]) /\ waiter[u] \in File BY <1>0, <2>1, <3>1 DEF Referenced, TypeOK
    <3>3. inode'[waiter[u]] = inode[waiter[u]] BY <3>2, <1>2, <1>13
    <3>4. \/ Conflicts(waiter[u], arg[u].op) \/ u \in signalled
          \/ \E v \in Task : inode[waiter[u]] \in notify[v]
       BY <2>1, <3>1 DEF LockInv, NoLostUnlock
    <3>5. Conflicts(waiter[u], arg[u].op) => Conflicts(waiter[u], arg[u].op)'
       BY <3>1, <3>3, <1>2 DEF Conflicts
    <3> QED BY <3>1, <3>3, <3>4, <3>5, <1>2
  <2> QED BY <2>1 DEF NoLostUnlock
<1>18. DroppedGone' BY <1>0, <1>2, <1>12 DEF LockInv, DroppedGone, TypeOK
<1> QED BY <1>14, <1>15, <1>16, <1>17, <1>18 DEF LockInv

\* Inode::flock changes the locks of one inode, and of one owner there.
LEMMA LockSet ==
    ASSUME LockInv, NEW f \in File, NEW op \in Operation, SetLock(f, op)
    PROVE  /\ shared' \in [Inode -> SUBSET File] /\ exclusive' \in [Inode -> File \cup {None}]
           /\ \A j \in Inode \ {inode[f]} : shared'[j] = shared[j] /\ exclusive'[j] = exclusive[j]
           /\ \A j \in Inode : \A g \in Owners(j)' :
                 \/ g = f /\ j = inode[f] /\ op # "Unlock"
                 \/ g \in Owners(j) /\ (j = inode[f] => g # f)
           /\ ~Conflicts(f, op) =>
                 /\ FlockExclusion'
                 /\ \A j \in Inode : \A g \in Owners(j) :
                       g \in Owners(j)' \/ (g = f /\ op = "Unlock")
<1>0. TypeOK /\ FlockExclusion BY DEF LockInv
<1>1. /\ shared \in [Inode -> SUBSET File] /\ exclusive \in [Inode -> File \cup {None}]
      /\ inode[f] \in Inode
   BY <1>0 DEF TypeOK
<1>2. /\ shared'[inode[f]] = IF op = "Shared" THEN shared[inode[f]] \cup {f}
                             ELSE shared[inode[f]] \ {f}
      /\ exclusive'[inode[f]] = IF op = "Exclusive" THEN f
                                ELSE IF exclusive[inode[f]] = f THEN None ELSE exclusive[inode[f]]
   BY <1>1 DEF SetLock
<1>3. /\ shared' \in [Inode -> SUBSET File] /\ exclusive' \in [Inode -> File \cup {None}]
      /\ \A j \in Inode \ {inode[f]} : shared'[j] = shared[j] /\ exclusive'[j] = exclusive[j]
   BY <1>1 DEF SetLock
<1>4. \A j \in Inode : /\ \A g : g \in Owners(j)' <=> g \in shared'[j] \/ (g = exclusive'[j] /\ g # None)
                       /\ \A g : g \in Owners(j) <=> g \in shared[j] \/ (g = exclusive[j] /\ g # None)
   BY DEF Owners
<1>5. \A j \in Inode : \A g \in Owners(j)' :
         \/ g = f /\ j = inode[f] /\ op # "Unlock"
         \/ g \in Owners(j) /\ (j = inode[f] => g # f)
  BY <1>2, <1>4, NoneAssumption, <1>3 DEF Operation
<1>6. ASSUME ~Conflicts(f, op) PROVE FlockExclusion'
  <2>1. ASSUME NEW j \in Inode, exclusive'[j] # None PROVE shared'[j] = {}
    <3>1. CASE j # inode[f] BY <3>1, <2>1, <1>0, <1>3 DEF FlockExclusion
    <3>2. CASE j = inode[f]
       BY <3>2, <2>1, <1>0, <1>1, <1>2, <1>6, NoneAssumption DEF FlockExclusion, Conflicts, Operation
    <3> QED BY <3>1, <3>2
  <2> QED BY <2>1 DEF FlockExclusion
<1>7. ASSUME ~Conflicts(f, op), NEW j \in Inode, NEW g \in Owners(j)
      PROVE  g \in Owners(j)' \/ (g = f /\ op = "Unlock")
  <2>1. CASE j # inode[f] BY <2>1, <1>3, <1>4
  <2>2. CASE j = inode[f]
     BY <2>2, <1>0, <1>1, <1>2, <1>4, <1>7, NoneAssumption DEF FlockExclusion, Conflicts, Operation
  <2> QED BY <2>1, <2>2
<1> QED BY <1>3, <1>5, <1>6, <1>7

\* Whoever changes the locks of an inode owes its waiters a notification.
LEMMA NotifiesWaiters ==
    ASSUME LockInv, NEW t \in Task, NEW f \in File, NEW op \in Operation, SetLock(f, op),
           Notifies(t, f), UNCHANGED inode, SameWaiters
    PROVE  NoLostUnlock' /\ notify' \in [Task -> SUBSET Inode]
<1>0. TypeOK BY DEF LockInv
<1>1. /\ \A u \in Task : notify[u] \subseteq notify'[u]
      /\ MustNotify(f) => inode[f] \in notify'[t]
      /\ notify' \in [Task -> SUBSET Inode]
  BY <1>0 DEF TypeOK, Notifies
<1>2. \A j \in Inode : \/ shared'[j] = shared[j] /\ exclusive'[j] = exclusive[j]
                       \/ j = inode[f] /\ MustNotify(f)
   BY LockSet DEF MustNotify
<1>3. ASSUME NEW u \in Task, waiter'[u] # None, u \notin raced'
      PROVE  \/ Conflicts(waiter[u], arg[u].op)'
             \/ u \in signalled'
             \/ \E v \in Task : inode'[waiter'[u]] \in notify'[v]
  <2>1. /\ waiter[u] = waiter'[u] /\ arg'[u].op = arg[u].op /\ u \notin raced
        /\ u \in signalled => u \in signalled'
     BY <1>3 DEF SameWaiters
  <2>2. \/ Conflicts(waiter[u], arg[u].op) \/ u \in signalled
        \/ \E v \in Task : inode[waiter[u]] \in notify[v]
     BY <1>3, <2>1 DEF LockInv, NoLostUnlock
  <2>3. inode[waiter[u]] \in Inode BY <1>0, <1>3, <2>1 DEF TypeOK
  <2>4. CASE inode[waiter[u]] = inode[f] /\ MustNotify(f) BY <2>4, <2>1, <1>1
  <2>5. CASE /\ shared'[inode[waiter[u]]] = shared[inode[waiter[u]]]
             /\ exclusive'[inode[waiter[u]]] = exclusive[inode[waiter[u]]]
    BY <2>1, <2>5, <2>2, <1>1 DEF Conflicts
  <2> QED BY <2>3, <2>4, <2>5, <1>2
<1> QED BY <1>1, <1>3 DEF NoLostUnlock

\* flock: the call takes, converts or releases the lock, or finds it taken; the
\* descriptor it had cloned is dropped.
LEMMA TryAction == ASSUME LockInv, NEW t \in Task, FlockTry(t) PROVE LockInv'
<1>0. TypeOK BY DEF LockInv
<1> DEFINE f == held[t].file
           op == arg[t].op
<1>1. /\ table[t] # None /\ pc[t] = "flock" /\ held[t] \in Descriptor /\ held[t] # None
   BY <1>0, RunsFact, NoneAssumption DEF FlockTry
<1>2. f \in File /\ op \in Operation BY <1>0, <1>1 DEF TypeOK, Descriptor
<1>3. /\ held' = [held EXCEPT ![t] = None] /\ Drops(t)
      /\ UNCHANGED <<table, entries, inode, rights, waitVars>>
   BY DEF FlockTry
<1>4. Handed BY <1>0, <1>3, DropsHanded
<1>5. \A g \in File : Referenced(g)' => Referenced(g)
  BY <1>0, <1>3, ReferencedIs DEF TypeOK, InTask, Names, waitVars, InTables
<1>6. Referenced(f) BY <1>1 DEF Referenced
<1>7. /\ entries' \in [Task -> Table]
      /\ \A k \in Task : (\A u \in Task : table[u] # k) => entries'[k] = entries[k]
      /\ rights' \in File \cup {None, NotPassing, Passed}
      /\ dropping' \in [Task -> SUBSET File] /\ pc[t] # "blocked"
   BY <1>0, <1>1, <1>3, <1>4 DEF TypeOK, Table, Handed
<1>8. "user" \in PC /\ "again" \in PC /\ {"user", "again"} \cap {"insert", "insertAt", "flock", "blocked"} = {}
   BY DEF PC
<1>9. arg[t] \in Arg /\ arg = [arg EXCEPT ![t] = arg[t]] BY <1>0 DEF TypeOK, Arg
<1> HIDE DEF f, op
<1>10. CASE /\ ~Conflicts(f, op) /\ SetLock(f, op) /\ Notifies(t, f) /\ Become(t, "user")
            /\ arg' = [arg EXCEPT ![t] = NoArg]
  <2>1. /\ shared' \in [Inode -> SUBSET File] /\ exclusive' \in [Inode -> File \cup {None}]
        /\ FlockExclusion'
        /\ \A j \in Inode : \A g \in Owners(j)' :
              (g = f /\ j = inode[f] /\ op # "Unlock") \/ g \in Owners(j)
     BY <1>2, <1>10, LockSet
  <2>2. pc' = [pc EXCEPT ![t] = "user"] BY <1>10 DEF Become
  <2>3. notify' \in [Task -> SUBSET Inode]
     BY <1>0, <1>2, <1>10 DEF Notifies, TypeOK
  <2>4. TypeOK' /\ SameWaiters
    <3>1. "user" \in PC /\ "user" \notin {"insert", "insertAt", "flock", "blocked"} BY <1>8
    <3> QED BY <1>0, <1>3, <1>7, <1>10, <2>1, <2>2, <2>3, <3>1, NoArgType, CallTypes
  <2>5. NoLostUnlock' BY <1>2, <1>3, <1>10, <2>4, NotifiesWaiters
  <2>6. OwnersLive'
    BY <2>1, <1>6, <1>3, <1>4 DEF Owners, LockInv, OwnersLive, Handed
  <2>7. DroppedGone'
    BY <1>4, <1>7, <1>5 DEF Handed, LockInv, DroppedGone
  <2> QED BY <2>1, <2>4, <2>5, <2>6, <2>7 DEF LockInv
<1>11. CASE /\ Become(t, IF arg[t].wait THEN "again" ELSE "user")
            /\ arg' = IF arg[t].wait THEN arg ELSE [arg EXCEPT ![t] = NoArg]
            /\ UNCHANGED <<lockVars, notify>>
  <2> DEFINE w == IF arg[t].wait THEN "again" ELSE "user"
             a == IF arg[t].wait THEN arg[t] ELSE NoArg
  <2>1. pc' = [pc EXCEPT ![t] = w] BY <1>11 DEF Become
  <2>2. a \in Arg /\ arg' = [arg EXCEPT ![t] = a] BY <1>9, <1>11, NoArgType
  <2>3. w \in PC /\ w \notin {"insert", "insertAt", "flock", "blocked"} BY <1>8
  <2>4. /\ shared' \in [Inode -> SUBSET File] /\ exclusive' \in [Inode -> File \cup {None}]
        /\ notify' \in [Task -> SUBSET Inode] /\ UNCHANGED <<shared, exclusive, notify>>
     BY <1>0, <1>11 DEF TypeOK, lockVars
  <2> HIDE DEF w, a
  <2>5. TypeOK' /\ SameWaiters
     BY <1>0, <1>3, <1>7, <2>1, <2>2, <2>3, <2>4, CallTypes
  <2> QED BY <1>3, <1>4, <1>5, <2>4, <2>5, QuietStep
<1> QED BY <1>10, <1>11 DEF FlockTry, f, op

\* Drop for OpenFileDescription: nothing refers to the file any more; its lock goes.
LEMMA DropAction ==
    ASSUME LockInv, NEW t \in Task, NEW f \in File, DropFile(t, f) PROVE LockInv'
<1>0. TypeOK BY DEF LockInv
<1>1. /\ f \in dropping[t] /\ SetLock(f, "Unlock") /\ Notifies(t, f)
      /\ dropping' = [dropping EXCEPT ![t] = @ \ {f}]
      /\ UNCHANGED <<table, entries, inode, rights, held, pc, arg, waitVars>>
   BY DEF DropFile
<1>2. "Unlock" \in Operation /\ ~Conflicts(f, "Unlock") BY DEF Operation, Conflicts
<1>3. /\ shared' \in [Inode -> SUBSET File] /\ exclusive' \in [Inode -> File \cup {None}]
      /\ FlockExclusion'
      /\ \A j \in Inode : \A g \in Owners(j)' : g \in Owners(j) /\ (j = inode[f] => g # f)
   BY <1>1, <1>2, LockSet
<1>4. SameWaiters BY <1>1 DEF SameWaiters, waitVars
<1>5. NoLostUnlock' /\ notify' \in [Task -> SUBSET Inode]
   BY <1>1, <1>2, <1>4, NotifiesWaiters
<1>6. \A g : Referenced(g)' <=> Referenced(g) BY <1>1 DEF Referenced, waitVars
<1>7. \A u \in Task : dropping'[u] = IF u = t THEN dropping[u] \ {f} ELSE dropping[u]
   BY <1>0, <1>1 DEF TypeOK
<1>8. TypeOK'
  BY <1>0, <1>1, <1>3, <1>5 DEF TypeOK, waitVars
<1>9. OwnersLive'
  BY <1>3, <1>1, <1>6, <1>7 DEF LockInv, OwnersLive
<1>10. DroppedGone' BY <1>6, <1>7 DEF LockInv, DroppedGone
<1> QED BY <1>3, <1>5, <1>8, <1>9, <1>10 DEF LockInv

\* requeue_process: a listener that is not registered in vain has a lock to wait for.
LEMMA BlockAction == ASSUME LockInv, NEW t \in Task, Block(t) PROVE LockInv'
<1>0. TypeOK BY DEF LockInv
<1> DEFINE d == Mine(t)[arg[t].fd]
           w == IF d = None THEN None ELSE d.file
<1>1. /\ table[t] # None /\ Mine(t) \in Table /\ pc[t] = "again" /\ held[t] = None
      /\ waiter[t] = None /\ t \notin raced
   BY <1>0, RunsFact DEF Block
<1>2. arg[t].fd \in Fd BY <1>0 DEF TypeOK
<1>3. d \in Descriptor \cup {None} BY <1>1, <1>2 DEF Table
<1>4. w \in File \cup {None} BY <1>3 DEF Descriptor
<1>5. /\ waiter' = [waiter EXCEPT ![t] = w]
      /\ raced' = IF d # None /\ Conflicts(d.file, arg[t].op) THEN raced ELSE raced \cup {t}
      /\ pc' = [pc EXCEPT ![t] = "blocked"]
      /\ UNCHANGED <<table, entries, inode, rights, held, arg, shared, exclusive, notify, dropping,
                     signalled>>
   BY DEF Block, Become, lockVars
<1>6. w # None => Referenced(w)
   BY <1>0, <1>1, <1>2, MineNamed DEF Names
<1>7. w # None /\ t \notin raced' => Conflicts(w, arg[t].op) BY <1>5
<1>8. raced \subseteq raced' /\ raced' \subseteq raced \cup {t} BY <1>5
<1> HIDE DEF d, w
<1>9. \A u \in Task : /\ waiter'[u] = IF u = t THEN w ELSE waiter[u]
                      /\ pc'[u] = IF u = t THEN "blocked" ELSE pc[u]
   BY <1>0, <1>5 DEF TypeOK
<1>10. TypeOK'
  BY <1>0, <1>4, <1>5, <1>8, <1>9, <1>1 DEF TypeOK, PC
<1>11. \A g : InTables(g)' <=> InTables(g) BY <1>5 DEF InTables
<1>12. \A g \in File : InTask(g)' => InTask(g) \/ g = w BY <1>5, <1>9 DEF InTask
<1>13. \A g \in File : InTask(g) => InTask(g)' BY <1>1, <1>5, <1>9, NoneAssumption DEF InTask
<1>14. \A g \in File : Referenced(g)' => Referenced(g)
   BY <1>5, <1>6, <1>11, <1>12, NoneAssumption, ReferencedIs
<1>15. \A g \in File : Referenced(g) => Referenced(g)' BY <1>5, <1>11, <1>13, ReferencedIs
<1>16. Handed BY <1>0, <1>5, <1>15, KeepsHanded
<1>17. FlockExclusion' /\ OwnersLive' /\ DroppedGone' BY <1>5, <1>10, <1>14, <1>16, QuietLocks
<1>18. NoLostUnlock'
  <2>1. ASSUME NEW u \in Task, waiter'[u] # None, u \notin raced'
        PROVE  \/ Conflicts(waiter[u], arg[u].op)'
               \/ u \in signalled'
               \/ \E v \in Task : inode'[waiter'[u]] \in notify'[v]
    BY <2>1, <1>7, <1>9, <1>5, <1>8 DEF Conflicts, LockInv, NoLostUnlock
  <2> QED BY <2>1 DEF NoLostUnlock
<1> QED BY <1>10, <1>17, <1>18 DEF LockInv

\* flock_waiters.notify: every listener of the inode reaches the wait queue.
LEMMA NotifyAction ==
    ASSUME LockInv, NEW t \in Task, NEW i \in Inode, Notify(t, i) PROVE LockInv'
  BY KeepsHanded, QuietLocks DEF LockInv, Notify, lockVars, TypeOK, Referenced, NoLostUnlock, Conflicts

\* The first task and its standard input: no lock, no waiter.
LEMMA LockInit == Init => LockInv
<1> SUFFICES ASSUME Init PROVE LockInv OBVIOUS
<1>1. PICK t \in Task, f \in File, i \in Inode :
        /\ table = [u \in Task |-> IF u = t THEN t ELSE None]
        /\ entries = [k \in Task |-> IF k = t
                        THEN [Empty EXCEPT ![0] = [file |-> f, cloexec |-> FALSE]] ELSE Empty]
        /\ inode = [g \in File |-> i]
        /\ held = [u \in Task |-> None]
        /\ \E passing \in Passing : rights = IF passing THEN None ELSE NotPassing
        /\ pc = [u \in Task |-> "user"]
        /\ arg = [u \in Task |-> NoArg]
        /\ shared = [j \in Inode |-> {}]
        /\ exclusive = [j \in Inode |-> None]
        /\ waiter = [u \in Task |-> None]
        /\ raced = {} /\ signalled = {}
        /\ notify = [u \in Task |-> {}]
        /\ dropping = [u \in Task |-> {}]
   BY DEF Init
<1>2. entries \in [Task -> [Fd -> Descriptor \cup {None}]]
  BY <1>1 DEF Descriptor, Empty
<1>3. arg \in [Task -> [fd : Fd, to : Fd, op : Operation, wait : BOOLEAN]]
   BY <1>1, NoArgType DEF Arg
<1>4. rights \in File \cup {None, NotPassing, Passed} BY <1>1
<1>5. \A u \in Task : /\ held[u] # None <=> pc[u] \in {"insert", "insertAt", "flock"}
                      /\ waiter[u] # None => pc[u] = "blocked"
                      /\ (\A v \in Task : table[v] # u) => entries[u] = Empty
  BY <1>1
<1>6. TypeOK
  BY <1>1, <1>2, <1>3, <1>4, <1>5 DEF PC, TypeOK
<1>7. FlockExclusion /\ OwnersLive /\ NoLostUnlock /\ DroppedGone
   BY <1>1 DEF FlockExclusion, OwnersLive, Owners, NoLostUnlock, DroppedGone
<1> QED BY <1>6, <1>7 DEF LockInv

\* Every step keeps LockInv.
LEMMA LockStep == LockInv /\ [Next]_vars => LockInv'
<1> SUFFICES ASSUME LockInv, [Next]_vars PROVE LockInv' OBVIOUS
<1>1. CASE UNCHANGED vars
   BY <1>1 DEF vars, lockVars, waitVars, LockInv, TypeOK, FlockExclusion, OwnersLive, Owners,
        NoLostUnlock, DroppedGone, Referenced, Conflicts
<1>2. ASSUME NEW t \in Task,
             \/ \E f \in File, i \in Inode, c \in Cloexec : Open(t, f, i, c)
             \/ \E fd \in Fd :
                   \/ Close(t, fd) \/ SendRights(t, fd)
                   \/ \E to \in Fd, c \in Cloexec, w \in {"insert", "insertAt"} :
                         DupGet(t, fd, to, c, w)
                   \/ \E last \in Fd, c \in Cloexec : SetCloexec(t, fd, last, c)
                   \/ \E last \in Fd : CloseRange(t, fd, last)
                   \/ \E op \in Operation, nb \in NonBlock : Flock(t, fd, op, nb)
             \/ \E c \in Cloexec : RecvRights(t, c)
             \/ SetReceivedCloexec(t) \/ DropRights(t)
             \/ DupInsert(t) \/ DupFull(t) \/ Execve(t) \/ Exit(t)
             \/ \E child \in Task \ {t} : CloneFiles(t, child) \/ Fork(t, child)
             \/ FlockGet(t) \/ FlockTry(t) \/ Block(t) \/ Wake(t) \/ Interrupt(t)
             \/ \E i \in Inode : Notify(t, i)
             \/ \E f \in File : DropFile(t, f)
      PROVE  LockInv'
   BY <1>2, OpenAction, EntryActions, GetActions, DupActions, RightsActions, TaskActions,
      TryAction, BlockAction, WakeActions, NotifyAction, DropAction
<1> QED BY <1>1, <1>2 DEF Next

\* flock excludes, an owner is an open file of the inode that is still referred to
\* or being dropped, and no registered waiter misses an unlock: for any number of
\* tasks, files, inodes and descriptors.
THEOREM FlockHolds == Spec => []FlockSound
<1>1. LockInv => FlockSound BY DEF LockInv, FlockSound, LocksOwned, OwnersLive
<1> QED BY <1>1, LockInit, LockStep, PTL DEF Spec

\* Only an unlock or the last close takes a lock away.
LEMMA LockKeptStep ==
    ASSUME LockInv, [Next]_vars, NEW i \in Inode, NEW f \in Owners(i)
    PROVE  \/ f \in Owners(i)'
           \/ \E t \in Task : f \in dropping[t] /\ ~Referenced(f)
           \/ \E t \in Task : pc[t] = "flock" /\ held[t].file = f /\ arg[t].op = "Unlock"
<1>1. CASE UNCHANGED <<shared, exclusive>> BY <1>1 DEF Owners
<1>2. ASSUME NEW t \in Task, NEW g \in File, DropFile(t, g)
      PROVE  f \in Owners(i)' \/ (f \in dropping[t] /\ ~Referenced(f))
  BY <1>2, LockSet DEF Operation, Conflicts, DropFile, LockInv, DroppedGone
<1>3. ASSUME NEW t \in Task, FlockTry(t)
      PROVE  \/ f \in Owners(i)'
             \/ pc[t] = "flock" /\ held[t].file = f /\ arg[t].op = "Unlock"
  BY <1>3, RunsFact, LockSet DEF LockInv, FlockTry, TypeOK, Descriptor, lockVars, Owners
<1>4. CASE UNCHANGED vars BY <1>1, <1>4 DEF vars, lockVars
<1>5. CASE Next
  <2>1. PICK t \in Task :
             \/ \E g \in File, j \in Inode, c \in Cloexec : Open(t, g, j, c)
             \/ \E fd \in Fd :
                   \/ Close(t, fd) \/ SendRights(t, fd)
                   \/ \E to \in Fd, c \in Cloexec, w \in {"insert", "insertAt"} :
                         DupGet(t, fd, to, c, w)
                   \/ \E last \in Fd, c \in Cloexec : SetCloexec(t, fd, last, c)
                   \/ \E last \in Fd : CloseRange(t, fd, last)
                   \/ \E op \in Operation, nb \in NonBlock : Flock(t, fd, op, nb)
             \/ \E c \in Cloexec : RecvRights(t, c)
             \/ SetReceivedCloexec(t) \/ DropRights(t)
             \/ DupInsert(t) \/ DupFull(t) \/ Execve(t) \/ Exit(t)
             \/ \E child \in Task \ {t} : CloneFiles(t, child) \/ Fork(t, child)
             \/ FlockGet(t) \/ FlockTry(t) \/ Block(t) \/ Wake(t) \/ Interrupt(t)
             \/ \E j \in Inode : Notify(t, j)
             \/ \E g \in File : DropFile(t, g)
     BY <1>5 DEF Next
  <2>2. ASSUME \/ \E g \in File, j \in Inode, c \in Cloexec : Open(t, g, j, c)
               \/ \E fd \in Fd : Close(t, fd) \/ SendRights(t, fd)
               \/ \E c \in Cloexec : RecvRights(t, c)
               \/ SetReceivedCloexec(t) \/ DropRights(t)
        PROVE  UNCHANGED <<shared, exclusive>>
     BY <2>2 DEF Open, Close, SendRights, RecvRights, SetReceivedCloexec, DropRights, lockVars
  <2>3. ASSUME \/ \E fd \in Fd, to \in Fd, c \in Cloexec, w \in {"insert", "insertAt"} :
                     DupGet(t, fd, to, c, w)
               \/ \E fd \in Fd, last \in Fd, c \in Cloexec : SetCloexec(t, fd, last, c)
               \/ \E fd \in Fd, last \in Fd : CloseRange(t, fd, last)
               \/ \E fd \in Fd, op \in Operation, nb \in NonBlock : Flock(t, fd, op, nb)
               \/ DupInsert(t) \/ DupFull(t)
        PROVE  UNCHANGED <<shared, exclusive>>
     BY <2>3 DEF DupGet, SetCloexec, CloseRange, Flock, DupInsert, DupFull, lockVars
  <2>4. ASSUME \/ Execve(t) \/ Exit(t)
               \/ \E child \in Task \ {t} : CloneFiles(t, child) \/ Fork(t, child)
               \/ FlockGet(t) \/ Block(t) \/ Wake(t) \/ Interrupt(t)
               \/ \E j \in Inode : Notify(t, j)
        PROVE  UNCHANGED <<shared, exclusive>>
     BY <2>4 DEF Execve, Exit, CloneFiles, Fork, FlockGet, Block, Wake, Interrupt, Notify, lockVars
  <2> QED BY <2>1, <2>2, <2>3, <2>4, <1>1, <1>2, <1>3
<1> QED BY <1>4, <1>5

\* A lock belongs to the open file: closing one of several duplicates, an exec or
\* an exit never takes it away (LockSurvivesClose).
THEOREM LockKept == Spec => LockSurvivesClose
<1> DEFINE Kept == \A i \in Inode : \A f \in Owners(i) :
         \/ f \in Owners(i)'
         \/ \E t \in Task : f \in dropping[t] /\ ~Referenced(f)
         \/ \E t \in Task : pc[t] = "flock" /\ held[t].file = f /\ arg[t].op = "Unlock"
<1>1. LockInv /\ [Next]_vars => Kept BY LockKeptStep
<1>2. Spec => []LockInv BY LockInit, LockStep, PTL DEF Spec
<1>3. Spec => [][Kept]_vars BY <1>1, <1>2, PTL DEF Spec
<1> QED BY <1>3 DEF LockSurvivesClose

---------------------------------------------------------------------------
(* Pty: the invariant of a pseudo terminal                                 *)

\* What is told to waiters, the records of calls, a line and a line that is received
PtyOps == {"mread", "mwrite", "sread", "swrite"}
PtySigns == SUBSET ({"master", "slave"} \X {"READ", "WRITE", "HUP"})
PtyAlert == [at : {"user", "open", "cleanup", "remove"}, tell : PtySigns]
PtyTelling == [at : {"notify"}, tell : PtySigns, then : {"user", "cleanup"}]
PtyBlocked == [at : {"again", "asleep", "try"}, op : PtyOps, bytes : Seq(ByteKind)]
PtyCallOf == PtyAlert \cup PtyTelling \cup PtyBlocked
PtyItem == [no : Nat, eol : BOOLEAN]
LineOf == [canon : BOOLEAN, input : Seq(PtyItem), half : Seq(PtyItem)]
PtyFold == [line : LineOf, taken : Nat, no : Nat, gone : Nat, wake : BOOLEAN, echo : Nat, stuck : BOOLEAN]
PtyTypeOK ==
    /\ pty \in [master : BOOLEAN, slaves : Nat, locked : BOOLEAN, mStop : BOOLEAN, sStop : BOOLEAN,
                listed : BOOLEAN]
    /\ line \in LineOf /\ output \in Nat /\ typedNo \in Nat /\ gone \in Nat /\ mixed \in BOOLEAN
    /\ ptyCall \in [PtyThread -> PtyCallOf]
\* The numbers of what waits go up, to no at most.
PtyOrdered(n, h, no) ==
    /\ \A i \in 1..Len(n) : n[i].no <= no
    /\ \A i \in 1..Len(h) : h[i].no <= no
    /\ \A i, j \in 1..Len(n) : i < j => n[i].no < n[j].no
    /\ \A i, j \in 1..Len(h) : i < j => h[i].no < h[j].no
    /\ \A i \in 1..Len(n), j \in 1..Len(h) : n[i].no < h[j].no
\* A line no byte of which was lost but for those counted
LineSound(l, no, lost) ==
    /\ lost + Len(l.input) + Len(l.half) = no
    /\ Len(l.input) + Len(l.half) <= InputSize
    /\ ~l.canon => l.half = <<>>
    /\ PtyOrdered(l.input, l.half, no)
LineInv == Len(line.input) <= InputSize /\ (~mixed => LineSound(line, typedNo, gone))
\* What holds of a write while its bytes are received, one by one
PtyLen(l) == Len(l.input) + Len(l.half)
FoldSound(s) ==
    /\ s \in PtyFold /\ s.line.canon = line.canon /\ Len(s.line.input) <= InputSize
    /\ s.gone = 0 => PtyLen(s.line) >= PtyLen(line) \/ PtyLen(s.line) >= InputSize
    /\ s.line.input # <<>> => s.wake \/ line.input # <<>>
    /\ ~mixed => LineSound(s.line, s.no, gone + s.gone)
\* A call that will remove a pair that nobody uses
PtyFinishing(c) == c.at \in {"cleanup", "remove"} \/ (c.at = "notify" /\ c.then = "cleanup")
PtyNames ==
    /\ pty.master => pty.listed
    /\ \A t \in PtyThread : ptyCall[t].at = "remove" => ~pty.master
    /\ ~pty.master /\ pty.slaves = 0 /\ pty.listed => \E t \in PtyThread : PtyFinishing(ptyCall[t])
PtyInv == PtyTypeOK /\ LineInv /\ PtyNames /\ NoPtySleeper

(* A nonempty set of numbers has a first element.                          *)
LEMMA HasLeast ==
    ASSUME NEW S, S \subseteq Nat, S # {}
    PROVE  \E x \in S : \A y \in S : x <= y
<1>1. IsWellFoundedOn(OpToRel(<, Nat), Nat)
  BY NatLessThanWellFounded, Zenon
<1>2. PICK x \in S : \A y \in S : ~(<<y, x>> \in OpToRel(<, Nat))
  BY <1>1, WFMin, Zenon
<1>3. \A y \in S : x <= y
  <2> SUFFICES ASSUME NEW y \in S PROVE x <= y
    OBVIOUS
  <2>1. x \in Nat /\ y \in Nat
    OBVIOUS
  <2>2. ~(<<y, x>> \in OpToRel(<, Nat))
    BY <1>2
  <2>3. ~(y < x)
    BY <2>1, <2>2 DEF OpToRel
  <2> QED BY <2>1, <2>3
<1> QED BY <1>3

(* A sequence of bytes is numbered by natural numbers.                     *)
LEMMA NumberedBytes ==
    ASSUME NEW s \in Seq(PtyItem), NEW i \in 1..Len(s)
    PROVE  s[i].no \in Nat
<1>1. s[i] \in PtyItem
  OBVIOUS
<1> QED BY <1>1 DEF PtyItem

(* One more byte, with the next number.                                    *)
LEMMA OneMore ==
    ASSUME NEW s \in Seq(PtyItem), NEW item \in PtyItem
    PROVE  /\ Append(s, item) \in Seq(PtyItem) /\ Len(Append(s, item)) = Len(s) + 1
           /\ \A i \in 1..(Len(s) + 1) : \/ i \in 1..Len(s) /\ Append(s, item)[i] = s[i]
                                         \/ i = Len(s) + 1 /\ Append(s, item)[i] = item
  OBVIOUS

(* A byte with the next number goes to the end of the half line,           *)
LEMMA OrderedHalf ==
    ASSUME NEW n \in Seq(PtyItem), NEW h \in Seq(PtyItem), NEW no \in Nat, NEW item \in PtyItem,
           item.no = no + 1, PtyOrdered(n, h, no)
    PROVE  PtyOrdered(n, Append(h, item), no + 1)
<1>1. PICK g : g = Append(h, item)
  OBVIOUS
<1>2. /\ Len(g) = Len(h) + 1
      /\ \A i \in 1..(Len(h) + 1) : \/ i \in 1..Len(h) /\ g[i] = h[i]
                                    \/ i = Len(h) + 1 /\ g[i] = item
  BY <1>1, OneMore
<1>3. PICK a \in Nat, b \in Nat : a = Len(n) /\ b = Len(h)
  OBVIOUS
<1>4. /\ \A i \in 1..a : n[i].no \in Nat
      /\ \A i \in 1..b : h[i].no \in Nat
  BY <1>3, NumberedBytes
<1>5. /\ \A i \in 1..a : n[i].no <= no
      /\ \A i \in 1..b : h[i].no <= no
      /\ \A i, j \in 1..a : i < j => n[i].no < n[j].no
      /\ \A i, j \in 1..b : i < j => h[i].no < h[j].no
      /\ \A i \in 1..a, j \in 1..b : n[i].no < h[j].no
  BY <1>3 DEF PtyOrdered
<1>6. /\ \A i \in 1..(b + 1) : (i \in 1..b /\ g[i].no = h[i].no) \/ (i = b + 1 /\ g[i].no = no + 1)
  BY <1>2, <1>3
<1>7. /\ \A i \in 1..a : n[i].no <= no + 1
      /\ \A i \in 1..(b + 1) : g[i].no <= no + 1
      /\ \A i \in 1..a, j \in 1..(b + 1) : n[i].no < g[j].no
  <2>1. \A i \in 1..a : n[i].no <= no + 1
    BY <1>4, <1>5
  <2>2. \A i \in 1..(b + 1) : g[i].no <= no + 1
    BY <1>4, <1>5, <1>6
  <2>3. ASSUME NEW i \in 1..a, NEW j \in 1..(b + 1) PROVE n[i].no < g[j].no
    <3>1. CASE j \in 1..b /\ g[j].no = h[j].no
      BY <1>5, <3>1
    <3>2. CASE g[j].no = no + 1
      BY <1>4, <1>5, <3>2
    <3> QED BY <1>6, <3>1, <3>2
  <2> QED BY <2>1, <2>2, <2>3
<1>8. ASSUME NEW i \in 1..(b + 1), NEW j \in 1..(b + 1), i < j PROVE g[i].no < g[j].no
  <2>1. i \in 1..b /\ g[i].no = h[i].no
    BY <1>6, <1>8
  <2>2. CASE j \in 1..b /\ g[j].no = h[j].no
    BY <1>5, <1>8, <2>1, <2>2
  <2>3. CASE g[j].no = no + 1
    BY <1>4, <1>5, <2>1, <2>3
  <2> QED BY <1>6, <2>2, <2>3
<1>9. PtyOrdered(n, g, no + 1)
  BY <1>2, <1>3, <1>5, <1>7, <1>8 DEF PtyOrdered
<1> QED BY <1>1, <1>9

(* or to what is ready, when no line is half typed.                        *)
LEMMA OrderedInput ==
    ASSUME NEW n \in Seq(PtyItem), NEW no \in Nat, NEW item \in PtyItem,
           item.no = no + 1, PtyOrdered(n, <<>>, no)
    PROVE  PtyOrdered(Append(n, item), <<>>, no + 1)
  BY OneMore, NumberedBytes DEF PtyOrdered

(* A part of what is ready and a part of the half line are in order.       *)
LEMMA OrderedPart ==
    ASSUME NEW n \in Seq(PtyItem), NEW h \in Seq(PtyItem), NEW no, PtyOrdered(n, h, no),
           NEW m, NEW g, NEW k \in Nat, Len(m) \in Nat, Len(g) \in Nat, Len(m) + k <= Len(n), Len(g) <= Len(h),
           \A i \in 1..Len(m) : m[i] = n[i + k], \A i \in 1..Len(g) : g[i] = h[i]
    PROVE  PtyOrdered(m, g, no)
<1>1. PICK a \in Nat, b \in Nat : a = Len(n) /\ b = Len(h)
  OBVIOUS
<1>2. PICK c \in Nat, d \in Nat : c = Len(m) /\ d = Len(g)
  OBVIOUS
<1>3. /\ \A i \in 1..c : i + k \in 1..a
      /\ \A i, j \in 1..c : i < j => i + k < j + k
      /\ \A i \in 1..d : i \in 1..b
  BY <1>1, <1>2
<1>4. /\ \A i \in 1..a : n[i].no <= no
      /\ \A i \in 1..b : h[i].no <= no
      /\ \A i, j \in 1..a : i < j => n[i].no < n[j].no
      /\ \A i, j \in 1..b : i < j => h[i].no < h[j].no
      /\ \A i \in 1..a, j \in 1..b : n[i].no < h[j].no
  BY <1>1 DEF PtyOrdered
<1>5. /\ \A i \in 1..c : m[i] = n[i + k]
      /\ \A i \in 1..d : g[i] = h[i]
  BY <1>2
<1>6. /\ \A i \in 1..c : m[i].no <= no
      /\ \A i \in 1..d : g[i].no <= no
      /\ \A i, j \in 1..d : i < j => g[i].no < g[j].no
      /\ \A i \in 1..c, j \in 1..d : m[i].no < g[j].no
  BY <1>3, <1>4, <1>5
<1>7. ASSUME NEW i \in 1..c, NEW j \in 1..c, i < j PROVE m[i].no < m[j].no
  BY <1>3, <1>4, <1>5, <1>7
<1> QED BY <1>2, <1>6, <1>7 DEF PtyOrdered

(* The half line goes to the end of what is ready.                         *)
LEMMA OrderedWhole ==
    ASSUME NEW n \in Seq(PtyItem), NEW h \in Seq(PtyItem), NEW no, PtyOrdered(n, h, no)
    PROVE  PtyOrdered(n \o h, <<>>, no)
<1>1. PICK g : g = n \o h
  OBVIOUS
<1>2. PICK a \in Nat, b \in Nat : a = Len(n) /\ b = Len(h)
  OBVIOUS
<1>3. Len(g) = a + b /\ \A i \in 1..(a + b) : g[i] = IF i <= a THEN n[i] ELSE h[i - a]
  BY <1>1, <1>2
<1>4. /\ \A i \in 1..a : n[i].no <= no
      /\ \A i \in 1..b : h[i].no <= no
      /\ \A i, j \in 1..a : i < j => n[i].no < n[j].no
      /\ \A i, j \in 1..b : i < j => h[i].no < h[j].no
      /\ \A i \in 1..a, j \in 1..b : n[i].no < h[j].no
  BY <1>2 DEF PtyOrdered
<1>5. \A i \in 1..(a + b) : \/ i \in 1..a /\ g[i] = n[i]
                            \/ i - a \in 1..b /\ g[i] = h[i - a]
  BY <1>3
<1>6. \A i \in 1..(a + b) : g[i].no <= no
  BY <1>4, <1>5
<1>7. ASSUME NEW i \in 1..(a + b), NEW j \in 1..(a + b), i < j PROVE g[i].no < g[j].no
  <2>1. CASE i \in 1..a /\ j \in 1..a
    BY <1>3, <1>4, <1>7, <2>1
  <2>2. CASE i \in 1..a /\ j - a \in 1..b
    BY <1>3, <1>4, <2>2
  <2>3. CASE i - a \in 1..b /\ j - a \in 1..b
    <3>1. g[i] = h[i - a] /\ g[j] = h[j - a] /\ i - a < j - a
      BY <1>3, <1>7, <2>3
    <3> QED BY <1>4, <2>3, <3>1
  <2> QED BY <1>5, <1>7, <2>1, <2>2, <2>3
<1> QED BY <1>1, <1>3, <1>6, <1>7 DEF PtyOrdered

(* The buffer of a terminal has a size.                                    *)
LEMMA BufferSize == InputSize \in Nat /\ InputSize > 0
  BY PtyAssumption

(* The bytes of a line                                                     *)
LEMMA LineLength ==
    ASSUME NEW l, NEW a \in Nat, NEW b \in Nat, Len(l.input) = a, Len(l.half) = b
    PROVE  PtyLen(l) = a + b /\ (Full(l) <=> a + b >= InputSize)
  BY DEF PtyLen, Full

(* The half line becomes ready; what does not fit is dropped, and then the *)
(* buffer is full.                                                         *)
LEMMA HalfCommitted ==
    ASSUME NEW l \in LineOf, Len(l.input) <= InputSize
    PROVE  /\ Committed(l) \in LineOf /\ Committed(l).canon = l.canon
           /\ Len(Committed(l).input) <= InputSize
           /\ PtyLen(Committed(l)) >= PtyLen(l) \/ PtyLen(Committed(l)) >= InputSize
           /\ Committed(l).input # <<>> => l.input # <<>> \/ l.half # <<>>
           /\ \A no, lost \in Nat : LineSound(l, no, lost) => LineSound(Committed(l), no, lost)
<1>1. PICK n \in Seq(PtyItem), h \in Seq(PtyItem) : n = l.input /\ h = l.half
  BY DEF LineOf
<1>2. PICK a \in Nat, b \in Nat : a = Len(n) /\ b = Len(h)
  OBVIOUS
<1>3. PICK k : k = (IF b < InputSize - a THEN b ELSE InputSize - a)
  OBVIOUS
<1>4. k \in Nat /\ k <= b /\ a + k <= InputSize /\ (k = b \/ a + k = InputSize) /\ (a + b <= InputSize => k = b)
  <2>1. a <= InputSize
    BY <1>1, <1>2
  <2> QED BY <1>3, <2>1, BufferSize
<1>5. PICK fits : fits = SubSeq(h, 1, k)
  OBVIOUS
<1>6. /\ fits \in Seq(PtyItem) /\ Len(fits) = k /\ (k = b => fits = h)
  BY <1>2, <1>4, <1>5
<1>7. PICK g : g = n \o fits
  OBVIOUS
<1>8. g \in Seq(PtyItem) /\ Len(g) = a + k
  BY <1>6, <1>7, ConcatProperties, <1>2
<1>9. Committed(l) = [l EXCEPT !.input = g, !.half = <<>>]
  BY <1>1, <1>2, <1>3, <1>5, <1>7 DEF Committed, LineOf
<1>0. PICK m : m = Committed(l)
  OBVIOUS
<1>10. m \in LineOf /\ m = Committed(l) /\ m.canon = l.canon /\ m.half = <<>> /\ m.input = g
  <2>1. <<>> \in Seq(PtyItem)
    OBVIOUS
  <2> QED BY <1>0, <1>8, <1>9, <2>1 DEF LineOf
<1>11. Len(m.input) = a + k /\ Len(m.half) = 0
  BY <1>8, <1>10
<1>12. ASSUME NEW no \in Nat, NEW lost \in Nat, LineSound(l, no, lost) PROVE LineSound(m, no, lost)
  <2>1. a + b <= InputSize /\ lost + a + b = no /\ PtyOrdered(n, h, no)
    BY <1>1, <1>2, <1>12 DEF LineSound
  <2>2. k = b /\ g = n \o h
    BY <1>4, <1>6, <1>7, <2>1
  <2>3. PtyOrdered(m.input, m.half, no)
    BY <1>10, <2>1, <2>2, OrderedWhole
  <2> QED BY <1>10, <1>11, <2>1, <2>2, <2>3 DEF LineSound
<1>13. m.input # <<>> => n # <<>> \/ h # <<>>
  BY <1>2, <1>4, <1>8, <1>10
<1>14. Len(m.input) <= InputSize /\ (PtyLen(m) >= PtyLen(l) \/ PtyLen(m) >= InputSize)
  <2>0. /\ Len(m.input) = a + k /\ Len(m.half) = 0 /\ Len(l.input) = a /\ Len(l.half) = b
        /\ a + k \in Nat /\ 0 \in Nat
    BY <1>1, <1>2, <1>4, <1>11
  <2>1. PtyLen(m) = (a + k) + 0 /\ PtyLen(l) = a + b
    BY <2>0, LineLength
  <2> QED BY <1>4, <1>11, <2>1, BufferSize
<1> QED BY <1>1, <1>10, <1>12, <1>13, <1>14

(* A byte is queued in the half line.                                      *)
LEMMA HalfLonger ==
    ASSUME NEW l \in LineOf, NEW item \in PtyItem, NEW m, m = [l EXCEPT !.half = Append(@, item)]
    PROVE  /\ m \in LineOf /\ m.canon = l.canon /\ m.input = l.input /\ m.half # <<>>
           /\ PtyLen(m) = PtyLen(l) + 1
           /\ \A no, lost \in Nat : LineSound(l, no, lost) /\ l.canon /\ ~Full(l) /\ item.no = no + 1
                                      => LineSound(m, no + 1, lost)
<1>1. PICK n \in Seq(PtyItem), h \in Seq(PtyItem) : n = l.input /\ h = l.half
  BY DEF LineOf
<1>2. PICK a \in Nat, b \in Nat : a = Len(n) /\ b = Len(h)
  OBVIOUS
<1>3. PICK g : g = Append(h, item)
  OBVIOUS
<1>4. g \in Seq(PtyItem) /\ Len(g) = b + 1 /\ g # <<>>
  BY <1>2, <1>3
<1>5. m = [l EXCEPT !.half = g]
  BY <1>1, <1>3
<1>6. m \in LineOf /\ m.canon = l.canon /\ m.input = n /\ m.half = g
  BY <1>1, <1>4, <1>5 DEF LineOf
<1>7. ASSUME NEW no \in Nat, NEW lost \in Nat, LineSound(l, no, lost), l.canon, ~Full(l), item.no = no + 1
      PROVE  LineSound(m, no + 1, lost)
  <2>1. a + b < InputSize /\ lost + a + b = no /\ PtyOrdered(n, h, no)
    <3>1. lost + a + b = no /\ PtyOrdered(n, h, no)
      BY <1>1, <1>2, <1>7 DEF LineSound
    <3>2. ~(a + b >= InputSize)
      BY <1>1, <1>2, <1>7, LineLength
    <3> QED BY <3>1, <3>2, BufferSize
  <2>2. PtyOrdered(n, g, no + 1)
    BY <1>3, <1>7, <2>1, OrderedHalf
  <2>3. lost + a + (b + 1) = no + 1 /\ a + (b + 1) <= InputSize
    BY <2>1, BufferSize
  <2> QED BY <1>2, <1>4, <1>6, <1>7, <2>2, <2>3 DEF LineSound
<1>8. PtyLen(m) = PtyLen(l) + 1
  <2>0. Len(m.input) = a /\ Len(m.half) = b + 1 /\ Len(l.input) = a /\ Len(l.half) = b /\ b + 1 \in Nat
    BY <1>1, <1>2, <1>4, <1>6
  <2>1. PtyLen(m) = a + (b + 1) /\ PtyLen(l) = a + b
    BY <2>0, LineLength
  <2> QED BY <2>1
<1> QED BY <1>1, <1>4, <1>6, <1>7, <1>8

(* A byte is ready at once, in raw mode.                                   *)
LEMMA InputLonger ==
    ASSUME NEW l \in LineOf, NEW item \in PtyItem, NEW m, m = [l EXCEPT !.input = Append(@, item)]
    PROVE  /\ m \in LineOf /\ m.canon = l.canon /\ Len(m.input) = Len(l.input) + 1
           /\ PtyLen(m) = PtyLen(l) + 1
           /\ \A no, lost \in Nat : LineSound(l, no, lost) /\ ~l.canon /\ Len(l.input) < InputSize /\ item.no = no + 1
                                      => LineSound(m, no + 1, lost)
<1>1. PICK n \in Seq(PtyItem), h \in Seq(PtyItem) : n = l.input /\ h = l.half
  BY DEF LineOf
<1>2. PICK a \in Nat, b \in Nat : a = Len(n) /\ b = Len(h)
  OBVIOUS
<1>3. PICK g : g = Append(n, item)
  OBVIOUS
<1>4. g \in Seq(PtyItem) /\ Len(g) = a + 1
  BY <1>2, <1>3
<1>5. m = [l EXCEPT !.input = g]
  BY <1>1, <1>3
<1>6. m \in LineOf /\ m.canon = l.canon /\ m.input = g /\ m.half = h
  BY <1>1, <1>4, <1>5 DEF LineOf
<1>7. ASSUME NEW no \in Nat, NEW lost \in Nat, LineSound(l, no, lost), ~l.canon, Len(l.input) < InputSize,
             item.no = no + 1
      PROVE  LineSound(m, no + 1, lost)
  <2>1. a < InputSize /\ h = <<>> /\ b = 0 /\ lost + a = no /\ PtyOrdered(n, <<>>, no)
    BY <1>1, <1>2, <1>7, BufferSize DEF LineSound
  <2>2. PtyOrdered(g, <<>>, no + 1)
    BY <1>3, <1>7, <2>1, OrderedInput
  <2>3. lost + (a + 1) + b = no + 1 /\ (a + 1) + b <= InputSize
    BY <2>1, BufferSize
  <2> QED BY <1>2, <1>4, <1>6, <2>1, <2>2, <2>3 DEF LineSound
<1>8. PtyLen(m) = PtyLen(l) + 1
  <2>0. Len(m.input) = a + 1 /\ Len(m.half) = b /\ Len(l.input) = a /\ Len(l.half) = b /\ a + 1 \in Nat
    BY <1>1, <1>2, <1>4, <1>6
  <2>1. PtyLen(m) = (a + 1) + b /\ PtyLen(l) = a + b
    BY <2>0, LineLength
  <2> QED BY <2>1
<1> QED BY <1>1, <1>2, <1>4, <1>6, <1>7, <1>8

(* The last bytes of the half line are erased, all of them by a kill.      *)
LEMMA HalfShorter ==
    ASSUME NEW l \in LineOf, NEW kept, kept \in {<<>>, Front(l.half)}, l.half = <<>> => kept = <<>>,
           NEW m, m = [l EXCEPT !.half = kept]
    PROVE  /\ m \in LineOf /\ m.canon = l.canon /\ m.input = l.input
           /\ Len(l.half) - Len(kept) \in Nat /\ (Len(l.half) - Len(kept) = 0 => PtyLen(m) = PtyLen(l))
           /\ \A no, lost \in Nat : LineSound(l, no, lost) => LineSound(m, no, lost + (Len(l.half) - Len(kept)))
<1>1. PICK n \in Seq(PtyItem), h \in Seq(PtyItem) : n = l.input /\ h = l.half
  BY DEF LineOf
<1>2. PICK a \in Nat, b \in Nat : a = Len(n) /\ b = Len(h)
  OBVIOUS
<1>3. PICK c \in Nat : kept \in Seq(PtyItem) /\ Len(kept) = c /\ c <= b /\ \A i \in 1..c : kept[i] = h[i]
  <2>1. CASE kept = <<>>
    BY <2>1, <1>2
  <2>2. CASE h # <<>> /\ kept = Front(h)
    BY <1>2, <2>2 DEF Front
  <2> QED BY <1>1, <2>1, <2>2
<1>4. m \in LineOf /\ m.canon = l.canon /\ m.input = n /\ m.half = kept
  BY <1>1, <1>3 DEF LineOf
<1>5. ASSUME NEW no \in Nat, NEW lost \in Nat, LineSound(l, no, lost)
      PROVE  LineSound(m, no, lost + (b - c))
  <2>1. a + b <= InputSize /\ lost + a + b = no /\ PtyOrdered(n, h, no) /\ (~l.canon => h = <<>>)
    BY <1>1, <1>2, <1>5 DEF LineSound
  <2>2. \A i \in 1..Len(n) : n[i] = n[i + 0]
    BY <1>2
  <2>a. Len(n) \in Nat /\ Len(n) + 0 <= Len(n) /\ Len(kept) \in Nat /\ Len(kept) <= Len(h)
    BY <1>2, <1>3
  <2>b. \A i \in 1..Len(kept) : kept[i] = h[i]
    BY <1>3
  <2>3. PtyOrdered(n, kept, no)
    BY <2>1, <2>2, <2>a, <2>b, OrderedPart
  <2>4. (lost + (b - c)) + a + c = no /\ a + c <= InputSize
    BY <1>3, <2>1, BufferSize
  <2>5. ~m.canon => kept = <<>>
    BY <1>1, <1>4, <2>1
  <2> QED BY <1>2, <1>3, <1>4, <2>3, <2>4, <2>5 DEF LineSound
<1>6. b - c \in Nat /\ (b - c = 0 => PtyLen(m) = PtyLen(l))
  <2>1. PtyLen(m) = a + c /\ PtyLen(l) = a + b
    BY <1>1, <1>2, <1>3, <1>4, LineLength
  <2> QED BY <1>3, <2>1
<1> QED BY <1>1, <1>2, <1>3, <1>4, <1>5, <1>6

(* What is ready is read from its beginning.                               *)
LEMMA InputShorter ==
    ASSUME NEW l \in LineOf, NEW k \in Nat, k <= Len(l.input),
           NEW m, m = [l EXCEPT !.input = SubSeq(@, k + 1, Len(@))]
    PROVE  /\ m \in LineOf /\ m.canon = l.canon /\ Len(m.input) = Len(l.input) - k /\ m.half = l.half
           /\ (m.input # <<>> => l.input # <<>>)
           /\ \A no, lost \in Nat : LineSound(l, no, lost) => LineSound(m, no, lost + k)
<1>1. PICK n \in Seq(PtyItem), h \in Seq(PtyItem) : n = l.input /\ h = l.half
  BY DEF LineOf
<1>2. PICK a \in Nat, b \in Nat : a = Len(n) /\ b = Len(h)
  OBVIOUS
<1>3. PICK g : g = SubSeq(n, k + 1, a)
  OBVIOUS
<1>4. g \in Seq(PtyItem) /\ Len(g) = a - k /\ k <= a /\ \A i \in 1..(a - k) : g[i] = n[i + k]
  BY <1>1, <1>2, <1>3
<1>5. m = [l EXCEPT !.input = g]
  BY <1>1, <1>2, <1>3
<1>6. m \in LineOf /\ m.canon = l.canon /\ m.input = g /\ m.half = h
  BY <1>1, <1>4, <1>5 DEF LineOf
<1>7. ASSUME NEW no \in Nat, NEW lost \in Nat, LineSound(l, no, lost)
      PROVE  LineSound(m, no, lost + k)
  <2>1. a + b <= InputSize /\ lost + a + b = no /\ PtyOrdered(n, h, no) /\ (~l.canon => h = <<>>)
    BY <1>1, <1>2, <1>7 DEF LineSound
  <2>2. Len(g) \in Nat /\ Len(g) + k <= Len(n) /\ \A i \in 1..Len(g) : g[i] = n[i + k]
    BY <1>2, <1>4
  <2>3. PtyOrdered(g, h, no)
    <3>1. Len(h) \in Nat /\ Len(h) <= Len(h) /\ \A i \in 1..Len(h) : h[i] = h[i]
      BY <1>2
    <3> QED BY <2>1, <2>2, <3>1, OrderedPart
  <2>4. (lost + k) + (a - k) + b = no /\ (a - k) + b <= InputSize
    BY <1>4, <2>1, BufferSize
  <2> QED BY <1>2, <1>4, <1>6, <2>1, <2>3, <2>4 DEF LineSound
<1>8. g # <<>> => n # <<>>
  BY <1>2, <1>4
<1> QED BY <1>1, <1>2, <1>4, <1>6, <1>7, <1>8

\* The record of a write that has been received so far
Fold(l, taken, no, lost, wake, echo, stuck) ==
    [line |-> l, taken |-> taken, no |-> no, gone |-> lost, wake |-> wake, echo |-> echo, stuck |-> stuck]

(* A line has a length.                                                    *)
LEMMA HasLength == \A l \in LineOf : PtyLen(l) \in Nat /\ Len(l.input) \in Nat /\ Len(l.half) \in Nat
  BY DEF LineOf, PtyLen

\* What a byte may do to the line: bytes are lost, or the line is as long as before
FoldStep(s, r) ==
    /\ r \in PtyFold /\ r.line.canon = s.line.canon /\ Len(r.line.input) <= InputSize
    /\ r.gone = 0 => s.gone = 0 /\ (PtyLen(r.line) >= PtyLen(s.line) \/ PtyLen(r.line) >= InputSize)
    /\ (r.line.input # <<>> => r.wake \/ s.line.input # <<>>) /\ (s.wake => r.wake)
    /\ LineSound(s.line, s.no, gone + s.gone) => LineSound(r.line, r.no, gone + r.gone)

(* A byte more of a write, by what it does to the line.                    *)
LEMMA FoldGoesOn ==
    ASSUME line \in LineOf, NEW s, FoldSound(s), NEW r, FoldStep(s, r)
    PROVE  FoldSound(r)
  BY HasLength, BufferSize DEF FoldSound, PtyFold, FoldStep

(* tty_receive_bytes takes a byte.                                         *)
LEMMA ReceiveByte ==
    ASSUME line \in LineOf, gone \in Nat, NEW s, FoldSound(s), NEW byte \in ByteKind
    PROVE  FoldSound(Receive(s, byte))
<1>1. /\ s \in PtyFold /\ s.line \in LineOf /\ s.taken \in Nat /\ s.no \in Nat /\ s.gone \in Nat /\ s.wake \in BOOLEAN
      /\ s.echo \in Nat /\ s.stuck \in BOOLEAN /\ Len(s.line.input) <= InputSize /\ s.line.canon \in BOOLEAN
  BY DEF FoldSound, PtyFold, LineOf
<1>2. PICK item : item = [no |-> s.no + 1, eol |-> byte = "newline"]
  OBVIOUS
<1>3. item \in PtyItem /\ item.no = s.no + 1 /\ s.no + 1 \in Nat /\ s.taken + 1 \in Nat /\ s.echo + 1 \in Nat
  BY <1>1, <1>2 DEF PtyItem
<1>4. PICK r : r = Receive(s, byte)
  OBVIOUS
<1>5. PtyLen(line) \in Nat /\ PtyLen(s.line) \in Nat
  BY <1>1, HasLength
<1>a. ASSUME r \in PtyFold, r.line = s.line, r.no = s.no, r.gone = s.gone, r.wake = s.wake PROVE FoldStep(s, r)
  BY <1>1, <1>5, <1>a DEF FoldStep
<1>6. CASE s.stuck
  BY <1>6 DEF Receive
<1>7. CASE ~s.stuck /\ byte = "signal"
  BY <1>1, <1>3, <1>4, <1>7, <1>a, FoldGoesOn DEF Receive, PtyFold
<1>8. CASE ~s.stuck /\ byte # "signal" /\ ~s.line.canon
  <2>1. CASE Len(s.line.input) >= InputSize
    BY <1>1, <1>3, <1>4, <1>8, <2>1, <1>a, FoldGoesOn DEF Receive, PtyFold
  <2>2. CASE ~(Len(s.line.input) >= InputSize)
    <3>1. PICK m : m = [s.line EXCEPT !.input = Append(@, item)]
      OBVIOUS
    <3>2. r = Fold(m, s.taken + 1, s.no + 1, s.gone, TRUE, s.echo + 1, FALSE)
      BY <1>1, <1>3, <1>4, <1>2, <1>8, <2>2, <3>1 DEF Receive, Fold, PtyFold, LineOf
    <3>3. /\ m \in LineOf /\ m.canon = s.line.canon /\ Len(m.input) = Len(s.line.input) + 1
          /\ PtyLen(m) = PtyLen(s.line) + 1
          /\ \A no, lost \in Nat : LineSound(s.line, no, lost) /\ ~s.line.canon /\ Len(s.line.input) < InputSize /\ item.no = no + 1
                                     => LineSound(m, no + 1, lost)
      BY <1>1, <1>3, <3>1, InputLonger
    <3>4. Len(s.line.input) < InputSize /\ Len(m.input) <= InputSize
      BY <1>1, <2>2, <3>3, BufferSize, HasLength
    <3>5. PtyLen(m) \in Nat /\ PtyLen(m) >= PtyLen(s.line)
      BY <1>5, <3>3
    <3>6. LineSound(s.line, s.no, gone + s.gone) => LineSound(m, s.no + 1, gone + s.gone)
      BY <1>1, <1>3, <1>8, <3>3, <3>4
    <3>f. r \in PtyFold /\ r.line = m /\ r.no = s.no + 1 /\ r.gone = s.gone /\ r.wake = TRUE
      BY <1>1, <1>3, <3>2, <3>3 DEF Fold, PtyFold
    <3>7. FoldStep(s, r)
      BY <3>f, <3>3, <3>4, <3>5, <3>6 DEF FoldStep
    <3> QED BY <1>4, <3>2, <3>7, FoldGoesOn
  <2> QED BY <2>1, <2>2
<1>9. CASE ~s.stuck /\ byte \in {"erase", "kill"} /\ s.line.canon
  <2>1. PICK kept : kept = IF byte = "kill" \/ s.line.half = <<>> THEN <<>> ELSE Front(s.line.half)
    OBVIOUS
  <2>2. PICK m : m = [s.line EXCEPT !.half = kept]
    OBVIOUS
  <2>3. PICK echo : echo = IF s.line.half = <<>> THEN s.echo ELSE s.echo + 1
    OBVIOUS
  <2>4. PICK lost : lost = s.gone + Len(s.line.half) - Len(kept)
    OBVIOUS
  <2>5. r = Fold(m, s.taken + 1, s.no, lost, s.wake, echo, FALSE)
    BY <1>1, <1>3, <1>4, <1>9, <2>1, <2>2, <2>3, <2>4 DEF Receive, Fold, PtyFold, LineOf
  <2>6. /\ m \in LineOf /\ m.canon = s.line.canon /\ m.input = s.line.input
        /\ Len(s.line.half) - Len(kept) \in Nat /\ (Len(s.line.half) - Len(kept) = 0 => PtyLen(m) = PtyLen(s.line))
        /\ \A no, x \in Nat : LineSound(s.line, no, x) => LineSound(m, no, x + (Len(s.line.half) - Len(kept)))
    BY <1>1, <2>1, <2>2, HalfShorter
  <2>7. PICK d \in Nat : d = Len(s.line.half) - Len(kept)
    BY <2>6
  <2>8. Len(s.line.half) \in Nat /\ Len(kept) \in Nat
    BY <1>1, <2>2, <2>6, HasLength DEF LineOf
  <2>9. lost = s.gone + d /\ lost \in Nat /\ gone + lost = (gone + s.gone) + d /\ gone + s.gone \in Nat
        /\ (lost = 0 => s.gone = 0 /\ d = 0)
    <3>1. PICK x \in Nat, y \in Nat, z \in Nat, g \in Nat :
            x = Len(s.line.half) /\ y = Len(kept) /\ z = s.gone /\ g = gone
      BY <1>1, <2>8
    <3>2. lost = z + x - y /\ d = x - y
      BY <2>4, <2>7, <3>1
    <3>3. lost = z + d /\ lost \in Nat /\ g + lost = (g + z) + d /\ g + z \in Nat /\ (lost = 0 => z = 0 /\ d = 0)
      BY <3>2
    <3> QED BY <3>1, <3>3
  <2>10. lost = 0 => s.gone = 0 /\ PtyLen(m) = PtyLen(s.line)
    BY <2>6, <2>7, <2>9
  <2>11. echo \in Nat
    BY <1>1, <2>3
  <2>12. LineSound(s.line, s.no, gone + s.gone) => LineSound(m, s.no, gone + lost)
    BY <1>1, <2>6, <2>7, <2>9
  <2>13. PtyLen(m) \in Nat /\ PtyLen(s.line) >= PtyLen(s.line)
    BY <2>6, <1>5, HasLength
  <2>f. r \in PtyFold /\ r.line = m /\ r.no = s.no /\ r.gone = lost /\ r.wake = s.wake
    BY <1>1, <1>3, <2>5, <2>6, <2>9, <2>11 DEF Fold, PtyFold
  <2>14. FoldStep(s, r)
    BY <2>f, <1>1, <2>6, <2>10, <2>12, <2>13 DEF FoldStep
  <2> QED BY <1>4, <2>5, <2>9, <2>11, <2>14, FoldGoesOn
<1>10. CASE ~s.stuck /\ byte = "eof" /\ s.line.canon
  <2>1. PICK m : m = Committed(s.line)
    OBVIOUS
  <2>2. PICK wake \in BOOLEAN : wake = (s.wake \/ s.line.half # <<>>)
    OBVIOUS
  <2>3. r = Fold(m, s.taken + 1, s.no, s.gone, wake, s.echo, FALSE)
    BY <1>1, <1>3, <1>4, <1>10, <2>1, <2>2 DEF Receive, Fold, PtyFold
  <2>4. /\ m \in LineOf /\ m.canon = s.line.canon /\ Len(m.input) <= InputSize
        /\ PtyLen(m) >= PtyLen(s.line) \/ PtyLen(m) >= InputSize
        /\ m.input # <<>> => s.line.input # <<>> \/ s.line.half # <<>>
        /\ \A no, lost \in Nat : LineSound(s.line, no, lost) => LineSound(m, no, lost)
    BY <1>1, <2>1, HalfCommitted
  <2>5. PtyLen(m) \in Nat /\ gone + s.gone \in Nat
    BY <1>1, <2>4, HasLength
  <2>f. r \in PtyFold /\ r.line = m /\ r.no = s.no /\ r.gone = s.gone /\ r.wake = wake
    BY <1>1, <1>3, <2>3, <2>2, <2>4 DEF Fold, PtyFold
  <2>6. FoldStep(s, r)
    BY <2>f, <1>1, <2>2, <2>4, <2>5 DEF FoldStep
  <2> QED BY <1>4, <2>3, <2>6, FoldGoesOn
<1>11. CASE ~s.stuck /\ byte \in {"char", "newline"} /\ s.line.canon /\ Full(s.line)
  BY <1>1, <1>3, <1>4, <1>11, <1>a, FoldGoesOn DEF Receive, PtyFold
<1>12. CASE ~s.stuck /\ byte \in {"char", "newline"} /\ s.line.canon /\ ~Full(s.line)
  <2>1. PICK m : m = [s.line EXCEPT !.half = Append(@, item)]
    OBVIOUS
  <2>2. /\ m \in LineOf /\ m.canon = s.line.canon /\ m.input = s.line.input
        /\ PtyLen(m) = PtyLen(s.line) + 1
        /\ \A no, lost \in Nat : LineSound(s.line, no, lost) /\ s.line.canon /\ ~Full(s.line) /\ item.no = no + 1
                                   => LineSound(m, no + 1, lost)
    BY <1>1, <1>3, <2>1, HalfLonger
  <2>3. PtyLen(m) \in Nat /\ PtyLen(m) >= PtyLen(s.line) /\ gone + s.gone \in Nat
    BY <1>1, <1>5, <2>2
  <2>4. LineSound(s.line, s.no, gone + s.gone) => LineSound(m, s.no + 1, gone + s.gone)
    BY <1>1, <1>3, <1>12, <2>2, <2>3
  <2>5. CASE byte = "char"
    <3>1. r = Fold(m, s.taken + 1, s.no + 1, s.gone, s.wake, s.echo + 1, FALSE)
      BY <1>1, <1>3, <1>4, <1>2, <1>12, <2>1, <2>5 DEF Receive, Fold, PtyFold, LineOf
    <3>f. r \in PtyFold /\ r.line = m /\ r.no = s.no + 1 /\ r.gone = s.gone /\ r.wake = s.wake
      BY <1>1, <1>3, <3>1, <2>2 DEF Fold, PtyFold
    <3>2. FoldStep(s, r)
      BY <3>f, <1>1, <2>2, <2>3, <2>4 DEF FoldStep
    <3> QED BY <1>4, <3>1, <3>2, FoldGoesOn
  <2>6. CASE byte = "newline"
    <3>1. PICK w : w = Committed(m)
      OBVIOUS
    <3>2. r = Fold(w, s.taken + 1, s.no + 1, s.gone, TRUE, s.echo + 1, FALSE)
      BY <1>1, <1>3, <1>4, <1>2, <1>12, <2>1, <2>6, <3>1 DEF Receive, Fold, PtyFold
    <3>3. /\ w \in LineOf /\ w.canon = m.canon /\ Len(w.input) <= InputSize
          /\ PtyLen(w) >= PtyLen(m) \/ PtyLen(w) >= InputSize
          /\ \A no, lost \in Nat : LineSound(m, no, lost) => LineSound(w, no, lost)
      BY <1>1, <2>2, <3>1, HalfCommitted
    <3>4. /\ PtyLen(w) \in Nat /\ (PtyLen(w) >= PtyLen(s.line) \/ PtyLen(w) >= InputSize)
      BY <1>5, <2>3, <3>3, HasLength, BufferSize
    <3>5. LineSound(s.line, s.no, gone + s.gone) => LineSound(w, s.no + 1, gone + s.gone)
      BY <1>3, <2>3, <2>4, <3>3
    <3>f. r \in PtyFold /\ r.line = w /\ r.no = s.no + 1 /\ r.gone = s.gone /\ r.wake = TRUE
      BY <1>1, <1>3, <3>2, <3>3 DEF Fold, PtyFold
    <3>6. FoldStep(s, r)
      BY <3>f, <2>2, <3>3, <3>4, <3>5 DEF FoldStep
    <3> QED BY <1>4, <3>2, <3>6, FoldGoesOn
  <2> QED BY <1>12, <2>5, <2>6
<1> QED BY <1>1, <1>6, <1>7, <1>8, <1>9, <1>10, <1>11, <1>12 DEF ByteKind

\* f has what is received of the first n bytes, for n up to m.
IsAfter(f, bytes, m) == f = [n \in 0..m |-> IF n = 0 THEN Unreceived ELSE Receive(f[n - 1], bytes[n])]

(* The recursive definition in Received has a solution.                    *)
LEMMA AfterExists ==
    ASSUME NEW bytes, NEW m \in Nat
    PROVE  \E f : IsAfter(f, bytes, m)
<1> DEFINE bad == {n \in Nat : ~\E f : IsAfter(f, bytes, n)}
<1>1. SUFFICES ASSUME m \in bad PROVE FALSE
  OBVIOUS
<1>2. PICK n \in bad : \A k \in bad : n <= k
  <2> HIDE DEF bad
  <2>1. bad \subseteq Nat
    BY DEF bad
  <2> QED BY <1>1, <2>1, HasLeast
<1>3. CASE n = 0
  <2>1. IsAfter([i \in 0..0 |-> Unreceived], bytes, 0)
    BY DEF IsAfter
  <2> QED BY <2>1, <1>2, <1>3
<1>4. CASE n # 0
  <2>1. n - 1 \in Nat /\ n - 1 \notin bad
    BY <1>2, <1>4
  <2>2. PICK f : IsAfter(f, bytes, n - 1)
    BY <2>1
  <2> DEFINE last == Receive(f[n - 1], bytes[n])
             g == [i \in 0..n |-> IF i = n THEN last ELSE f[i]]
  <2>3. \A i \in 0..n : g[i] = IF i = n THEN last ELSE f[i]
    OBVIOUS
  <2>4. \A i \in 0..(n - 1) : f[i] = IF i = 0 THEN Unreceived ELSE Receive(f[i - 1], bytes[i])
    BY <2>2 DEF IsAfter
  <2>5. \A i \in 0..n : g[i] = IF i = 0 THEN Unreceived ELSE Receive(g[i - 1], bytes[i])
    <3> HIDE DEF g
    <3> QED BY <2>3, <2>4, <1>2, <1>4
  <2>6. IsAfter(g, bytes, n)
    BY <2>5 DEF IsAfter
  <2> QED BY <2>6, <1>2
<1> QED BY <1>3, <1>4

(* What tty_receive_bytes makes of a line, however many bytes are written. *)
LEMMA ReceivedSound ==
    ASSUME PtyTypeOK, LineInv, NEW bytes \in Seq(ByteKind)
    PROVE  FoldSound(Received(bytes))
<1>1. Len(bytes) \in Nat /\ \A k \in 1..Len(bytes) : bytes[k] \in ByteKind
  OBVIOUS
<1>2. PICK f : IsAfter(f, bytes, Len(bytes)) /\ Received(bytes) = f[Len(bytes)]
  <2> DEFINE g == CHOOSE x : IsAfter(x, bytes, Len(bytes))
  <2>1. IsAfter(g, bytes, Len(bytes))
    BY <1>1, AfterExists
  <2>2. Received(bytes) = g[Len(bytes)]
    BY DEF Received, IsAfter
  <2> QED BY <2>1, <2>2
<1>3. \A n \in 0..Len(bytes) : f[n] = IF n = 0 THEN Unreceived ELSE Receive(f[n - 1], bytes[n])
  BY <1>2 DEF IsAfter
<1> DEFINE bad == {n \in 0..Len(bytes) : ~FoldSound(f[n])}
<1>4. ASSUME bad # {} PROVE FALSE
  <2>1. PICK n \in bad : \A k \in bad : n <= k
    <3>1. bad \subseteq Nat
      BY <1>1
    <3> HIDE DEF bad
    <3> QED BY <1>4, <3>1, HasLeast
  <2>2. n \in 0..Len(bytes) /\ ~FoldSound(f[n])
    OBVIOUS
  <2>3. CASE n = 0
    <3>1. PICK r : r = Unreceived
      OBVIOUS
    <3>2. r \in PtyFold /\ r.line = line /\ r.no = typedNo /\ r.gone = 0
      BY <3>1 DEF Unreceived, PtyFold, PtyTypeOK
    <3>3. gone + 0 = gone /\ line \in LineOf
      BY DEF PtyTypeOK
    <3>4. PtyLen(line) >= PtyLen(line)
      BY <3>3, HasLength
    <3>5. FoldSound(r)
      BY <3>2, <3>3, <3>4 DEF FoldSound, LineInv
    <3> QED BY <1>1, <1>3, <2>2, <2>3, <3>1, <3>5
  <2>4. CASE n # 0
    BY <1>1, <2>2, <2>4, <2>1, <1>3, ReceiveByte DEF PtyTypeOK
  <2> QED BY <2>3, <2>4
<1> QED BY <1>1, <1>2, <1>4

\* The call c is about to tell the waiters of op.
PtySays(c, op) == c.at \in {"notify", "cleanup", "remove"} /\ Reaches(c.tell, op)
PtyMoves(t, d) == d \in PtyCallOf /\ ptyCall' = [ptyCall EXCEPT ![t] = d]
\* What is told by the call of t is told by d,
PtyCarries(t, d) ==
    /\ \A op \in PtyOps : PtySays(ptyCall[t], op) => PtySays(d, op)
    /\ unheard \subseteq unheard'
\* and what becomes ready is told by d, or made ready by an erase.
PtyHears(d) == \A op \in PtyOps : PtyReady(op)' =>
    \/ PtyReady(op) \/ PtySays(d, op)
    \/ op = "mwrite" /\ \A u \in PtyThread : ptyCall[u].at = "asleep" /\ ptyCall[u].op = "mwrite" => u \in unheard'
\* The pair is listed while it is used, and somebody removes it after that.
PtyUses(t, d) ==
    /\ pty'.master => pty.master /\ pty'.listed = pty.listed
    /\ d.at = "remove" => ~pty'.master
    /\ ~pty'.master /\ pty'.slaves = 0 /\ pty'.listed =>
         \/ PtyFinishing(d)
         \/ ~pty.master /\ pty.slaves = 0 /\ pty.listed /\ ~PtyFinishing(ptyCall[t])

(* The record of a call by what it is at.                                  *)
LEMMA PtyForms ==
    ASSUME NEW c \in PtyCallOf
    PROVE  /\ c.at \in {"again", "asleep", "try"} => c \in PtyBlocked /\ c.op \in PtyOps /\ c.bytes \in Seq(ByteKind)
           /\ c.at = "notify" => c \in PtyTelling /\ c.tell \in PtySigns /\ c.then \in {"user", "cleanup"}
           /\ c.at \in {"user", "open", "cleanup", "remove"} => c \in PtyAlert /\ c.tell \in PtySigns
  BY DEF PtyCallOf, PtyBlocked, PtyTelling, PtyAlert

(* Nobody sleeps through what becomes ready.                               *)
LEMMA PtyHeard ==
    ASSUME PtyTypeOK, NoPtySleeper, NEW t \in PtyThread, NEW d, PtyMoves(t, d), PtyCarries(t, d), PtyHears(d),
           d.at = "asleep" => ~PtyReady(d.op)'
    PROVE  NoPtySleeper'
  BY PtyForms DEF PtyTypeOK, PtyMoves, NoPtySleeper, PtySays, PtyCarries, PtyHears

(* The pair is listed as long as it is of use.                             *)
LEMMA PtyListed ==
    ASSUME PtyTypeOK, PtyNames, NEW t \in PtyThread, NEW d, PtyMoves(t, d), PtyUses(t, d)
    PROVE  PtyNames'
  BY DEF PtyTypeOK, PtyMoves, PtyUses, PtyNames, PtyFinishing

\* The rest of the state after a step
PtyPair == [master : BOOLEAN, slaves : Nat, locked : BOOLEAN, mStop : BOOLEAN, sStop : BOOLEAN, listed : BOOLEAN]
PtyRest == pty \in PtyPair /\ line \in LineOf /\ output \in Nat /\ typedNo \in Nat /\ gone \in Nat /\ mixed \in BOOLEAN /\ LineInv

(* A step of one thread.                                                   *)
LEMMA PtyOne ==
    ASSUME PtyInv, NEW t \in PtyThread, NEW d, PtyMoves(t, d), PtyCarries(t, d), PtyHears(d), PtyUses(t, d),
           d.at = "asleep" => ~PtyReady(d.op)', PtyRest'
    PROVE  PtyInv'
  BY PtyHeard, PtyListed DEF PtyInv, PtyTypeOK, PtyMoves, PtyRest, PtyPair

(* A step that leaves the pair, the line and the output as they are.       *)
LEMMA PtyQuiet ==
    ASSUME PtyInv, NEW t \in PtyThread, NEW d, PtyMoves(t, d), PtyCarries(t, d),
           UNCHANGED <<pty, line, output, typedNo, gone, mixed>>, d.at = "asleep" => ~PtyReady(d.op),
           d.at = "remove" => ~pty.master,
           ~pty.master /\ pty.slaves = 0 /\ PtyFinishing(ptyCall[t]) => PtyFinishing(d)
    PROVE  PtyInv'
<1>1. \A op : PtyReady(op)' <=> PtyReady(op)
  BY DEF PtyReady, Waiting
<1>2. PtyHears(d)
  BY <1>1 DEF PtyHears
<1>3. PtyUses(t, d)
  BY DEF PtyUses
<1>4. PtyRest'
  BY DEF PtyInv, PtyRest, PtyTypeOK, PtyPair, LineInv
<1>5. d.at = "asleep" => ~PtyReady(d.op)'
  BY <1>1
<1> QED BY <1>2, <1>3, <1>4, <1>5, PtyOne

\* The call that tells tell and goes on with then
PtyTeller(tell, then) == IF tell = {} THEN [at |-> then, tell |-> {}] ELSE [at |-> "notify", tell |-> tell, then |-> then]

(* A thread that is left with something to tell.                           *)
LEMMA PtyTells ==
    ASSUME NEW t \in PtyThread, NEW tell \in PtySigns, NEW then \in {"user", "cleanup"}, Telling(t, tell, then)
    PROVE  \E d : /\ PtyMoves(t, d) /\ d.at \notin {"asleep", "remove"} /\ (then = "cleanup" => PtyFinishing(d))
                  /\ \A op : Reaches(tell, op) => PtySays(d, op)
<1>1. PICK d : d = PtyTeller(tell, then)
  OBVIOUS
<1>2. d \in PtyCallOf
  BY <1>1 DEF PtyTeller, PtyCallOf, PtyAlert, PtyTelling, PtySigns
<1>3. PtyMoves(t, d)
  BY <1>1, <1>2 DEF Telling, PtyMoves, PtyTeller
<1>4. d.at \notin {"asleep", "remove"} /\ (then = "cleanup" => PtyFinishing(d))
  BY <1>1 DEF PtyTeller, PtyFinishing
<1>5. \A op : Reaches(tell, op) => PtySays(d, op)
  BY <1>1 DEF PtyTeller, PtySays, Reaches
<1> QED BY <1>3, <1>4, <1>5

(* A call begins with nothing to tell, and does not remove the pair.       *)
LEMMA PtyBegins ==
    ASSUME NEW t \in PtyThread, ptyCall[t].at \in {"user", "try", "again", "open"}, NEW d, unheard \subseteq unheard'
    PROVE  PtyCarries(t, d) /\ ~PtyFinishing(ptyCall[t])
  BY DEF PtyCarries, PtySays, PtyFinishing

(* EAGAIN: the call waits, or returns it.                                  *)
LEMMA BlocksStep ==
    ASSUME PtyInv, NEW t \in PtyThread, NEW op \in PtyOps, NEW bytes \in Seq(ByteKind), Blocks(t, op, bytes),
           ptyCall[t].at \in {"user", "try"}, UNCHANGED <<pty, line, output, typedNo, gone, mixed, unheard>>
    PROVE  PtyInv'
  BY PtyBegins, PtyQuiet DEF Blocks, PtyCallOf, PtyBlocked, PtyAlert, PtyUser, PtySigns, PtyMoves

(* A call returns with something to tell.                                  *)
LEMMA TellsStep ==
    ASSUME PtyInv, NEW t \in PtyThread, NEW tell \in PtySigns, Returning(t, tell),
           ptyCall[t].at \in {"user", "try", "open"}, UNCHANGED <<pty, line, output, typedNo, gone, mixed, unheard>>
    PROVE  PtyInv'
  BY PtyTells, PtyBegins, PtyQuiet DEF Returning

(* A call returns, the pair as it was, and tells what became ready.        *)
LEMMA ReadyStep ==
    ASSUME PtyInv, NEW t \in PtyThread, NEW tell \in PtySigns, Returning(t, tell), ptyCall[t].at \in {"user", "try"},
           UNCHANGED pty, unheard \subseteq unheard', PtyRest',
           \A op \in PtyOps : PtyReady(op)' =>
             \/ PtyReady(op) \/ Reaches(tell, op)
             \/ op = "mwrite" /\ \A u \in PtyThread : ptyCall[u].at = "asleep" /\ ptyCall[u].op = "mwrite" => u \in unheard'
    PROVE  PtyInv'
  BY PtyTells, PtyBegins, PtyOne DEF Returning, PtyHears, PtyUses

(* Waiters are told, and make their calls again.                           *)
LEMMA PtyNotifyStep ==
    ASSUME PtyInv, NEW t \in PtyThread, PtyNotify(t)
    PROVE  PtyInv'
<1> DEFINE told == {s \in PtyThread : ptyCall[s].at = "asleep" /\ Reaches(ptyCall[t].tell, ptyCall[s].op)}
<1>1. /\ ptyCall[t].at = "notify" /\ unheard' = unheard \ told
      /\ ptyCall' = [s \in PtyThread |-> IF s = t THEN [at |-> ptyCall[t].then, tell |-> {}]
                                         ELSE IF s \in told THEN [ptyCall[s] EXCEPT !.at = "try"] ELSE ptyCall[s]]
      /\ UNCHANGED <<pty, line, output, typedNo, gone, mixed>>
  BY DEF PtyNotify, History
<1>2. ptyCall[t] \in PtyCallOf /\ ptyCall[t].then \in {"user", "cleanup"}
  BY <1>1, PtyForms DEF PtyInv, PtyTypeOK
<1>3. [at |-> ptyCall[t].then, tell |-> {}] \in PtyCallOf
  BY <1>2 DEF PtyCallOf, PtyAlert, PtySigns
<1>4. ASSUME NEW s \in told PROVE [ptyCall[s] EXCEPT !.at = "try"] \in PtyCallOf /\ [ptyCall[s] EXCEPT !.at = "try"].at = "try"
  BY PtyForms DEF PtyInv, PtyTypeOK, PtyBlocked, PtyCallOf
<1>5. \A s \in PtyThread :
        /\ s = t => ptyCall'[s] = [at |-> ptyCall[t].then, tell |-> {}]
        /\ s # t /\ s \in told => ptyCall'[s].at = "try"
        /\ s # t /\ s \notin told => ptyCall'[s] = ptyCall[s]
        /\ ptyCall'[s] \in PtyCallOf
  BY <1>1, <1>3, <1>4 DEF PtyInv, PtyTypeOK
<1>6. PtyTypeOK' /\ LineInv'
  BY <1>1, <1>5 DEF PtyInv, PtyTypeOK, LineInv
<1>7. NoPtySleeper'
  BY <1>2, <1>5, <1>1 DEF PtyReady, Waiting, PtyInv, NoPtySleeper, PtySays
<1>8. PtyNames'
  BY <1>1, <1>2, <1>5 DEF PtyFinishing, PtyInv, PtyNames
<1> QED BY <1>6, <1>7, <1>8 DEF PtyInv

(* Before the sleep the call looks again.                                  *)
LEMMA PtySleepStep ==
    ASSUME PtyInv, NEW t \in PtyThread, PtySleep(t)
    PROVE  PtyInv'
<1>1. PICK d : d = [ptyCall[t] EXCEPT !.at = IF PtyReady(ptyCall[t].op) THEN "try" ELSE "asleep"]
  OBVIOUS
<1>2. ptyCall[t] \in PtyBlocked
  BY PtyForms DEF PtyInv, PtyTypeOK, PtySleep
<1>3. d \in PtyCallOf /\ d.at # "remove" /\ (d.at = "asleep" => ~PtyReady(d.op))
  BY <1>1, <1>2 DEF PtyBlocked, PtyCallOf
<1>4. PtyMoves(t, d)
  BY <1>1, <1>3 DEF PtyMoves, PtySleep, PtyInv, PtyTypeOK
<1>5. PtyCarries(t, d) /\ ~PtyFinishing(ptyCall[t])
  BY PtyBegins DEF PtySleep
<1>6. UNCHANGED <<pty, line, output, typedNo, gone, mixed>>
  BY DEF PtySleep, History
<1> QED BY <1>3, <1>4, <1>5, <1>6, PtyQuiet

(* What was typed and read, echoed or dropped, told to those who wait.     *)
LEMMA TakeTypedStep ==
    ASSUME PtyInv, NEW t \in PtyThread, NEW bytes \in Seq(ByteKind), TakeTyped(t, Received(bytes)),
           ptyCall[t].at \in {"user", "try"}, UNCHANGED <<pty, mixed>>
    PROVE  PtyInv'
<1>1. PICK s : s = Received(bytes) /\ FoldSound(s)
  BY ReceivedSound DEF PtyInv
<1>2. s \in PtyFold /\ s.line \in LineOf /\ s.no \in Nat /\ s.gone \in Nat /\ s.echo \in Nat
  BY <1>1 DEF FoldSound, PtyFold
<1>3. PICK tell : tell = (IF s.echo > 0 THEN {<<"master", "READ">>} ELSE {}) \cup (IF s.wake THEN {<<"slave", "READ">>} ELSE {})
  OBVIOUS
<1>4. /\ output' = output + s.echo /\ line' = s.line /\ typedNo' = s.no /\ gone' = gone + s.gone
      /\ Returning(t, tell)
      /\ unheard' = IF s.gone = 0 THEN unheard
                    ELSE unheard \cup {u \in PtyThread : ptyCall[u].at = "asleep" /\ ptyCall[u].op = "mwrite"}
  BY <1>1, <1>3 DEF TakeTyped
<1>5. tell \in PtySigns
  BY <1>3 DEF PtySigns
<1>6. unheard \subseteq unheard'
  BY <1>4
<1>7. PtyRest'
  <2>1. Len(line'.input) <= InputSize /\ (~mixed' => LineSound(line', typedNo', gone'))
    BY <1>1, <1>4 DEF FoldSound
  <2>2. output' \in Nat /\ gone' \in Nat
    BY <1>2, <1>4 DEF PtyInv, PtyTypeOK
  <2>3. LineInv'
    BY <2>1 DEF LineInv, LineSound
  <2> QED BY <1>2, <1>4, <2>2, <2>3 DEF PtyRest, PtyInv, PtyTypeOK, PtyPair
<1>8. ASSUME NEW op \in PtyOps, PtyReady(op)', ~PtyReady(op), ~Reaches(tell, op)
      PROVE  op = "mwrite" /\ s.gone # 0
  <2>1. CASE op = "mread"
    <3>1. output' = output
      <4>1. ~(s.echo > 0)
        BY <1>3, <1>8, <2>1 DEF Reaches, SideOf, EventOf
      <4> QED BY <1>2, <1>4, <4>1 DEF PtyInv, PtyTypeOK
    <3> QED BY <1>8, <2>1, <3>1 DEF PtyReady
  <2>2. CASE op = "sread"
    <3>1. ~s.wake
      BY <1>3, <1>8, <2>2 DEF Reaches, SideOf, EventOf
    <3>2. s.line.input # <<>> => line.input # <<>>
      BY <1>1, <3>1 DEF FoldSound
    <3> QED BY <1>4, <1>8, <2>2, <3>2 DEF PtyReady
  <2>3. CASE op = "swrite"
    BY <1>8, <2>3 DEF PtyReady
  <2>4. CASE op = "mwrite"
    <3>1. PtyLen(line)' < InputSize /\ ~(PtyLen(line) < InputSize)
      BY <1>8, <2>4 DEF PtyReady, Waiting, PtyLen
    <3>2. PtyLen(line)' = PtyLen(s.line)
      BY <1>4 DEF PtyLen
    <3>3. PICK x \in Nat, y \in Nat : x = PtyLen(line) /\ y = PtyLen(s.line)
      BY <1>2, HasLength DEF PtyInv, PtyTypeOK
    <3>4. ~(y >= x) /\ ~(y >= InputSize)
      BY <3>1, <3>2, <3>3, BufferSize
    <3> QED BY <1>1, <2>4, <3>3, <3>4 DEF FoldSound
  <2> QED BY <2>1, <2>2, <2>3, <2>4 DEF PtyOps
<1>9. \A op \in PtyOps : PtyReady(op)' =>
             \/ PtyReady(op) \/ Reaches(tell, op)
             \/ op = "mwrite" /\ \A u \in PtyThread : ptyCall[u].at = "asleep" /\ ptyCall[u].op = "mwrite" => u \in unheard'
  BY <1>4, <1>8
<1> QED BY <1>4, <1>5, <1>6, <1>7, <1>9, ReadyStep

(* What a call that begins is at.                                          *)
LEMMA BeginsAt ==
    ASSUME NEW t \in PtyThread, NEW op, NEW bytes, Begins(t, op, bytes)
    PROVE  ptyCall[t].at \in {"user", "try"}
  BY DEF Begins

(* The sets of events that the calls tell.                                 *)
LEMMA PtySign ==
    /\ {} \in PtySigns /\ {<<"master", "WRITE">>} \in PtySigns /\ {<<"master", "READ">>} \in PtySigns
    /\ {<<"slave", "WRITE">>} \in PtySigns /\ {<<"master", "HUP">>} \in PtySigns
    /\ {<<"master", "WRITE">>, <<"slave", "READ">>} \in PtySigns
    /\ {<<"master", "WRITE">>, <<"master", "HUP">>} \in PtySigns
    /\ {<<"slave", "HUP">>, <<"master", "HUP">>} \in PtySigns
  BY DEF PtySigns

(* The master writes what the line discipline takes.                       *)
LEMMA MasterWriteStep ==
    ASSUME PtyInv, NEW t \in PtyThread, NEW bytes \in Typed, MasterWrite(t, bytes)
    PROVE  PtyInv'
  BY PtyAssumption, BeginsAt, BlocksStep, TellsStep, PtySign, TakeTypedStep DEF MasterWrite, PtyOps

(* The slave reads: up to the end of a line.                               *)
LEMMA ReadLenFits ==
    ASSUME line \in LineOf, line.input # <<>>, NEW room
    PROVE  ReadLen(room) \in Nat /\ ReadLen(room) <= Len(line.input)
<1>1. PICK n \in Seq(PtyItem) : n = line.input
  BY DEF LineOf
<1>2. PICK a \in Nat : a = Len(n) /\ a \in 1..a
  BY <1>1
<1> DEFINE last == {k \in DOMAIN line.input : line.input[k].eol \/ ~line.canon \/ k = Len(line.input) \/ k = room}
<1>3. a \in last /\ last \subseteq 1..a
  BY <1>1, <1>2
<1>4. \E k \in last : \A j \in last : k <= j
  <2>1. last \subseteq Nat /\ last # {}
    BY <1>3
  <2> HIDE DEF last
  <2> QED BY <2>1, HasLeast
<1>5. ReadLen(room) \in last
  <2>1. ReadLen(room) = CHOOSE k \in last : \A j \in last : k <= j
    BY DEF ReadLen
  <2> HIDE DEF last
  <2> QED BY <1>4, <2>1
<1>6. PICK k \in last : k = ReadLen(room)
  BY <1>5
<1>7. k \in 1..a
  BY <1>3
<1>8. k \in Nat /\ k <= a
  BY <1>7
<1> HIDE DEF last
<1> QED BY <1>1, <1>2, <1>6, <1>8

(* The slave reads a line, or waits for one: the master may write again.   *)
LEMMA SlaveReadStep ==
    ASSUME PtyInv, NEW t \in PtyThread, NEW room, SlaveRead(t, room)
    PROVE  PtyInv'
<1>1. ptyCall[t].at \in {"user", "try"} /\ UNCHANGED <<pty, output, typedNo, mixed, unheard>>
  BY BeginsAt DEF SlaveRead
<1>2. CASE line.input = <<>>
  <2>1. UNCHANGED <<line, gone>> /\ (Blocks(t, "sread", <<>>) \/ Returning(t, {}))
    BY <1>2 DEF SlaveRead
  <2>2. <<>> \in Seq(ByteKind)
    OBVIOUS
  <2> QED BY <1>1, <2>1, <2>2, BlocksStep, TellsStep, PtySign DEF PtyOps
<1>3. CASE line.input # <<>>
  <2>0. line \in LineOf /\ gone \in Nat /\ typedNo \in Nat
    BY DEF PtyInv, PtyTypeOK
  <2>1. PICK k \in Nat : k = ReadLen(room) /\ k <= Len(line.input)
    BY <1>3, <2>0, ReadLenFits
  <2>2. PICK m : m = [line EXCEPT !.input = SubSeq(@, k + 1, Len(@))]
    OBVIOUS
  <2>3. line' = m /\ gone' = gone + k /\ Returning(t, {<<"master", "WRITE">>})
    BY <1>3, <2>1, <2>2 DEF SlaveRead, RoomTold
  <2>4. /\ m \in LineOf /\ m.canon = line.canon /\ Len(m.input) = Len(line.input) - k /\ m.half = line.half
        /\ \A no, lost \in Nat : LineSound(line, no, lost) => LineSound(m, no, lost + k)
    BY <2>0, <2>1, <2>2, InputShorter
  <2>5. PtyRest'
    <3>1. Len(line'.input) <= InputSize
      BY <2>0, HasLength, <2>1, BufferSize, <2>3, <2>4 DEF PtyInv, LineInv
    <3>2. ~mixed' => LineSound(line', typedNo', gone')
      BY <1>1, <2>0, <2>3, <2>4 DEF PtyInv, LineInv
    <3>3. LineInv'
      BY <3>1, <3>2 DEF LineInv, LineSound
    <3>4. gone' \in Nat
      BY <2>0, <2>3
    <3> QED BY <1>1, <2>3, <2>4, <3>3, <3>4 DEF PtyRest, PtyInv, PtyTypeOK, PtyPair
  <2>6. \A op \in PtyOps : PtyReady(op)' => PtyReady(op) \/ Reaches({<<"master", "WRITE">>}, op)
    BY <1>1, <1>3 DEF PtyOps, PtyReady, Reaches, SideOf, EventOf
  <2>7. unheard \subseteq unheard' /\ {<<"master", "WRITE">>} \in PtySigns
    BY <1>1, PtySign
  <2> QED BY <1>1, <2>3, <2>5, <2>6, <2>7, ReadyStep
<1> QED BY <1>2, <1>3

(* Less output makes nothing ready.                                        *)
LEMMA OutputLess ==
    ASSUME output \in Nat, output' \in Nat, output' <= output, UNCHANGED <<pty, line>>, NEW op \in PtyOps, PtyReady(op)'
    PROVE  PtyReady(op)
<1>1. output' > 0 => output > 0
  OBVIOUS
<1>2. CASE op = "mread"
  BY <1>1, <1>2 DEF PtyReady
<1>3. CASE op = "mwrite"
  BY <1>3 DEF PtyReady, Waiting
<1>4. CASE op \in {"sread", "swrite"}
  BY <1>4 DEF PtyReady
<1> QED BY <1>2, <1>3, <1>4 DEF PtyOps

(* The master reads.                                                       *)
LEMMA MasterReadStep ==
    ASSUME PtyInv, NEW t \in PtyThread, MasterRead(t)
    PROVE  PtyInv'
<1>1. ptyCall[t].at \in {"user", "try"} /\ UNCHANGED <<pty, line, unheard, typedNo, gone, mixed>>
  BY BeginsAt DEF MasterRead, History
<1>2. CASE Blocks(t, "mread", <<>>) /\ UNCHANGED output
  <2>2. <<>> \in Seq(ByteKind)
    OBVIOUS
  <2> QED BY <1>1, <1>2, <2>2, BlocksStep DEF PtyOps
<1>3. CASE Returning(t, {}) /\ Dequeued
  <2>1. output' \in Nat /\ output' <= output /\ output \in Nat
    BY <1>3 DEF Dequeued, PtyInv, PtyTypeOK
  <2>2. PtyRest'
    BY <1>1, <2>1 DEF PtyRest, PtyInv, PtyTypeOK, PtyPair, LineInv
  <2>3. \A op \in PtyOps : PtyReady(op)' => PtyReady(op)
    BY <1>1, <2>1, OutputLess
  <2>4. unheard \subseteq unheard' /\ {} \in PtySigns
    BY <1>1, PtySign
  <2> QED BY <1>1, <1>3, <2>2, <2>3, <2>4, ReadyStep
<1> QED BY <1>2, <1>3 DEF MasterRead

(* More output for the master: it is told.                                 *)
LEMMA OutputStep ==
    ASSUME PtyInv, NEW t \in PtyThread, output' = output + 1, Returning(t, {<<"master", "READ">>}),
           ptyCall[t].at \in {"user", "try"}, UNCHANGED <<pty, line, unheard, typedNo, gone, mixed>>
    PROVE  PtyInv'
<1>1. output' \in Nat
  BY DEF PtyInv, PtyTypeOK
<1>2. PtyRest'
  BY <1>1 DEF PtyRest, PtyInv, PtyTypeOK, PtyPair, LineInv
<1>3. \A op \in PtyOps : PtyReady(op)' => PtyReady(op) \/ Reaches({<<"master", "READ">>}, op)
  BY DEF PtyOps, PtyReady, Waiting, Reaches, SideOf, EventOf
<1>4. unheard \subseteq unheard' /\ {<<"master", "READ">>} \in PtySigns
  BY PtySign
<1> QED BY <1>2, <1>3, <1>4, ReadyStep

(* The slave writes what the master is told of.                            *)
LEMMA SlaveWriteStep ==
    ASSUME PtyInv, NEW t \in PtyThread, SlaveWrite(t)
    PROVE  PtyInv'
<1>1. ptyCall[t].at \in {"user", "try"} /\ UNCHANGED <<pty, line, unheard, typedNo, gone, mixed>>
  BY BeginsAt DEF SlaveWrite, History
<1>2. CASE Blocks(t, "swrite", <<>>) /\ UNCHANGED output
  <2>2. <<>> \in Seq(ByteKind)
    OBVIOUS
  <2> QED BY <1>1, <1>2, <2>2, BlocksStep DEF PtyOps
<1>3. CASE Returning(t, {}) /\ UNCHANGED output
  BY <1>1, <1>3, TellsStep, PtySign
<1>4. CASE output' = output + 1 /\ Returning(t, {<<"master", "READ">>})
  BY <1>1, <1>4, OutputStep
<1> QED BY <1>2, <1>3, <1>4 DEF SlaveWrite

(* TCSETS: a half typed line stays, and is excepted.                       *)
LEMMA SetTermiosStep ==
    ASSUME PtyInv, NEW t \in PtyThread, NEW canon \in BOOLEAN, SetTermios(t, canon)
    PROVE  PtyInv'
<1>0. line \in LineOf /\ gone \in Nat /\ typedNo \in Nat /\ mixed \in BOOLEAN
  BY DEF PtyInv, PtyTypeOK
<1>1. PICK m : m = [line EXCEPT !.canon = canon]
  OBVIOUS
<1>2. m \in LineOf /\ m.input = line.input /\ m.half = line.half
  BY <1>0, <1>1 DEF LineOf
<1>3. line' = m /\ mixed' = (mixed \/ line.half # <<>>) /\ UNCHANGED <<pty, output, ptyCall, typedNo, gone, unheard>>
  BY <1>1 DEF SetTermios
<1>4. LineInv'
  BY <1>2, <1>3 DEF PtyInv, LineInv, LineSound
<1>5. mixed' \in BOOLEAN
  BY <1>3
<1>6. PtyTypeOK'
  BY <1>2, <1>3, <1>5 DEF PtyInv, PtyTypeOK
<1>7. \A op : PtyReady(op)' <=> PtyReady(op)
  BY <1>2, <1>3 DEF PtyReady, Waiting
<1>8. NoPtySleeper' /\ PtyNames'
  BY <1>3, <1>7 DEF PtyInv, NoPtySleeper, PtyNames
<1> QED BY <1>4, <1>6, <1>8 DEF PtyInv

(* TCFLSH: all that waits is gone.                                         *)
LEMMA FlushInputStep ==
    ASSUME PtyInv, NEW t \in PtyThread, FlushInput(t)
    PROVE  PtyInv'
<1>0. line \in LineOf /\ gone \in Nat /\ typedNo \in Nat
  BY DEF PtyInv, PtyTypeOK
<1>1. PICK m : m = [line EXCEPT !.input = <<>>, !.half = <<>>]
  OBVIOUS
<1>2. m \in LineOf /\ m.input = <<>> /\ m.half = <<>>
  <2>1. <<>> \in Seq(PtyItem)
    OBVIOUS
  <2> QED BY <1>0, <1>1, <2>1 DEF LineOf
<1>3. /\ line' = m /\ gone' = gone + Waiting /\ UNCHANGED <<pty, output, typedNo, mixed, unheard>>
      /\ ptyCall[t].at = "user" /\ Returning(t, {<<"master", "WRITE">>, <<"slave", "READ">>})
  BY <1>1 DEF FlushInput, Asks
<1>4. PICK a \in Nat, b \in Nat, g \in Nat : a = Len(line.input) /\ b = Len(line.half) /\ g = gone
  BY <1>0, HasLength
<1>5. gone' = g + (a + b) /\ gone' \in Nat
  <2>1. Waiting = a + b
    BY <1>4 DEF Waiting
  <2>2. gone' = g + (a + b)
    BY <1>3, <1>4, <2>1
  <2> QED BY <2>2
<1>6. LineInv'
  <2>1. Len(m.input) = 0 /\ Len(m.half) = 0
    BY <1>2
  <2>2. ASSUME ~mixed' PROVE LineSound(m, typedNo, gone')
    <3>1. g + a + b = typedNo
      BY <1>3, <1>4, <2>2 DEF PtyInv, LineInv, LineSound
    <3>2. gone' + 0 + 0 = typedNo
      BY <1>5, <3>1
    <3> QED BY <1>2, <2>1, <3>2, BufferSize DEF LineSound, PtyOrdered
  <2> QED BY <1>3, <2>1, <2>2, BufferSize DEF LineInv, LineSound
<1>7. PtyRest'
  BY <1>2, <1>3, <1>5, <1>6 DEF PtyRest, PtyInv, PtyTypeOK, PtyPair
<1>8. \A op \in PtyOps : PtyReady(op)' => PtyReady(op) \/ Reaches({<<"master", "WRITE">>, <<"slave", "READ">>}, op)
  BY <1>3 DEF PtyOps, PtyReady, Reaches, SideOf, EventOf
<1>9. unheard \subseteq unheard' /\ {<<"master", "WRITE">>, <<"slave", "READ">>} \in PtySigns
  BY <1>3, PtySign
<1> QED BY <1>3, <1>7, <1>8, <1>9, ReadyStep

(* TCFLSH at the master: its output is gone.                               *)
LEMMA FlushReadableStep ==
    ASSUME PtyInv, NEW t \in PtyThread, FlushReadable(t)
    PROVE  PtyInv'
<1>1. PICK tell \in PtySigns : Returning(t, tell)
  BY PtySign DEF FlushReadable
<1>2. /\ output' = 0 /\ UNCHANGED <<pty, line, unheard, typedNo, gone, mixed>> /\ ptyCall[t].at = "user"
  BY DEF FlushReadable, History, Asks
<1>3. PtyRest'
  BY <1>2 DEF PtyRest, PtyInv, PtyTypeOK, PtyPair, LineInv
<1>4. \A op \in PtyOps : PtyReady(op)' => PtyReady(op)
  BY <1>2, OutputLess DEF PtyInv, PtyTypeOK
<1>5. unheard \subseteq unheard'
  BY <1>2
<1> QED BY <1>1, <1>2, <1>3, <1>4, <1>5, ReadyStep

(* What the invariant says of the pair, the line and the calls.            *)
LEMMA PtyTyped ==
    ASSUME PtyInv
    PROVE  /\ pty \in PtyPair /\ line \in LineOf /\ output \in Nat /\ typedNo \in Nat /\ gone \in Nat /\ mixed \in BOOLEAN
           /\ LineInv /\ PtyNames /\ ptyCall \in [PtyThread -> PtyCallOf]
  BY DEF PtyInv, PtyTypeOK, PtyPair

(* Only the pair changes.                                                  *)
LEMMA PairRest ==
    ASSUME PtyInv, pty' \in PtyPair, UNCHANGED <<line, output, typedNo, gone, mixed>>
    PROVE  PtyRest'
  BY PtyTyped DEF PtyRest, LineInv

(* TCXONC: output goes on, and the writers of that side are told.          *)
LEMMA StopStep ==
    ASSUME PtyInv, NEW t \in PtyThread, NEW side \in {"master", "slave"}, NEW stop \in BOOLEAN, Stop(t, side, stop)
    PROVE  PtyInv'
<1>1. PICK tell : tell = IF pty' = pty THEN {} ELSE {<<side, "WRITE">>}
  OBVIOUS
<1>2. tell \in PtySigns /\ Returning(t, tell)
  BY <1>1, PtySign DEF Stop
<1>3. /\ ptyCall[t].at = "user" /\ UNCHANGED <<line, output, unheard, typedNo, gone, mixed>>
      /\ pty' = IF side = "master" THEN [pty EXCEPT !.mStop = stop] ELSE [pty EXCEPT !.sStop = stop]
  BY DEF Stop, Asks, History
<1>4. /\ pty' \in PtyPair /\ pty'.master = pty.master /\ pty'.slaves = pty.slaves /\ pty'.listed = pty.listed
      /\ (side = "master" => pty'.sStop = pty.sStop) /\ (side = "slave" => pty'.mStop = pty.mStop)
  BY <1>3, PtyTyped DEF PtyPair
<1>5. PICK d : PtyMoves(t, d) /\ d.at \notin {"asleep", "remove"} /\ \A op : Reaches(tell, op) => PtySays(d, op)
  BY <1>2, PtyTells DEF Returning
<1>6. PtyCarries(t, d) /\ ~PtyFinishing(ptyCall[t])
  BY <1>3, PtyBegins
<1>7. PtyHears(d)
  <2>1. ASSUME NEW op \in PtyOps, PtyReady(op)', ~PtyReady(op) PROVE Reaches(tell, op)
    <3>1. pty' # pty
      BY <1>3, <2>1 DEF PtyReady, Waiting
    <3>2. CASE op \in {"mread", "sread"}
      BY <1>3, <1>4, <2>1, <3>2 DEF PtyReady
    <3>3. CASE op = "mwrite"
      <4>1. side = "master"
        BY <1>3, <1>4, <2>1, <3>3 DEF PtyReady, Waiting
      <4> QED BY <1>1, <3>1, <3>3, <4>1 DEF Reaches, SideOf, EventOf
    <3>4. CASE op = "swrite"
      <4>1. side = "slave"
        BY <1>3, <1>4, <2>1, <3>4 DEF PtyReady
      <4> QED BY <1>1, <3>1, <3>4, <4>1 DEF Reaches, SideOf, EventOf
    <3> QED BY <3>2, <3>3, <3>4 DEF PtyOps
  <2> QED BY <1>5, <2>1 DEF PtyHears
<1>8. PtyUses(t, d)
  BY <1>4, <1>5, <1>6 DEF PtyUses
<1>9. PtyRest'
  BY <1>3, <1>4, PairRest
<1> QED BY <1>5, <1>6, <1>7, <1>8, <1>9, PtyOne

(* TCIOFF, TCION: a character for the other side.                          *)
LEMMA SendFlowStep ==
    ASSUME PtyInv, NEW t \in PtyThread, NEW side, SendFlow(t, side)
    PROVE  PtyInv'
<1>1. ptyCall[t].at \in {"user", "try"} /\ UNCHANGED <<pty, mixed>>
  BY DEF SendFlow, Asks
<1>2. CASE TakeTyped(t, Received(<<"char">>))
  <2>1. <<"char">> \in Seq(ByteKind)
    BY DEF ByteKind
  <2> QED BY <1>1, <1>2, <2>1, TakeTypedStep
<1>3. CASE output' = output + 1 /\ Returning(t, {<<"master", "READ">>}) /\ UNCHANGED <<line, unheard, typedNo, gone>>
  BY <1>1, <1>3, OutputStep
<1> QED BY <1>2, <1>3 DEF SendFlow

(* TIOCSPTLCK changes nothing a waiter looks at.                           *)
LEMMA SetLockedStep ==
    ASSUME PtyInv, NEW t \in PtyThread, NEW locked \in BOOLEAN, SetLocked(t, locked)
    PROVE  PtyInv'
<1>1. pty' = [pty EXCEPT !.locked = locked] /\ UNCHANGED <<line, output, ptyCall, unheard, typedNo, gone, mixed>>
  BY DEF SetLocked, History
<1>2. /\ pty' \in PtyPair /\ pty'.master = pty.master /\ pty'.slaves = pty.slaves /\ pty'.listed = pty.listed
      /\ pty'.sStop = pty.sStop /\ pty'.mStop = pty.mStop
  BY <1>1, PtyTyped DEF PtyPair
<1>3. PtyTypeOK' /\ LineInv'
  BY <1>1, <1>2, PtyTyped DEF PtyTypeOK, PtyPair, LineInv
<1>4. \A op : PtyReady(op)' <=> PtyReady(op)
  BY <1>1, <1>2 DEF PtyReady, Waiting
<1>5. NoPtySleeper' /\ PtyNames'
  BY <1>1, <1>2, <1>4 DEF PtyInv, NoPtySleeper, PtyNames
<1> QED BY <1>3, <1>5 DEF PtyInv

(* A slave is looked up.                                                   *)
LEMMA LookupSlaveStep ==
    ASSUME PtyInv, NEW t \in PtyThread, LookupSlave(t)
    PROVE  PtyInv'
  BY PtyBegins, PtyQuiet DEF PtyCallOf, PtyAlert, PtySigns, LookupSlave, PtyMoves, History

(* and opened, unless the pair is locked: the first one is told.           *)
LEMMA OpenSlaveStep ==
    ASSUME PtyInv, NEW t \in PtyThread, OpenSlave(t)
    PROVE  PtyInv'
<1>1. ptyCall[t].at = "open" /\ UNCHANGED <<line, output, unheard, typedNo, gone, mixed>>
  BY DEF OpenSlave, History
<1>2. CASE pty.locked
  BY <1>2, <1>1, TellsStep, PtySign DEF OpenSlave
<1>3. CASE ~pty.locked
  <2>1. PICK tell : tell = IF pty.slaves = 0 THEN {<<"master", "WRITE">>, <<"master", "HUP">>} ELSE {}
    OBVIOUS
  <2>2. tell \in PtySigns /\ Returning(t, tell) /\ pty' = [pty EXCEPT !.slaves = @ + 1]
    BY <1>3, <2>1, PtySign DEF OpenSlave
  <2>3. PICK x \in Nat : x = pty.slaves
    BY PtyTyped DEF PtyPair
  <2>4. /\ pty' \in PtyPair /\ pty'.master = pty.master /\ pty'.slaves = x + 1 /\ pty'.listed = pty.listed
        /\ pty'.sStop = pty.sStop /\ pty'.mStop = pty.mStop
    BY <2>2, <2>3, PtyTyped DEF PtyPair
  <2>5. PICK d : PtyMoves(t, d) /\ d.at \notin {"asleep", "remove"}
    BY <2>2, PtyTells DEF Returning
  <2>6. PtyCarries(t, d) /\ ~PtyFinishing(ptyCall[t])
    BY <1>1, PtyBegins
  <2>7. x + 1 # 0
    OBVIOUS
  <2>8. PtyHears(d)
    BY <1>1, <2>4, <2>7 DEF PtyReady, Waiting, PtyOps, PtyHears
  <2>9. PtyUses(t, d)
    BY <2>4, <2>5, <2>7 DEF PtyUses
  <2>10. PtyRest'
    BY <1>1, <2>4, PairRest
  <2> QED BY <2>5, <2>6, <2>8, <2>9, <2>10, PtyOne
<1> QED BY <1>2, <1>3

(* The last slave to close hangs up the master, and cleans up.             *)
LEMMA CloseSlaveStep ==
    ASSUME PtyInv, NEW t \in PtyThread, CloseSlave(t)
    PROVE  PtyInv'
<1>1. /\ ptyCall[t].at = "user" /\ UNCHANGED <<line, output, unheard, typedNo, gone, mixed>>
      /\ pty' = [pty EXCEPT !.slaves = @ - 1] /\ pty.slaves > 0
  BY DEF CloseSlave, History
<1>2. PICK x \in Nat : x = pty.slaves
  BY PtyTyped DEF PtyPair
<1>3. x - 1 \in Nat /\ x # 0
  BY <1>1, <1>2
<1>4. /\ pty' \in PtyPair /\ pty'.master = pty.master /\ pty'.slaves = x - 1 /\ pty'.listed = pty.listed
      /\ pty'.sStop = pty.sStop /\ pty'.mStop = pty.mStop
  BY <1>1, <1>2, <1>3, PtyTyped DEF PtyPair
<1>5. PtyRest'
  BY <1>1, <1>4, PairRest
<1>6. CASE x = 1
  <2>1. PICK tell : tell = {<<"master", "HUP">>}
    OBVIOUS
  <2>2. tell \in PtySigns /\ Telling(t, tell, "cleanup")
    BY <1>2, <1>6, <2>1, PtySign DEF CloseSlave
  <2>3. PICK d : PtyMoves(t, d) /\ d.at \notin {"asleep", "remove"} /\ PtyFinishing(d)
                 /\ \A op : Reaches(tell, op) => PtySays(d, op)
    BY <2>2, PtyTells
  <2>4. PtyCarries(t, d)
    BY <1>1, PtyBegins
  <2>5. PtyHears(d)
    BY <2>1, <1>1, <1>4, <2>3 DEF Reaches, SideOf, PtyReady, PtyOps, PtyHears
  <2>6. PtyUses(t, d)
    BY <1>4, <2>3 DEF PtyUses
  <2> QED BY <1>5, <2>3, <2>4, <2>5, <2>6, PtyOne
<1>7. CASE x # 1
  <2>1. ptyCall' = ptyCall
    BY <1>2, <1>7 DEF CloseSlave
  <2>2. x - 1 # 0
    BY <1>3, <1>7
  <2>3. \A op \in PtyOps : PtyReady(op)' => PtyReady(op)
    BY <1>1, <1>4, <2>2 DEF PtyReady, Waiting, PtyOps
  <2>4. NoPtySleeper'
    BY PtyForms, PtyTyped, <1>1, <2>1, <2>3 DEF PtyInv, NoPtySleeper
  <2>5. PtyNames'
    BY <1>4, <2>1, <2>2, PtyTyped DEF PtyNames
  <2>6. PtyTypeOK' /\ LineInv'
    BY <1>5, <2>1, PtyTyped DEF PtyRest, PtyTypeOK, PtyPair
  <2> QED BY <2>4, <2>5, <2>6 DEF PtyInv
<1> QED BY <1>6, <1>7

(* The master closes: it cleans up before it tells anybody.                *)
LEMMA CloseMasterStep ==
    ASSUME PtyInv, NEW t \in PtyThread, CloseMaster(t)
    PROVE  PtyInv'
<1>1. PICK tell : tell = {<<"slave", "HUP">>, <<"master", "HUP">>}
  OBVIOUS
<1>2. PICK d : d = [at |-> "cleanup", tell |-> tell]
  OBVIOUS
<1>3. d \in PtyCallOf /\ d.at = "cleanup" /\ d.tell = tell
  BY <1>1, <1>2, PtySign DEF PtyCallOf, PtyAlert
<1>4. /\ ptyCall[t].at = "user" /\ UNCHANGED <<line, output, unheard, typedNo, gone, mixed>>
      /\ pty' = [pty EXCEPT !.master = FALSE] /\ PtyMoves(t, d)
  BY <1>1, <1>2, <1>3 DEF CloseMaster, History, PtyMoves
<1>5. pty' \in PtyPair /\ pty'.master = FALSE
  BY <1>4, PtyTyped DEF PtyPair
<1>6. PtyCarries(t, d)
  BY <1>4, PtyBegins
<1>7. PtyHears(d)
  BY <1>1, <1>3 DEF PtyHears, PtySays, Reaches, SideOf
<1>8. PtyUses(t, d)
  BY <1>3, <1>5 DEF PtyUses, PtyFinishing
<1>9. PtyRest'
  BY <1>4, <1>5, PairRest
<1> QED BY <1>3, <1>4, <1>6, <1>7, <1>8, <1>9, PtyOne

(* cleanup_if_unused: who finds the pair unused will remove it.            *)
LEMMA CleanupStep ==
    ASSUME PtyInv, NEW t \in PtyThread, Cleanup(t)
    PROVE  PtyInv'
<1>1. ptyCall[t].at = "cleanup" /\ UNCHANGED <<pty, line, output, unheard, typedNo, gone, mixed>>
  BY DEF Cleanup, History
<1>2. ptyCall[t] \in PtyAlert /\ ptyCall[t].tell \in PtySigns
  BY <1>1, PtyForms, PtyTyped
<1>3. CASE PtyUnused
  <2>1. PICK d : d = [ptyCall[t] EXCEPT !.at = "remove"]
    OBVIOUS
  <2>2. d \in PtyCallOf /\ d.at = "remove" /\ d.tell = ptyCall[t].tell
    BY <1>2, <2>1 DEF PtyAlert, PtyCallOf
  <2>3. PtyMoves(t, d)
    BY <1>3, <2>1, <2>2, PtyTyped DEF Cleanup, PtyMoves
  <2>4. PtyCarries(t, d) /\ PtyFinishing(d)
    BY <1>1, <2>2 DEF PtyCarries, PtySays, PtyFinishing
  <2> QED BY <1>1, <1>3, <2>2, <2>3, <2>4, PtyQuiet DEF PtyUnused
<1>4. CASE ~PtyUnused
  <2>1. Returning(t, ptyCall[t].tell)
    BY <1>4 DEF Cleanup
  <2>2. PICK d : PtyMoves(t, d) /\ d.at \notin {"asleep", "remove"} /\ \A op : Reaches(ptyCall[t].tell, op) => PtySays(d, op)
    BY <1>2, <2>1, PtyTells DEF Returning
  <2>3. PtyCarries(t, d)
    BY <1>1, <2>2 DEF PtyCarries, PtySays
  <2> QED BY <1>1, <1>4, <2>2, <2>3, PtyQuiet DEF PtyUnused
<1> QED BY <1>3, <1>4

(* The pair is removed.                                                    *)
LEMMA RemovePtyStep ==
    ASSUME PtyInv, NEW t \in PtyThread, RemovePty(t)
    PROVE  PtyInv'
<1>1. /\ ptyCall[t].at = "remove" /\ UNCHANGED <<line, output, unheard, typedNo, gone, mixed>>
      /\ pty' = [pty EXCEPT !.listed = FALSE] /\ Returning(t, ptyCall[t].tell)
  BY DEF RemovePty, History
<1>2. ptyCall[t].tell \in PtySigns /\ ~pty.master
  BY <1>1, PtyForms, PtyTyped DEF PtyNames
<1>3. PICK d : PtyMoves(t, d) /\ d.at \notin {"asleep", "remove"} /\ \A op : Reaches(ptyCall[t].tell, op) => PtySays(d, op)
  BY <1>1, <1>2, PtyTells DEF Returning
<1>4. PtyCarries(t, d)
  BY <1>1, <1>3 DEF PtyCarries, PtySays
<1>5. /\ pty' \in PtyPair /\ pty'.master = pty.master /\ pty'.slaves = pty.slaves /\ pty'.listed = FALSE
      /\ pty'.sStop = pty.sStop /\ pty'.mStop = pty.mStop
  BY <1>1, PtyTyped DEF PtyPair
<1>6. PtyHears(d)
  BY <1>1, <1>5 DEF PtyHears, PtyReady, Waiting
<1>7. PtyUses(t, d)
  BY <1>2, <1>3, <1>5 DEF PtyUses
<1>8. PtyRest'
  BY <1>1, <1>5, PairRest
<1> QED BY <1>3, <1>4, <1>6, <1>7, <1>8, PtyOne

(* The pair is new.                                                        *)
LEMMA PtyInitially ==
    ASSUME PtyInit
    PROVE  PtyInv
<1>1. <<>> \in Seq(PtyItem) /\ Len(<<>>) = 0
  OBVIOUS
<1>2. PtyUser \in PtyCallOf /\ PtyUser.at = "user"
  BY DEF PtyUser, PtyCallOf, PtyAlert, PtySigns
<1>3. line \in LineOf /\ line.input = <<>> /\ line.half = <<>> /\ line.canon = TRUE
  BY <1>1 DEF PtyInit, LineOf
<1>4. PtyTypeOK
  BY <1>2, <1>3 DEF PtyInit, PtyTypeOK
<1>5. LineInv
  BY <1>1, <1>3, BufferSize DEF PtyInit, LineInv, LineSound, PtyOrdered
<1>6. PtyNames /\ NoPtySleeper
  BY <1>2 DEF PtyInit, PtyNames, NoPtySleeper
<1> QED BY <1>4, <1>5, <1>6 DEF PtyInv

(* Every step of a pseudo terminal keeps the invariant.                    *)
LEMMA PtyKept ==
    ASSUME PtyInv, [PtyNext]_ptyVars
    PROVE  PtyInv'
<1>1. CASE UNCHANGED ptyVars
  BY <1>1 DEF ptyVars, PtyReady, Waiting, PtyInv, PtyTypeOK, LineInv, PtyNames, NoPtySleeper
<1>2. CASE PtyNext
  <2>1. PICK t \in PtyThread :
          \/ PtyNotify(t) \/ PtySleep(t)
          \/ \E bytes \in Typed : MasterWrite(t, bytes)
          \/ \E room \in 1..InputSize : SlaveRead(t, room)
          \/ MasterRead(t) \/ SlaveWrite(t)
          \/ \E canon \in BOOLEAN : SetTermios(t, canon) \/ SetLocked(t, canon)
          \/ FlushInput(t) \/ FlushReadable(t)
          \/ \E side \in {"master", "slave"}, stop \in BOOLEAN : Stop(t, side, stop)
          \/ \E side \in {"master", "slave"} : SendFlow(t, side)
          \/ LookupSlave(t) \/ OpenSlave(t) \/ CloseSlave(t) \/ CloseMaster(t)
          \/ Cleanup(t) \/ RemovePty(t)
    BY <1>2 DEF PtyNext
  <2>2. CASE PtyNotify(t) \/ PtySleep(t) \/ MasterRead(t) \/ SlaveWrite(t) \/ FlushInput(t) \/ FlushReadable(t)
    BY <2>2, PtyNotifyStep, PtySleepStep, MasterReadStep, SlaveWriteStep, FlushInputStep, FlushReadableStep
  <2>3. CASE \E bytes \in Typed : MasterWrite(t, bytes)
    BY <2>3, MasterWriteStep
  <2>4. CASE \E room \in 1..InputSize : SlaveRead(t, room)
    BY <2>4, SlaveReadStep
  <2>5. CASE \E canon \in BOOLEAN : SetTermios(t, canon) \/ SetLocked(t, canon)
    BY <2>5, SetTermiosStep, SetLockedStep
  <2>6. CASE \E side \in {"master", "slave"}, stop \in BOOLEAN : Stop(t, side, stop)
    BY <2>6, StopStep
  <2>7. CASE \E side \in {"master", "slave"} : SendFlow(t, side)
    BY <2>7, SendFlowStep
  <2>8. CASE LookupSlave(t) \/ OpenSlave(t) \/ CloseSlave(t) \/ CloseMaster(t) \/ Cleanup(t) \/ RemovePty(t)
    BY <2>8, LookupSlaveStep, OpenSlaveStep, CloseSlaveStep, CloseMasterStep, CleanupStep, RemovePtyStep
  <2> QED BY <2>1, <2>2, <2>3, <2>4, <2>5, <2>6, <2>7, <2>8
<1> QED BY <1>1, <1>2

(* Sound lines are in order across the ready and the half typed part.      *)
LEMMA PtyConcluded ==
    ASSUME PtyInv
    PROVE  PtySound
<1>1. TypedInOrder
  <2>1. SUFFICES ASSUME ~mixed
                 PROVE  /\ gone + Waiting = typedNo
                        /\ \A i \in 1..(Len(line.input \o line.half) - 1) :
                              (line.input \o line.half)[i].no < (line.input \o line.half)[i + 1].no
    BY DEF TypedInOrder
  <2>2. LineSound(line, typedNo, gone)
    BY <2>1, PtyTyped DEF LineInv
  <2>3. PICK n \in Seq(PtyItem), h \in Seq(PtyItem) : n = line.input /\ h = line.half
    BY PtyTyped DEF LineOf
  <2>4. PICK a \in Nat, b \in Nat, g \in Nat : a = Len(n) /\ b = Len(h) /\ g = gone
    BY PtyTyped
  <2>5. g + a + b = typedNo /\ PtyOrdered(n, h, typedNo)
    BY <2>2, <2>3, <2>4 DEF LineSound
  <2>6. Waiting = a + b /\ g + (a + b) = typedNo
    <3>1. Waiting = a + b
      BY <2>3, <2>4 DEF Waiting
    <3>2. g + (a + b) = typedNo
      BY <2>5
    <3> QED BY <3>1, <3>2
  <2>7. PICK all : all = n \o h
    OBVIOUS
  <2>8. PICK c \in Nat : Len(all) = c
    BY <2>7, ConcatProperties
  <2>9. \A i, j \in 1..c : i < j => all[i].no < all[j].no
    BY <2>5, <2>7, <2>8, OrderedWhole DEF PtyOrdered
  <2>10. \A i \in 1..(c - 1) : all[i].no < all[i + 1].no
    BY <2>9
  <2> QED BY <2>3, <2>4, <2>6, <2>7, <2>8, <2>10
<1>2. ListedWhileUsed
  BY DEF PtyInv, PtyNames, PtyFinishing, ListedWhileUsed
<1> QED BY <1>1, <1>2 DEF PtySound, PtyInv

(* A pseudo terminal loses no wake-up, no byte and no name: fs/pty.rs and  *)
(* the line discipline of aether-terminal, for any number of threads, any  *)
(* size of the input buffer and writes of any length.                      *)
THEOREM Terminals == PtySpec => []PtySound
<1>1. PtyInit => PtyInv
  BY PtyInitially
<1>2. PtyInv /\ [PtyNext]_ptyVars => PtyInv'
  BY PtyKept
<1>3. PtyInv => PtySound
  BY PtyConcluded
<1> QED BY <1>1, <1>2, <1>3, PTL DEF PtySpec
=============================================================================
