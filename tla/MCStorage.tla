----------------------------- MODULE MCStorage -----------------------------
(* The TLC instance of Namespace, Inotify, PageCache, BlockDevice, SysvShm, *)
(* Memfd, MmapRegions and FileIo.  They share no state: an initial state    *)
(* picks the subject, and only its actions are taken, so the run is the     *)
(* union of eight separate ones.                                            *)
EXTENDS Namespace, Inotify, PageCache, BlockDevice, SysvShm, Memfd, MmapRegions, FileIo, TLC

CONSTANTS t1, t2, m1, m2, h1, v1, q1, wholeDisk, part1

VARIABLE subject

allVars == <<subject, nsVars, inoVars, pcVars, blkVars, shmVars, mfVars, rgVars, ioVars>>

MCTree(f) == [i \in Inodes |-> IF i \in DOMAIN f THEN f[i] ELSE Unmade]
MCDir(e) == [Made("dir", <<>>, 2) EXCEPT !.entries = e @@ NoEntries]
MCFile == Made("file", <<>>, 1)
MCEmpty == MCTree(<<MCDir(<<>>)>>)
MCTrees == {MCEmpty, MCTree(<<MCDir("a" :> 2), MCDir("b" :> 3), MCDir(<<>>)>>),
            MCTree(<<MCDir("a" :> 2 @@ "b" :> 3), MCDir("a" :> 4), MCFile, MCFile>>)}
MCTargets == {<<"a">>}
MCNsBudgets == {[creations |-> 2, removals |-> 2, mounts |-> 0],
                [creations |-> 0, removals |-> 1, mounts |-> 2]}

MCWatchMasks == {{"delete", "create"}, {"delete_self", "oneshot", "moved_from"}}

MCExtents == wholeDisk :> [first |-> 0, count |-> 3] @@ part1 :> [first |-> 1, count |-> 2]

MCSealSets == {{"grow", "shrink", "write"}, {"seal"}, {"write"}}
MCMfBudgets == {[calls |-> 3, stores |-> 0], [calls |-> 2, stores |-> 2]}

MCRequests == {[from |-> "anon", offset |-> 0, write |-> TRUE],
               [from |-> "buffered", offset |-> 0, write |-> FALSE],
               [from |-> "shared", offset |-> 0, write |-> TRUE]}

MCIoSetup(kind, nonblock, append, ops, calls, places) ==
    [kind |-> kind, nonblock |-> nonblock, append |-> append, ops |-> ops, calls |-> calls, places |-> places]
\* Appends that meet; a full pipe; positions and offsets; copies into a full channel
MCAppends == MCIoSetup("pipe", FALSE, IoFile, {"read", "write", "pwrite", "lseek"}, 3, IoFile)
MCIoSetups ==
    {MCAppends, MCIoSetup("pipe", FALSE, {}, {"read", "write"}, 3, {"channel"}),
     MCIoSetup("pipe", FALSE, {}, {"pread", "pwrite", "read", "write"}, 2, IoFile)}
    \cup {MCIoSetup("socket", n, {}, {"read", "write", "sendfile"}, 3, {"channel"}) : n \in BOOLEAN}
    \cup {MCIoSetup("tty", n, {}, {"write", "sendfile", "copy", "read"}, 2, {"channel"} \cup IoFile) : n \in BOOLEAN}
MCIoVectors == {<<1>>, <<1, 2>>}

\* The threads play the same parts everywhere, and so do m1 and m2, the frames of
\* the cache and the open files of FileIo.
MCSymmetry == Permutations({t1, t2}) \cup Permutations({m1, m2})

\* A component that is not the subject has one initial state.  Which thread is the
\* first of SysvShm and of MmapRegions makes no difference.
Only(component, fixed) == subject = component \/ fixed

MCInit ==
    /\ subject \in {"namespace", "inotify", "pages", "blocks", "shm", "memfd", "regions", "io"}
    /\ NsInit /\ InoInit /\ PcInit /\ BlkInit /\ ShmInit /\ MfInit /\ RgInit /\ IoInit
    /\ Only("namespace", tree = MCEmpty /\ nsBudget.mounts = 0)
    /\ Only("memfd", mfSeals = {} /\ mfBudget.calls = 2)
    /\ space[h1] = v1 /\ rgThreads = {q1}
    /\ Only("regions", vm[RgPages - 2] = Unmapped /\ vm[RgPages - 1].from = "anon")
    /\ Only("io", ioSetup = MCAppends)

MCNext ==
    /\ UNCHANGED subject
    /\ \/ subject = "namespace" /\ NsNext
          /\ UNCHANGED <<inoVars, pcVars, blkVars, shmVars, mfVars, rgVars, ioVars>>
       \/ subject = "inotify" /\ InoNext
          /\ UNCHANGED <<nsVars, pcVars, blkVars, shmVars, mfVars, rgVars, ioVars>>
       \/ subject = "pages" /\ PcNext
          /\ UNCHANGED <<nsVars, inoVars, blkVars, shmVars, mfVars, rgVars, ioVars>>
       \/ subject = "blocks" /\ BlkNext
          /\ UNCHANGED <<nsVars, inoVars, pcVars, shmVars, mfVars, rgVars, ioVars>>
       \/ subject = "shm" /\ ShmNext
          /\ UNCHANGED <<nsVars, inoVars, pcVars, blkVars, mfVars, rgVars, ioVars>>
       \/ subject = "memfd" /\ MfNext
          /\ UNCHANGED <<nsVars, inoVars, pcVars, blkVars, shmVars, rgVars, ioVars>>
       \/ subject = "regions" /\ RgNext
          /\ UNCHANGED <<nsVars, inoVars, pcVars, blkVars, shmVars, mfVars, ioVars>>
       \/ subject = "io" /\ IoNext
          /\ UNCHANGED <<nsVars, inoVars, pcVars, blkVars, shmVars, mfVars, rgVars>>

MCSpec == MCInit /\ [][MCNext]_allVars
=============================================================================
