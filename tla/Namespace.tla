----------------------------- MODULE Namespace -----------------------------
(***************************************************************************)
(* Names: the in-memory directory tree (aether-vfs node.rs), the mount     *)
(* namespace (rootfs/namespace.rs) and the path operations of the root     *)
(* file system manager (rootfs/mod.rs) that work on both.                  *)
(*                                                                         *)
(* unlink, link, rename and pivot_root hold the namespace lock throughout; *)
(* creation works on a copy of the namespace and takes only the lock of    *)
(* one directory at a time, so it runs between the check and the change of *)
(* the others.                                                             *)
(*                                                                         *)
(* A path is a sequence of names, absolute and normalised; a symbolic link *)
(* holds an absolute path.  Owners, modes, times and file contents are     *)
(* left out.                                                               *)
(***************************************************************************)
EXTENDS Integers, Sequences, FiniteSets

CONSTANTS
    NsThread,     \* threads, each with its own root and working directory
    FileName, MaxDepth,
    MaxNodes,     \* inodes that may be made: a bound
    FirstTrees,   \* trees the boot image may hold
    LinkTargets,  \* paths symbolic links point to
    NsBudgets     \* bounds: creations, removals, mounts

MaxFollow == 8    \* links followed in one look-up

ASSUME NamespaceAssumption ==
    /\ MaxNodes \in Nat \ {0} /\ MaxDepth \in Nat \ {0}
    /\ \A t \in LinkTargets : Len(t) <= MaxDepth

Inodes == 1..MaxNodes
NsPaths == UNION {[1..n -> FileName] : n \in 0..MaxDepth}

VARIABLES
    tree,      \* kind, entries, link target and nlink of each inode
    mountNs,   \* root_stack, and the stack mounted on each path
    nsLock,    \* the thread that holds the namespace lock, if any
    context,   \* ProcessFsContext of each thread: root, cwd, the cwd's node
    nsCall,    \* the call each thread is in
    nsBudget,
    nsPast     \* history: directories removed under a creation, files
               \* replaced within a directory, an aliased rename
nsVars == <<tree, mountNs, nsLock, context, nsCall, nsBudget, nsPast>>

NoEntries == [n \in FileName |-> 0]
Made(kind, target, links) == [kind |-> kind, entries |-> NoEntries, target |-> target,
                              nlink |-> links]
Unmade == Made("none", <<>>, 0)
NsIdle == [at |-> "idle"]

NsInit ==
    /\ tree \in FirstTrees
    /\ mountNs = [root |-> <<[node |-> 1, dev |-> 1]>>,
                  on |-> [p \in NsPaths \ {<<>>} |-> <<>>], devs |-> 1]
    /\ nsLock = {}
    /\ context = [t \in NsThread |-> [root |-> <<>>, cwd |-> <<>>, node |-> 1]]
    /\ nsCall = [t \in NsThread |-> NsIdle]
    /\ nsBudget \in NsBudgets
    /\ nsPast = [raced |-> {}, replaced |-> {}, aliased |-> FALSE]

SpendNs(f) == nsBudget[f] > 0 /\ nsBudget' = [nsBudget EXCEPT ![f] = @ - 1]
NsGo(t, call) == nsCall' = [nsCall EXCEPT ![t] = call]
NsIdling(t) == nsCall[t] = NsIdle

IsDir(n) == tree[n].kind = "dir"
Front(path) == SubSeq(path, 1, Len(path) - 1)
Leaf(path) == path[Len(path)]
IsWithin(root, path) == Len(root) <= Len(path) /\ SubSeq(path, 1, Len(root)) = root

---------------------------------------------------------------------------
(* Look-up                                                                 *)

Top(stack) == stack[Len(stack)]
\* lookup_mount: the top of the stack on a path, as a set of at most one
MountsOn(ns, path) ==
    IF path = <<>> THEN {Top(ns.root)}
    ELSE IF ns.on[path] = <<>> THEN {} ELSE {Top(ns.on[path])}

\* covering_mount: the mount on the longest prefix
CoveringMount(ns, path) ==
    LET n == CHOOSE k \in 0..Len(path) :
               /\ MountsOn(ns, SubSeq(path, 1, k)) # {}
               /\ \A j \in (k + 1)..Len(path) : MountsOn(ns, SubSeq(path, 1, j)) = {}
    IN  Top(IF n = 0 THEN ns.root ELSE ns.on[SubSeq(path, 1, n)])

\* lookup_namespace_entry: the node a path leads to and the path it is found
\* under; {} when there is none.  A mount on a path hides what the directory
\* has under that name.
RECURSIVE Walk(_, _, _, _, _, _)
Walk(ns, at, node, rest, follow, depth) ==
    IF rest = <<>> THEN {[node |-> node, path |-> at]}
    ELSE LET path == Append(at, Head(rest))
             inDir == IF IsDir(node) THEN {tree[node].entries[Head(rest)]} \ {0} ELSE {}
             found == IF Len(path) <= MaxDepth /\ MountsOn(ns, path) # {}
                      THEN {m.node : m \in MountsOn(ns, path)} ELSE inDir
         IN  UNION {IF tree[n].kind = "link" /\ (Len(rest) > 1 \/ follow)
                    THEN IF depth >= MaxFollow THEN {}
                         ELSE Walk(ns, <<>>, Top(ns.root).node, tree[n].target \o Tail(rest),
                                   follow, depth + 1)
                    ELSE Walk(ns, path, n, Tail(rest), follow, depth) : n \in found}
Lookup(ns, path, follow) == Walk(ns, <<>>, Top(ns.root).node, path, follow, 0)
NodesAt(ns, path, follow) == {e.node : e \in Lookup(ns, path, follow)}

\* resolve_view_path: an absolute path starts at the thread's root, another
\* at its working directory
ViewPaths(t) == {p \in {base \o s : base \in {context[t].root, context[t].cwd}, s \in NsPaths} :
                   Len(p) \in 1..MaxDepth}

---------------------------------------------------------------------------
(* Creation, on a copy of the namespace                                    *)

Fresh == CHOOSE n \in Inodes : tree[n].kind = "none" /\ \A k \in 1..(n - 1) : tree[k].kind # "none"
CanMake == \E n \in Inodes : tree[n].kind = "none"
\* DirectoryNode::insert of a new node
WithChild(d, name, made) ==
    [tree EXCEPT ![Fresh] = made, ![d].entries[name] = Fresh]

\* mkdir_in, create_file_in
CreateStart(t, path, kind) ==
    /\ NsIdling(t) /\ SpendNs("creations") /\ CanMake
    /\ NsGo(t, [at |-> "create", ns |-> mountNs, path |-> <<>>, node |-> Top(mountNs.root).node,
                rest |-> path, kind |-> kind])
    /\ UNCHANGED <<tree, mountNs, nsLock, context, nsPast>>

\* create_namespace_path_locked, one component: what exists is entered, links
\* followed; what is missing on the way is made, a directory; an existing
\* last component, or one that is no directory on the way, ends the call.
CreateStep(t) ==
    /\ nsCall[t].at = "create"
    /\ LET call == nsCall[t]
           name == Head(call.rest)
           path == Append(call.path, name)
           last == Len(call.rest) = 1
           mounted == {m.node : m \in MountsOn(call.ns, path)}
           inDir == tree[call.node].entries[name]
           next == IF mounted # {} THEN mounted
                   ELSE IF inDir # 0 /\ tree[inDir].kind = "link" THEN NodesAt(call.ns, path, TRUE)
                   ELSE {inDir}
           missing == mounted = {} /\ inDir = 0
       IN  \/ /\ ~missing
              /\ IF ~last /\ \E n \in next : IsDir(n)
                 THEN \E n \in next :
                        NsGo(t, [call EXCEPT !.path = path, !.node = n, !.rest = Tail(@)])
                 ELSE NsGo(t, NsIdle)
              /\ UNCHANGED tree
           \/ /\ missing /\ CanMake
              /\ tree' = WithChild(call.node, name,
                                   IF last /\ call.kind = "file" THEN Made("file", <<>>, 1)
                                   ELSE Made("dir", <<>>, 2))
              /\ NsGo(t, IF last THEN NsIdle
                         ELSE [call EXCEPT !.path = path, !.node = Fresh, !.rest = Tail(@)])
           \/ missing /\ ~CanMake /\ NsGo(t, NsIdle) /\ UNCHANGED tree
    /\ UNCHANGED <<mountNs, nsLock, context, nsBudget, nsPast>>

\* create_child_namespace_locked: symbolic links and sockets.  The parent is
\* found first; the directory's own lock decides who makes the name.
SymlinkStart(t, path, target) ==
    /\ NsIdling(t) /\ SpendNs("creations") /\ CanMake
    /\ MountsOn(mountNs, path) = {}
    /\ \E d \in NodesAt(mountNs, Front(path), TRUE) :
         /\ IsDir(d) /\ tree[d].entries[Leaf(path)] = 0
         /\ NsGo(t, [at |-> "child", node |-> d, name |-> Leaf(path), target |-> target])
    /\ UNCHANGED <<tree, mountNs, nsLock, context, nsPast>>
SymlinkInsert(t) ==
    /\ nsCall[t].at = "child"
    /\ LET d == nsCall[t].node IN
         IF CanMake /\ tree[d].entries[nsCall[t].name] = 0
         THEN tree' = WithChild(d, nsCall[t].name, Made("link", nsCall[t].target, 1))
         ELSE UNCHANGED tree
    /\ NsGo(t, NsIdle)
    /\ UNCHANGED <<mountNs, nsLock, context, nsBudget, nsPast>>

---------------------------------------------------------------------------
(* Removal, links and renaming, under the namespace lock                   *)

\* The directories a creation has entered and not left.
Entered(d) == \E t \in NsThread : nsCall[t].at \in {"create", "child"} /\ nsCall[t].node = d

\* unlink_in: the checks.  A path something is mounted on is refused.
Removable(v, dir) ==
    /\ IsDir(v) = dir
    /\ dir => tree[v].entries = NoEntries
UnlinkCheck(t, path, dir) ==
    /\ NsIdling(t) /\ SpendNs("removals") /\ nsLock = {}
    /\ MountsOn(mountNs, path) = {}
    /\ \E d \in NodesAt(mountNs, Front(path), TRUE) :
         /\ IsDir(d)
         /\ LET v == tree[d].entries[Leaf(path)]
            IN  /\ v # 0 /\ Removable(v, dir)
                /\ NsGo(t, [at |-> "unlink", node |-> d, name |-> Leaf(path),
                           full |-> tree[v].entries # NoEntries])
    /\ nsLock' = {t}
    /\ UNCHANGED <<tree, mountNs, context, nsPast>>

\* adjust_link_count: files and links only
Counted(tr, n, delta) ==
    IF n = 0 \/ tr[n].kind = "dir" THEN tr ELSE [tr EXCEPT ![n].nlink = @ + delta]

\* unlink_in: remove_child, which looks the name up again but not inside
UnlinkRemove(t) ==
    /\ nsCall[t].at = "unlink"
    /\ LET call == nsCall[t]
           v == tree[call.node].entries[call.name]
       IN  /\ tree' = Counted([tree EXCEPT ![call.node].entries[call.name] = 0], v, -1)
           /\ nsPast' = [nsPast EXCEPT !.raced =
                           IF ~call.full /\ (tree[v].entries # NoEntries \/ Entered(v))
                           THEN @ \cup {v} ELSE @]
    /\ nsLock' = {} /\ NsGo(t, NsIdle)
    /\ UNCHANGED <<mountNs, context, nsBudget>>

\* link_in, link_existing
Link(t, old, new) ==
    /\ NsIdling(t) /\ SpendNs("creations") /\ nsLock = {}
    /\ old # <<>> /\ new # <<>> /\ MountsOn(mountNs, new) = {}
    /\ \E s \in Lookup(mountNs, old, FALSE), d \in NodesAt(mountNs, Front(new), TRUE) :
         /\ ~IsDir(s.node) /\ IsDir(d)
         /\ CoveringMount(mountNs, s.path).dev = CoveringMount(mountNs, new).dev
         /\ tree[d].entries[Leaf(new)] = 0
         /\ tree' = Counted([tree EXCEPT ![d].entries[Leaf(new)] = s.node], s.node, 1)
    /\ UNCHANGED <<mountNs, nsLock, context, nsCall, nsPast>>

\* rename_in: the checks.  A directory may replace nothing, and must not move
\* below itself; that is decided by the text of the two paths.
RenameCheck(t, old, new) ==
    /\ NsIdling(t) /\ SpendNs("removals") /\ nsLock = {}
    /\ old # new /\ old # <<>> /\ new # <<>>
    /\ IsWithin(old, new) => \A n \in NodesAt(mountNs, old, FALSE) : ~IsDir(n)
    /\ MountsOn(mountNs, old) = {} /\ MountsOn(mountNs, new) = {}
    /\ CoveringMount(mountNs, old).dev = CoveringMount(mountNs, new).dev
    /\ \E s \in Lookup(mountNs, Front(old), TRUE), d \in Lookup(mountNs, Front(new), TRUE) :
         /\ IsDir(s.node) /\ IsDir(d.node)
         /\ LET n == tree[s.node].entries[Leaf(old)]
                over == tree[d.node].entries[Leaf(new)]
            IN  /\ n # 0
                /\ over # 0 => ~IsDir(n) /\ ~IsDir(over)
                /\ NsGo(t, [at |-> "rename", from |-> s.node, old |-> Leaf(old), to |-> d.node,
                            new |-> Leaf(new), replace |-> over # 0,
                            aliased |-> s.path # Front(old) \/ d.path # Front(new)
                                          \/ \E p \in NsPaths \ {<<>>} : mountNs.on[p] # <<>>])
    /\ nsLock' = {t}
    /\ UNCHANGED <<tree, mountNs, context, nsPast>>

\* rename, rename_between_maps: refused when the name has appeared since the
\* check.  Within one directory the replaced file keeps its link count; a file
\* renamed onto another link of itself keeps its own.
RenameDo(t) ==
    /\ nsCall[t].at = "rename"
    /\ LET call == nsCall[t]
           n == tree[call.from].entries[call.old]
           over == tree[call.to].entries[call.new]
           moved == [[tree EXCEPT ![call.from].entries[call.old] = 0]
                       EXCEPT ![call.to].entries[call.new] = n]
           counts == call.from # call.to /\ over # n
       IN  IF ~call.replace /\ over # 0
           THEN UNCHANGED <<tree, nsPast>>
           ELSE /\ tree' = IF counts THEN Counted(moved, over, -1) ELSE moved
                /\ nsPast' = [nsPast EXCEPT !.replaced = IF counts THEN @ ELSE @ \cup {over},
                                            !.aliased = @ \/ call.aliased]
    /\ nsLock' = {} /\ NsGo(t, NsIdle)
    /\ UNCHANGED <<mountNs, context, nsBudget>>

---------------------------------------------------------------------------
(* Working directories and mounts                                          *)

\* chdir_in
Chdir(t, path) ==
    /\ NsIdling(t) /\ SpendNs("mounts")
    /\ \E e \in Lookup(mountNs, path, TRUE) :
         /\ IsDir(e.node)
         /\ context' = [context EXCEPT ![t].cwd = e.path, ![t].node = e.node]
    /\ UNCHANGED <<tree, mountNs, nsLock, nsCall, nsPast>>

\* chroot_in: a working directory outside the new root becomes that root
Chroot(t, path) ==
    /\ NsIdling(t) /\ SpendNs("mounts")
    /\ \E e \in Lookup(mountNs, path, TRUE) :
         /\ IsDir(e.node)
         /\ context' = [context EXCEPT ![t] =
                          [root |-> e.path,
                           cwd |-> IF IsWithin(e.path, @.cwd) THEN @.cwd ELSE e.path,
                           node |-> IF IsWithin(e.path, @.cwd) THEN @.node ELSE e.node]]
    /\ UNCHANGED <<tree, mountNs, nsLock, nsCall, nsPast>>

\* MountNamespace::mount
Pushed(ns, path, m) ==
    IF path = <<>> THEN [ns EXCEPT !.root = Append(@, m)]
    ELSE [ns EXCEPT !.on[path] = Append(@, m)]
Used(ns, m) == IF m.dev > ns.devs THEN [ns EXCEPT !.devs = m.dev] ELSE ns

\* mount_in, the target found and the mount prepared: a fresh tmpfs, or with
\* MS_BIND what is mounted on, or just found at, another path,
Prepared(node) == [node |-> node, dev |-> mountNs.devs + 1]
BindSources(s) ==
    IF MountsOn(mountNs, s) # {} THEN MountsOn(mountNs, s)
    ELSE {Prepared(n) : n \in NodesAt(mountNs, s, TRUE)}
MountSources(bind) ==
    IF bind # {} THEN UNION {BindSources(s) : s \in bind}
    ELSE IF CanMake THEN {Prepared(Fresh)} ELSE {}
MountStart(t, target, bind) ==
    /\ NsIdling(t) /\ SpendNs("mounts")
    /\ \E at \in NodesAt(mountNs, target, FALSE), m \in MountSources(bind) :
         /\ tree' = IF bind = {} THEN [tree EXCEPT ![m.node] = Made("dir", <<>>, 2)] ELSE tree
         /\ tree'[m.node].kind = "dir" => IsDir(at)
         /\ mountNs' = Used(mountNs, m)
         /\ NsGo(t, [at |-> "mount", path |-> target, m |-> m])
    /\ UNCHANGED <<nsLock, context, nsPast>>
\* and pushed under the namespace lock.
MountPush(t) ==
    /\ nsCall[t].at = "mount" /\ nsLock = {}
    /\ mountNs' = Pushed(mountNs, nsCall[t].path, nsCall[t].m)
    /\ NsGo(t, NsIdle)
    /\ UNCHANGED <<tree, nsLock, context, nsBudget, nsPast>>

\* move_mount: the top of the stack goes, and the mounts below it with it
\* Mutant of Moved: the mounts below stay behind.
MovedAlone(ns, source, target) ==
    LET m == IF source = <<>> THEN Top(ns.root) ELSE Top(ns.on[source])
    IN  Pushed(IF source = <<>> THEN ns ELSE [ns EXCEPT !.on[source] = Front(@)], target, m)
Moved(ns, source, target) ==
    LET m == IF source = <<>> THEN Top(ns.root) ELSE Top(ns.on[source])
        Below(p) == source # <<>> /\ p # source /\ IsWithin(source, p)
        Source(p) == source \o SubSeq(p, Len(target) + 1, Len(p))
        Lands(p) == /\ source # <<>> /\ p # target /\ IsWithin(target, p)
                    /\ Source(p) \in DOMAIN ns.on /\ ns.on[Source(p)] # <<>>
        left == [ns EXCEPT !.on = [p \in DOMAIN @ |->
                    IF p = source THEN Front(@[p]) ELSE IF Below(p) THEN <<>> ELSE @[p]]]
        pushed == Pushed(left, target, m)
    IN  [pushed EXCEPT !.on = [p \in DOMAIN @ |-> IF Lands(p) THEN ns.on[Source(p)] ELSE @[p]]]

\* remap_mount_path
Remapped(path, source, target) ==
    IF IsWithin(source, path) THEN target \o SubSeq(path, Len(source) + 1, Len(path)) ELSE path

\* mount_in with MS_MOVE; the caller's own root and working directory follow
Movable(source, target) ==
    /\ MountsOn(mountNs, source) # {}
    /\ NodesAt(mountNs, target, FALSE) # {}
    /\ \A n \in NodesAt(mountNs, target, FALSE), m \in MountsOn(mountNs, source) :
         IsDir(m.node) => IsDir(n)
    /\ Len(target) < MaxDepth \/ \A p \in NsPaths \ {<<>>} :
                                    p # source /\ IsWithin(source, p) => mountNs.on[p] = <<>>
MoveMount(t, source, target) ==
    /\ NsIdling(t) /\ SpendNs("mounts") /\ nsLock = {}
    /\ Movable(source, target)
    /\ mountNs' = Moved(mountNs, source, target)
    /\ context' = [context EXCEPT
                     ![t].root = Remapped(@, source, target),
                     ![t].cwd = Remapped(@, source, target)]
    /\ \A p \in {context'[t].root, context'[t].cwd} : Len(p) <= MaxDepth
    /\ UNCHANGED <<tree, nsLock, nsCall, nsPast>>

\* umount_in: the first root stays
Umount(t, target) ==
    /\ NsIdling(t) /\ SpendNs("mounts") /\ nsLock = {}
    /\ \/ /\ target = <<>> /\ Len(mountNs.root) > 1
          /\ mountNs' = [mountNs EXCEPT !.root = Front(@)]
       \/ /\ target # <<>> /\ MountsOn(mountNs, target) # {}
          /\ mountNs' = [mountNs EXCEPT !.on[target] = Front(@)]
    /\ UNCHANGED <<tree, nsLock, context, nsCall, nsPast>>

\* ensure_dir_namespace_locked: the directory at a path, made when it is
\* missing (only the last component is taken to be missing)
DirEnsured(path) ==
    \/ (\E n \in NodesAt(mountNs, path, TRUE) : IsDir(n)) /\ UNCHANGED tree
    \/ /\ NodesAt(mountNs, path, FALSE) = {} /\ CanMake
       /\ \E d \in NodesAt(mountNs, Front(path), TRUE) :
            IsDir(d) /\ tree' = WithChild(d, Leaf(path), Made("dir", <<>>, 2))

\* pivot_root_in: the old root goes on put_old, under its old path, and the
\* new root on top of the root stack
PivotRoot(t, new, old) ==
    /\ NsIdling(t) /\ SpendNs("mounts") /\ nsLock = {}
    /\ old # new /\ IsWithin(new, old) /\ DirEnsured(old)
    /\ \E n \in NodesAt(mountNs, new, TRUE) :
         /\ IsDir(n)
         /\ LET put == Pushed(mountNs, old, Top(mountNs.root))
                m == IF MountsOn(put, new) # {} THEN CHOOSE x \in MountsOn(put, new) : TRUE
                     ELSE [node |-> n, dev |-> put.devs + 1]
            IN  /\ mountNs' = Used(Pushed(put, <<>>, m), m)
                /\ context' = [context EXCEPT ![t] =
                                 [root |-> <<>>, cwd |-> <<>>, node |-> m.node]]
    /\ UNCHANGED <<nsLock, nsCall, nsPast>>

NsNext == \E t \in NsThread :
    \/ NsIdling(t) /\ \E p \in ViewPaths(t) :
         \/ \E kind \in {"dir", "file"} : CreateStart(t, p, kind)
         \/ \E target \in LinkTargets : SymlinkStart(t, p, target)
         \/ \E dir \in BOOLEAN : UnlinkCheck(t, p, dir)
         \/ \E q \in ViewPaths(t) : Link(t, p, q) \/ RenameCheck(t, p, q)
    \/ NsIdling(t) /\ nsBudget.mounts > 0 /\ \E p \in ViewPaths(t) :
         \/ Chdir(t, p) \/ Chroot(t, p)
         \/ \E q \in ViewPaths(t) : PivotRoot(t, p, q) \/ MountStart(t, p, {q})
         \/ MountStart(t, p, {})
    \/ NsIdling(t) /\ nsBudget.mounts > 0 /\ \E p, q \in ViewPaths(t) \cup {context[t].root} :
         p # q /\ (MoveMount(t, p, q) \/ Umount(t, p))
    \/ CreateStep(t) \/ SymlinkInsert(t) \/ UnlinkRemove(t) \/ RenameDo(t) \/ MountPush(t)

---------------------------------------------------------------------------
References(n) == {<<d, name>> \in {i \in Inodes : IsDir(i)} \X FileName : tree[d].entries[name] = n}
FsRoots == {m.node : m \in UNION {{mountNs.root[i] : i \in DOMAIN mountNs.root}}
                             \cup UNION {{mountNs.on[p][i] : i \in DOMAIN mountNs.on[p]} :
                                           p \in DOMAIN mountNs.on}}
RECURSIVE Above(_, _)
Above(set, n) == IF n = 0 THEN set
                 ELSE Above(set \cup {d \in Inodes : \E name \in FileName :
                                        tree[d].entries[name] \in set}, n - 1)

(* The directories form a tree: no directory has two names, none is below  *)
(* itself unless a rename went through a link or a mount (its check        *)
(* compares the text of the paths), and none disappears with entries in it *)
(* unless a creation was on its way into it, between rmdir's look and its  *)
(* removal or with the directory already in hand.                          *)
TreeIntact ==
    \A d \in Inodes : tree[d].kind = "dir" =>
        /\ Cardinality(References(d)) <= 1
        /\ \A name \in FileName :
             (/\ tree[d].entries[name] # 0 /\ IsDir(tree[d].entries[name])
              /\ tree[d].entries[name] \in Above({d}, MaxNodes)) => nsPast.aliased
        /\ (References(d) = {} /\ tree[d].entries # NoEntries) =>
                d \in FsRoots \cup nsPast.raced \cup {1}
                  \/ \E t \in NsThread : nsCall[t].at = "mount" /\ nsCall[t].m.node = d

(* A file's link count is the number of its names, whatever link, unlink   *)
(* and rename do to them at once, except for a file that was replaced      *)
(* within one directory or by another name of its own: those renames leave *)
(* the count too high, and never too low.                                  *)
LinksCounted ==
    \A n \in Inodes : tree[n].kind \in {"file", "link"} =>
        /\ tree[n].nlink >= Cardinality(References(n))
        /\ n \notin nsPast.replaced => tree[n].nlink = Cardinality(References(n))

(* Moving a mount moves everything mounted below it: what a path below the *)
(* source showed, the same path below the target shows, as long as the     *)
(* source can be reached at all, nothing is mounted below the target and   *)
(* the target is not inside the source.                                    *)
MoveKeepsView ==
    \A s \in {p \in NsPaths \ {<<>>} : MountsOn(mountNs, p) # {}}, d \in NsPaths :
        (/\ s # d /\ Movable(s, d) /\ ~IsWithin(s, d) /\ ~IsWithin(d, s)
         /\ \A p \in NsPaths \ {<<>>} : IsWithin(d, p) => mountNs.on[p] = <<>>
         /\ NodesAt(mountNs, s, FALSE) # {}
         /\ \A n \in Inodes : tree[n].kind # "link")
        => \A rest \in NsPaths :
             Len(s \o rest) <= MaxDepth /\ Len(d \o rest) <= MaxDepth
               => NodesAt(mountNs, s \o rest, FALSE)
                    = NodesAt(Moved(mountNs, s, d), d \o rest, FALSE)

\* The namespace stays a tree whose links are counted, and a moved mount shows
\* what it showed (rootfs, namespace.rs, node.rs).
NamespaceSound == TreeIntact /\ LinksCounted /\ MoveKeepsView
=============================================================================
