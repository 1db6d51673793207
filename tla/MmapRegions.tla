---------------------------- MODULE MmapRegions ----------------------------
(***************************************************************************)
(* The list of mapped regions a thread keeps beside the address space      *)
(* (KernelProcess::mmap_regions in process.rs): mmap, munmap, mprotect and *)
(* mremap change the address space, which the threads of a process share,  *)
(* and then the thread's own list, which is copied at clone and never      *)
(* synchronized.  mremap decides from the list and acts on the space, one  *)
(* lock of the space at a time.  Addresses and lengths count pages.        *)
(***************************************************************************)
EXTENDS Integers, Sequences, FiniteSets

CONSTANTS
    RgThread,       \* threads of one process
    RgPages,        \* pages of the address space; mmap searches from page 1 up
    RgLengths,      \* lengths asked for
    RgRequests,     \* what is mapped: backing (anon, buffered, shared; DirectFile is
                    \* handled as SharedFile), offset and write permission
    MaxRgCalls

ASSUME RegionsAssumption == RgPages > 1 /\ RgLengths \subseteq 1..RgPages

VARIABLES
    vm,           \* per page: what is mapped there and what it holds, or Unmapped
    regions,      \* per thread: the recorded regions, in order
    rgThreads,    \* the threads that exist
    rgCall, rgCalls,
    outOfDate     \* history: pages of each thread's list that another thread
                  \* changed, or that a fixed mapping muddled
rgVars == <<vm, regions, rgThreads, rgCall, rgCalls, outOfDate>>

RgPage == 0..(RgPages - 1)
Span(start, len) == start..(start + len - 1)
Unmapped == [from |-> "none"]
RgIdle == [at |-> "idle"]

---------------------------------------------------------------------------
(* The list                                                                *)

Region(start, len, req, flags) ==
    [start |-> start, end |-> start + len, write |-> req.write, flags |-> flags,
     from |-> req.from, offset |-> req.offset]
\* adjusted_mmap_backing
Adjusted(from, offset, delta) == IF from = "anon" THEN offset ELSE offset + delta
Sliced(r, start, end) ==
    [r EXCEPT !.start = start, !.end = end, !.offset = Adjusted(r.from, r.offset, start - r.start)]
\* mmap_backing_is_mergeable
Joinable(l, r) ==
    /\ l.end = r.start /\ l.write = r.write /\ l.flags = r.flags /\ l.from = r.from
    /\ l.from = "anon" \/ r.offset - l.offset = l.end - l.start
\* coalesce_mmap_regions: every region joins the one before it when it can
CoalesceRegions(list) ==
    LET joined[n \in 0..Len(list)] ==
          IF n = 0 THEN <<>>
          ELSE LET done == joined[n - 1]
                   k == Len(done)
               IN  IF k > 0 /\ Joinable(done[k], list[n])
                   THEN [done EXCEPT ![k].end = list[n].end] ELSE Append(done, list[n])
    IN  joined[Len(list)]
\* merge_mmap_region_neighbors_around: the runs of joinable regions that
\* reach the new one from the left and from the right
MergeAround(list, index) ==
    LET first == CHOOSE i \in 1..index :
                   /\ \A j \in i..(index - 1) : Joinable(list[j], list[j + 1])
                   /\ i = 1 \/ ~Joinable(list[i - 1], list[i])
        last == CHOOSE i \in index..Len(list) :
                   /\ \A j \in index..(i - 1) : Joinable(list[j], list[j + 1])
                   /\ i = Len(list) \/ ~Joinable(list[i], list[i + 1])
    IN  SubSeq(list, 1, first - 1) \o << [list[first] EXCEPT !.end = list[last].end] >>
          \o SubSeq(list, last + 1, Len(list))
\* insert_mmap_region: before the first region that does not start below it
InsertRegion(list, r) ==
    LET index == Cardinality({i \in DOMAIN list : list[i].start < r.start})
    IN  MergeAround(SubSeq(list, 1, index) \o <<r>> \o SubSeq(list, index + 1, Len(list)), index + 1)

Flattened(pieces) ==
    LET flat[n \in 0..Len(pieces)] == IF n = 0 THEN <<>> ELSE flat[n - 1] \o pieces[n]
    IN  flat[Len(pieces)]
Outside(r, start, end) == r.end <= start \/ end <= r.start
Before(r, start) == IF start > r.start THEN <<[r EXCEPT !.end = start]>> ELSE <<>>
After(r, end) == IF end < r.end THEN <<Sliced(r, end, r.end)>> ELSE <<>>
Later(a, b) == IF a > b THEN a ELSE b
Sooner(a, b) == IF a < b THEN a ELSE b
\* remove_mmap_region_range
RemoveRange(list, start, end) ==
    CoalesceRegions(Flattened([i \in DOMAIN list |->
        IF Outside(list[i], start, end) THEN <<list[i]>>
        ELSE Before(list[i], start) \o After(list[i], end)]))
\* update_mmap_region_flags
UpdateFlags(list, start, end, write) ==
    CoalesceRegions(Flattened([i \in DOMAIN list |->
        LET r == list[i]
            inner == Sliced(r, Later(r.start, start), Sooner(r.end, end))
        IN  IF Outside(r, start, end) THEN <<r>>
            ELSE Before(r, start) \o <<[inner EXCEPT !.write = write]>> \o After(r, end)]))
\* covering_mmap_region: the last region that starts at or below, if it
\* reaches far enough
Covering(list, start, end) ==
    {list[i] : i \in {j \in DOMAIN list :
        /\ j = Cardinality({k \in DOMAIN list : list[k].start <= start})
        /\ list[j].start <= start /\ end <= list[j].end}}
\* slice_mmap_region
SliceRegion(list, start, end) == {Sliced(r, start, end) : r \in Covering(list, start, end)}

---------------------------------------------------------------------------
(* The address space                                                       *)

\* data counts the stores: 0 is what the backing holds
VmPage(req, delta) ==
    [from |-> req.from, offset |-> IF req.from = "anon" THEN 0 ELSE req.offset + delta,
     write |-> req.write, data |-> 0]
VmMapped(base, len, req) ==
    [p \in RgPage |-> IF p \in Span(base, len) THEN VmPage(req, p - base) ELSE vm[p]]
VmUnmapped(space, start, len) == [p \in RgPage |-> IF p \in Span(start, len) THEN Unmapped ELSE space[p]]
VmProtected(start, len, write) ==
    [p \in RgPage |-> IF p \in Span(start, len) /\ vm[p] # Unmapped
                      THEN [vm[p] EXCEPT !.write = write] ELSE vm[p]]
\* is_range_free
IsFree(start, len) == \A p \in Span(start, len) : p \in RgPage => vm[p] = Unmapped
\* prepare_mapping_base and find_top_down_gap: a fixed request unmaps what
\* is there, any other takes the highest gap
Bases(flags, address, len) ==
    IF flags = "fixed" THEN {b \in {address} : b + len <= RgPages}
    ELSE LET gaps == {b \in 1..(RgPages - len) : IsFree(b, len)}
         IN  {b \in gaps : \A c \in gaps : c <= b}

\* Another thread's list no longer tells what is mapped at these pages
Overtaken(t, R) ==
    [u \in RgThread |-> IF u = t THEN outOfDate[u] ELSE outOfDate[u] \cup R]
\* A call in flight has its pages changed under it
Disturbed(t, R) ==
    [u \in RgThread |-> IF u # t /\ "clean" \in DOMAIN rgCall[u]
                           /\ R \cap (Span(rgCall[u].old, rgCall[u].oldLen)
                                        \cup Span(rgCall[u].target, rgCall[u].newLen)) # {}
                        THEN [rgCall[u] EXCEPT !.clean = FALSE] ELSE rgCall[u]]
RgReturns(t, R) == rgCall' = [Disturbed(t, R) EXCEPT ![t] = RgIdle]
RgGoes(t, R, call) == rgCall' = [Disturbed(t, R) EXCEPT ![t] = call]
RgCallable(t) == t \in rgThreads /\ rgCall[t] = RgIdle /\ rgCalls < MaxRgCalls
RgStarts(t) == RgCallable(t) /\ rgCalls' = rgCalls + 1
Listed(t, list) == regions' = [regions EXCEPT ![t] = list]
Recorded(t) == {p \in RgPage : \E i \in DOMAIN regions[t] : regions[t][i].start <= p /\ p < regions[t][i].end}

\* A program that has made its first mapping, at the top
RgInit ==
    \E first \in RgThread, req \in RgRequests, len \in RgLengths :
      /\ vm = [p \in RgPage |-> IF p < RgPages - len THEN Unmapped ELSE VmPage(req, p - (RgPages - len))]
      /\ regions = [t \in RgThread |-> IF t = first THEN <<Region(RgPages - len, len, req, "any")>> ELSE <<>>]
      /\ rgThreads = {first}
      /\ rgCall = [t \in RgThread |-> RgIdle] /\ rgCalls = 0
      /\ outOfDate = [t \in RgThread |-> {}]

---------------------------------------------------------------------------
(* mmap, munmap, mprotect, clone                                           *)

\* A list that is out of order stays so
Muddled(t) == RgPages \in outOfDate[t]
UpToDate(t, R) == IF Muddled(t) THEN outOfDate[t] ELSE outOfDate[t] \ R
\* With two records over one page the list is no longer in order: nothing is
\* said of it from then on
Laid(t, R) == IF R \cap Recorded(t) = {} THEN UpToDate(t, R) ELSE RgPage \cup {RgPages}

\* record_mmap_region: where it was mapped.  A fixed mapping over a recorded
\* one leaves the old record in the list
MapAndRecord(t, req, flags, address, len) ==
    /\ RgStarts(t)
    /\ \E base \in Bases(flags, address, len) :
         /\ vm' = VmMapped(base, len, req)
         /\ Listed(t, InsertRegion(regions[t], Region(base, len, req, flags)))
         /\ outOfDate' = [Overtaken(t, Span(base, len)) EXCEPT ![t] = Laid(t, Span(base, len))]
         /\ RgReturns(t, Span(base, len))
    /\ UNCHANGED rgThreads
\* map_anonymous_region, map_file_region
MapAnonymous(t, req, flags, address, len) ==
    req.from = "anon" /\ MapAndRecord(t, req, flags, address, len)
MapFile(t, req, flags, address, len) ==
    req.from \in {"buffered", "shared"} /\ MapAndRecord(t, req, flags, address, len)
Mmap(t, req, flags, address, len) ==
    MapAnonymous(t, req, flags, address, len) \/ MapFile(t, req, flags, address, len)

Munmap(t, start, len) ==
    /\ RgStarts(t)
    /\ vm' = VmUnmapped(vm, start, len)
    /\ Listed(t, RemoveRange(regions[t], start, start + len))
    /\ outOfDate' = [Overtaken(t, Span(start, len)) EXCEPT ![t] = UpToDate(t, Span(start, len))]
    /\ RgReturns(t, Span(start, len))
    /\ UNCHANGED rgThreads

\* mprotect fails where nothing is mapped
Mprotect(t, start, len, write) ==
    /\ RgStarts(t) /\ ~IsFree(start, len)
    /\ vm' = VmProtected(start, len, write)
    /\ Listed(t, UpdateFlags(regions[t], start, start + len, write))
    /\ outOfDate' = Overtaken(t, Span(start, len))
    /\ RgReturns(t, Span(start, len))
    /\ UNCHANGED rgThreads

\* clone with CLONE_VM: the space is shared, the list is copied
RgClone(t, u) ==
    /\ RgStarts(t) /\ u \in RgThread \ rgThreads
    /\ rgThreads' = rgThreads \cup {u}
    /\ Listed(u, regions[t])
    /\ outOfDate' = [outOfDate EXCEPT ![u] = outOfDate[t]]
    /\ UNCHANGED <<vm, rgCall>>

\* A program writes to a private page
RgStore(t, p) ==
    /\ RgStarts(t) /\ vm[p] # Unmapped
    /\ vm[p].write /\ vm[p].from # "shared"
    /\ vm' = [vm EXCEPT ![p].data = rgCalls + 1]
    /\ RgReturns(t, {p})
    /\ UNCHANGED <<regions, rgThreads, outOfDate>>

---------------------------------------------------------------------------
(* mremap                                                                  *)

\* The tail is unmapped, and what is left is recorded
MremapShrink(t, old, oldLen, newLen) ==
    /\ RgStarts(t) /\ newLen < oldLen
    /\ \E r \in SliceRegion(regions[t], old, old + oldLen) :
         LET cut == Span(old + newLen, oldLen - newLen)
         IN  /\ vm' = VmUnmapped(vm, old + newLen, oldLen - newLen)
             /\ Listed(t, InsertRegion(RemoveRange(regions[t], old, old + oldLen),
                                       [r EXCEPT !.end = old + newLen]))
             /\ outOfDate' = [Overtaken(t, cut) EXCEPT ![t] = UpToDate(t, cut)]
             /\ RgReturns(t, cut)
    /\ UNCHANGED rgThreads

\* The checks of a call that grows in place when what follows is free
MremapGrows(t, old, oldLen, newLen) ==
    /\ RgStarts(t) /\ newLen > oldLen /\ old + newLen <= RgPages
    /\ IsFree(old + oldLen, newLen - oldLen)
    /\ \E r \in SliceRegion(regions[t], old, old + oldLen) :
         RgGoes(t, {}, [at |-> "grow", region |-> r, old |-> old, oldLen |-> oldLen, newLen |-> newLen])
    /\ UNCHANGED <<vm, regions, rgThreads, outOfDate>>
\* The rest is mapped as fixed, over whatever came there meanwhile
MremapGrow(t) ==
    /\ rgCall[t].at = "grow"
    /\ LET c == rgCall[t]
           more == Span(c.old + c.oldLen, c.newLen - c.oldLen)
       IN  /\ vm' = VmMapped(c.old + c.oldLen, c.newLen - c.oldLen,
                             [c.region EXCEPT !.offset = @ + c.oldLen])
           /\ Listed(t, InsertRegion(RemoveRange(regions[t], c.old, c.old + c.oldLen),
                                     [c.region EXCEPT !.end = c.old + c.newLen]))
           /\ outOfDate' = [Overtaken(t, more) EXCEPT ![t] = Laid(t, more)]
           /\ RgReturns(t, more)
    /\ UNCHANGED <<rgThreads, rgCalls>>

\* A move: to a given place that does not overlap the old one, or to a gap
\* when what follows is taken (MAYMOVE).  The recorded flags are reused, so a
\* region that was mapped as fixed goes to address 0
MoveTarget(r, fixed, address, len) ==
    IF fixed \/ r.flags = "fixed" THEN Bases("fixed", IF fixed THEN address ELSE 0, len)
    ELSE Bases("any", 0, len)
\* Mutant of CopiesData: only anonymous memory is copied to its new place.
CopiesAnonymous(r) == r.from = "anon"
\* should_copy_data
CopiesData(r) == r.from \in {"anon", "buffered"}
MremapMove(t, old, oldLen, newLen, fixed, address, keep) ==
    /\ RgStarts(t)
    /\ keep => oldLen = newLen
    /\ fixed => Span(address, newLen) \cap Span(old, oldLen) = {}
    /\ ~fixed => \/ keep
                 \/ newLen > oldLen /\ ~(old + newLen <= RgPages /\ IsFree(old + oldLen, newLen - oldLen))
    /\ \E r \in SliceRegion(regions[t], old, old + oldLen) :
         /\ keep => r.from = "anon"
         /\ \E target \in MoveTarget(r, fixed, address, newLen) :
              /\ vm' = VmMapped(target, newLen, r)
              /\ outOfDate' = Overtaken(t, Span(target, newLen))
              /\ RgGoes(t, Span(target, newLen),
                   [at |-> IF ~CopiesData(r) THEN "unmap" ELSE IF r.write THEN "copy" ELSE "open",
                    region |-> r, old |-> old, oldLen |-> oldLen, target |-> target, newLen |-> newLen,
                    keep |-> keep,
                    clean |-> Span(old, oldLen) \cap (outOfDate[t] \cup Span(target, newLen)) = {},
                    want |-> [p \in Span(old, oldLen) |-> vm[p]]])
    /\ UNCHANGED <<regions, rgThreads>>

\* cleanup_mremap_target: after a failed step the target goes again
MoveUndone(t) ==
    LET c == rgCall[t]
        R == Span(c.target, c.newLen)
    IN  /\ vm' = VmUnmapped(vm, c.target, c.newLen)
        /\ Listed(t, RemoveRange(regions[t], c.target, c.target + c.newLen))
        /\ outOfDate' = [Overtaken(t, R) EXCEPT ![t] = UpToDate(t, R)]
        /\ RgReturns(t, R)
Copied(c) == Sooner(c.oldLen, c.newLen)
\* A read-only target is made writable for the copy, and read-only again
MoveProtect(t) ==
    /\ rgCall[t].at \in {"open", "close"}
    /\ LET c == rgCall[t]
       IN  IF IsFree(c.target, Copied(c)) THEN MoveUndone(t)
           ELSE /\ vm' = VmProtected(c.target, Copied(c), c.at = "open")
                /\ outOfDate' = Overtaken(t, Span(c.target, Copied(c)))
                /\ RgGoes(t, Span(c.target, Copied(c)), [c EXCEPT !.at = IF @ = "open" THEN "copy" ELSE "unmap"])
                /\ UNCHANGED regions
    /\ UNCHANGED <<rgThreads, rgCalls>>
\* copy_user_range: fails on a page that is gone or cannot be written
MoveCopy(t) ==
    /\ rgCall[t].at = "copy"
    /\ LET c == rgCall[t]
           whole == \A i \in 0..(Copied(c) - 1) :
                      /\ vm[c.old + i] # Unmapped
                      /\ vm[c.target + i] # Unmapped /\ vm[c.target + i].write
       IN  IF ~whole THEN MoveUndone(t)
           ELSE /\ vm' = [p \in RgPage |-> IF p \in Span(c.target, Copied(c))
                                           THEN [vm[p] EXCEPT !.data = vm[c.old + (p - c.target)].data] ELSE vm[p]]
                /\ RgGoes(t, Span(c.target, Copied(c)), [c EXCEPT !.at = IF c.region.write THEN "unmap" ELSE "close"])
                /\ UNCHANGED <<regions, outOfDate>>
    /\ UNCHANGED <<rgThreads, rgCalls>>
\* The old place is unmapped unless it is to be kept, and leaves the list
\* either way
MoveFinish(t) ==
    /\ rgCall[t].at = "unmap"
    /\ LET c == rgCall[t]
           list == RemoveRange(RemoveRange(regions[t], c.target, c.target + c.newLen), c.old, c.old + c.oldLen)
           gone == IF c.keep THEN {} ELSE Span(c.old, c.oldLen)
           known == Span(c.target, c.newLen) \cup gone
       IN  /\ vm' = IF c.keep THEN vm ELSE VmUnmapped(vm, c.old, c.oldLen)
           /\ Listed(t, InsertRegion(list, [c.region EXCEPT !.start = c.target, !.end = c.target + c.newLen]))
           /\ outOfDate' = [Overtaken(t, gone) EXCEPT
                              ![t] = (IF c.clean THEN UpToDate(t, known) ELSE @ \cup known)
                                       \cup (IF c.keep THEN Span(c.old, c.oldLen) ELSE {})]
           /\ RgReturns(t, gone)
    /\ UNCHANGED <<rgThreads, rgCalls>>

RgNext ==
    \E t \in RgThread :
      \/ RgCallable(t) /\ \E len \in RgLengths, p \in RgPage, req \in RgRequests :
           \/ Mmap(t, req, "fixed", p, len)
           \/ p = 0 /\ Mmap(t, req, "any", 0, len)
      \/ RgCallable(t) /\ \E len \in RgLengths, p \in RgPage :
           /\ p + len <= RgPages
           /\ \/ Munmap(t, p, len)
              \/ \E w \in BOOLEAN : Mprotect(t, p, len, w)
              \/ \E new \in RgLengths : MremapShrink(t, p, len, new) \/ MremapGrows(t, p, len, new)
              \/ \E new \in RgLengths, keep \in BOOLEAN :
                   \/ MremapMove(t, p, len, new, FALSE, 0, keep)
                   \/ \E to \in RgPage : MremapMove(t, p, len, new, TRUE, to, keep)
      \/ \E p \in RgPage : RgStore(t, p)
      \/ \E u \in RgThread : RgClone(t, u)
      \/ MremapGrow(t) \/ MoveProtect(t) \/ MoveCopy(t) \/ MoveFinish(t)

---------------------------------------------------------------------------
(* Properties                                                              *)

Backed(p) == [from |-> vm[p].from, offset |-> vm[p].offset, write |-> vm[p].write]
\* Whatever splitting, merging, growing and moving the list went through, a
\* page another thread has not changed behind it is listed exactly when it
\* is mapped, with the backing, the offset and the permission it is mapped
\* with: what mremap and mincore decide from (process.rs, mremap.rs).
RegionsTrue ==
    \A t \in rgThreads : rgCall[t] = RgIdle =>
      \A p \in RgPage \ outOfDate[t] :
        LET here == SliceRegion(regions[t], p, p + 1)
        IN  IF vm[p] = Unmapped THEN here = {}
            ELSE \E r \in here : Backed(p) = [from |-> r.from, offset |-> r.offset, write |-> r.write]

\* A page that mremap has moved keeps its backing, its permission and what
\* was stored in it, private file pages included, unless the list was wrong
\* about it, another thread changed either place meanwhile, or the target
\* was laid over the source (mremap.rs).
MovedIntact ==
    \A t \in RgThread :
      (rgCall[t].at = "unmap" /\ rgCall'[t] = RgIdle /\ rgCall[t].clean) =>
        LET c == rgCall[t]
        IN  \A i \in 0..(Copied(c) - 1) : vm'[c.target + i] = c.want[c.old + i]

\* Every step leaves the list true, and a move loses nothing.
RegionsSound == [][RegionsTrue' /\ MovedIntact]_rgVars
=============================================================================
