----------------------------- MODULE PageCache -----------------------------
(***************************************************************************)
(* The page cache (aether-vfs page_cache.rs) in front of one file, and the *)
(* calls of an open file that go through it (file.rs read, write, advise;  *)
(* inode.rs truncate).                                                     *)
(*                                                                         *)
(* The file itself is behind its own lock, the cache behind another: a     *)
(* load reads the file and then enters the page; a write changes the file  *)
(* and then drops the pages.  A write at a given offset goes to the file   *)
(* alone.  A page is two units of content; a write stores a new value in   *)
(* each unit, and a hole reads as 0.                                       *)
(***************************************************************************)
EXTENDS Integers, FiniteSets, Sequences

CONSTANTS
    PcThread,
    FilePages,     \* pages the file may have: a bound
    CacheFrames,   \* page frames
    CacheLimit,    \* PAGE_CACHE_MAX_PAGES
    PrefetchLimit, \* PAGE_PREFETCH_LIMIT
    FirstSizes,    \* sizes the file may start with
    MaxPcCalls     \* bound

Unit == 2
MaxSize == Unit * FilePages
Pages == 0..(FilePages - 1)

ASSUME PageCacheAssumption ==
    /\ FilePages \in Nat \ {0} /\ CacheLimit \in Nat \ {0} /\ PrefetchLimit \in Nat
    /\ IsFiniteSet(CacheFrames) /\ FirstSizes \subseteq 0..MaxSize

VARIABLES
    file,        \* the file: its size and the value of each unit
    pages,       \* the cache: frame, length and content of each page in it
    recent,      \* those pages by their last_access, oldest first
    freeFrames,  \* frames the allocator has
    pcCall, pcCalls,
    changed      \* history: how often each page of the file has changed
pcVars == <<file, pages, recent, freeFrames, pcCall, pcCalls, changed>>

PcIdle == [at |-> "idle"]
PcInit ==
    /\ file \in {[size |-> n, units |-> [u \in 0..(MaxSize - 1) |-> IF u < n THEN 1 ELSE 0]] :
                   n \in FirstSizes}
    /\ pages = <<>> /\ recent = <<>>
    /\ freeFrames = CacheFrames
    /\ pcCall = [t \in PcThread |-> PcIdle] /\ pcCalls = 0
    /\ changed = [p \in Pages |-> 0]

PcGo(t, call) == pcCall' = [pcCall EXCEPT ![t] = call]
PcStarts(t) == pcCall[t] = PcIdle /\ pcCalls < MaxPcCalls /\ pcCalls' = pcCalls + 1
Least(x, y) == IF x < y THEN x ELSE y
PageLen(f, p) == IF f.size <= Unit * p THEN 0 ELSE Least(Unit, f.size - Unit * p)
\* What the file holds in a page: the units up to its end.
PageOf(f, p) == [k \in 0..(PageLen(f, p) - 1) |-> f.units[Unit * p + k]]

---------------------------------------------------------------------------
(* Reading                                                                 *)

\* read, prefetch_range: a read goes through the units from pos to end, a
\* prefetch through whole pages; advise only prefetches with WillNeed
PcRead(t, pos, end) ==
    /\ PcStarts(t) /\ pos < end
    /\ PcGo(t, [at |-> "read", pos |-> pos, end |-> end])
    /\ UNCHANGED <<file, pages, recent, freeFrames, changed>>
PcPrefetch(t, first, count) ==
    /\ PcStarts(t) /\ count > 0
    /\ PcGo(t, [at |-> "prefetch", pos |-> Unit * first,
                end |-> Unit * (first + Least(count, PrefetchLimit))])
    /\ UNCHANGED <<file, pages, recent, freeFrames, changed>>
Wanted(call) == call.pos \div Unit
AfterLoad(call) ==
    IF call.for = "read" THEN [at |-> "read", pos |-> call.pos, end |-> call.end]
    ELSE [at |-> "prefetch", pos |-> Unit * (Wanted(call) + 1), end |-> call.end]

\* next_access
Others(order, drop) == SelectSeq(order, LAMBDA q : q \notin drop)
Accessed(order, p) == Append(Others(order, {p}), p)

\* copy_cached: the page's part of the buffer; a short page ends the read
ReadCopy(t) ==
    /\ pcCall[t].at = "read" /\ Wanted(pcCall[t]) \in DOMAIN pages
    /\ LET call == pcCall[t]
           p == Wanted(call)
           chunk == Least(call.end - call.pos, pages[p].len - (call.pos % Unit))
       IN  /\ recent' = Accessed(recent, p)
           /\ PcGo(t, IF chunk <= 0 \/ pages[p].len < Unit \/ call.pos + chunk = call.end
                      THEN PcIdle ELSE [call EXCEPT !.pos = @ + chunk])
    /\ UNCHANGED <<file, pages, freeFrames, pcCalls, changed>>

\* A page that is not there is loaded; a prefetch passes over one that is.
\* Without a frame the read ends as if the file did.
LoadStart(t) ==
    /\ pcCall[t].at \in {"read", "prefetch"} /\ Wanted(pcCall[t]) \notin DOMAIN pages
    /\ pcCall[t].pos < pcCall[t].end
    /\ LET call == pcCall[t]
       IN  \/ \E f \in freeFrames :
                /\ freeFrames' = freeFrames \ {f}
                /\ PcGo(t, [at |-> "load", for |-> call.at, pos |-> call.pos, end |-> call.end,
                            frame |-> f, got |-> <<>>, seen |-> changed[Wanted(call)]])
           \/ /\ freeFrames = {} /\ UNCHANGED freeFrames
              /\ PcGo(t, IF call.at = "read" THEN PcIdle
                         ELSE [call EXCEPT !.pos = Unit * (Wanted(call) + 1)])
    /\ UNCHANGED <<file, pages, recent, pcCalls, changed>>
PrefetchSkip(t) ==
    /\ pcCall[t].at = "prefetch"
    /\ \/ /\ pcCall[t].pos >= pcCall[t].end /\ PcGo(t, PcIdle)
       \/ /\ pcCall[t].pos < pcCall[t].end /\ Wanted(pcCall[t]) \in DOMAIN pages
          /\ PcGo(t, [pcCall[t] EXCEPT !.pos = @ + Unit])
    /\ UNCHANGED <<file, pages, recent, freeFrames, pcCalls, changed>>

\* load_page reads the file chunk after chunk until the page is full or the
\* file ends; a failed read gives the frame back
Loading(t) == pcCall[t].at = "load"
LoadMore(t) == LET call == pcCall[t] IN PageLen(file, Wanted(call)) > Len(call.got)
LoadChunk(t) ==
    /\ Loading(t) /\ LoadMore(t)
    /\ LET call == pcCall[t]
           p == Wanted(call)
       IN  \E n \in 1..(PageLen(file, p) - Len(call.got)) :
             PcGo(t, [call EXCEPT !.got = @ \o
                        [k \in 1..n |-> file.units[Unit * p + Len(call.got) + k - 1]]])
    /\ UNCHANGED <<file, pages, recent, freeFrames, pcCalls, changed>>
LoadFail(t) ==
    /\ Loading(t)
    /\ freeFrames' = freeFrames \cup {pcCall[t].frame}
    /\ PcGo(t, IF pcCall[t].for = "read" THEN PcIdle ELSE AfterLoad(pcCall[t]))
    /\ UNCHANGED <<file, pages, recent, pcCalls, changed>>

\* evict_one: of the pages in the cache the one used longest ago
Evicted == {p \in DOMAIN pages : Cardinality(DOMAIN pages) >= CacheLimit /\ p = Head(recent)}

\* insert_page: whoever enters the page first keeps it there
Losers(p, frame) == IF p \in DOMAIN pages THEN {frame} ELSE {}
LoadInsert(t) ==
    /\ Loading(t) /\ ~LoadMore(t)
    /\ LET call == pcCall[t]
           p == Wanted(call)
           entry == [frame |-> call.frame, len |-> Len(call.got), got |-> call.got,
                     raced |-> call.seen # changed[p], missed |-> FALSE]
           out == IF p \in DOMAIN pages THEN {} ELSE Evicted
       IN  IF call.got = <<>>
           THEN /\ freeFrames' = freeFrames \cup {call.frame}
                /\ PcGo(t, IF call.for = "read" THEN PcIdle ELSE AfterLoad(call))
                /\ UNCHANGED <<pages, recent>>
           ELSE /\ pages' = IF p \in DOMAIN pages THEN pages
                            ELSE [q \in (DOMAIN pages \ out) \cup {p} |->
                                    IF q = p THEN entry ELSE pages[q]]
                /\ freeFrames' = freeFrames \cup Losers(p, call.frame) \cup {pages[q].frame : q \in out}
                /\ recent' = Accessed(Others(recent, out), p)
                /\ PcGo(t, AfterLoad(call))
    /\ UNCHANGED <<file, pcCalls, changed>>

---------------------------------------------------------------------------
(* Writing                                                                 *)

Touched(pos, end) == {p \in Pages : pos < Unit * (p + 1) /\ end > Unit * p}

\* write: with O_APPEND the size is read first; then the file is written, and
\* grows when that goes past its end
PcAppend(t, len) ==
    /\ PcStarts(t)
    /\ PcGo(t, [at |-> "write", pos |-> file.size, end |-> file.size + len])
    /\ UNCHANGED <<file, pages, recent, freeFrames, changed>>
PcWrite(t, pos, end) ==
    /\ PcStarts(t) /\ pos < end
    /\ PcGo(t, [at |-> "write", pos |-> pos, end |-> end])
    /\ UNCHANGED <<file, pages, recent, freeFrames, changed>>
\* The file after a write, and a page the write changes although it will not drop it
PcWritten(pos, end) ==
    [size |-> IF end > file.size THEN end ELSE file.size,
     units |-> [u \in DOMAIN file.units |-> IF pos <= u /\ u < end THEN pcCalls' + 1 ELSE file.units[u]]]
FileBecomes(new, told) ==
    LET different == {p \in Pages : PageOf(new, p) # PageOf(file, p)}
    IN  /\ file' = new
        /\ changed' = [p \in Pages |-> IF p \in different THEN changed[p] + 1 ELSE changed[p]]
        /\ pages' = [p \in DOMAIN pages |-> [pages[p] EXCEPT !.missed = @ \/ p \in different \ told]]
WriteFile(t) ==
    /\ pcCall[t].at = "write" /\ pcCall[t].end <= MaxSize
    /\ UNCHANGED <<recent, freeFrames, pcCalls>>
    /\ LET drop == Touched(pcCall[t].pos, pcCall[t].end)
       IN  /\ FileBecomes(PcWritten(pcCall[t].pos, pcCall[t].end), drop)
           /\ PcGo(t, [at |-> "invalidate", drop |-> drop])
\* pwrite64, pwritev64, and copy_file_range to an offset: the inode's write, which
\* drops no page
PcPwrite(t, pos, end) ==
    /\ PcStarts(t) /\ pos < end
    /\ FileBecomes(PcWritten(pos, end), {})
    /\ UNCHANGED <<recent, freeFrames, pcCall>>

\* truncate, which drops every page
PcTruncate(t, size) ==
    /\ PcStarts(t)
    /\ FileBecomes([size |-> size, units |-> [u \in DOMAIN file.units |->
                                                IF u < size THEN file.units[u] ELSE 0]], Pages)
    /\ PcGo(t, [at |-> "invalidate", drop |-> Pages])
    /\ UNCHANGED <<recent, freeFrames>>
\* advise with DontNeed
PcDontNeed(t, pos, end) ==
    /\ PcStarts(t) /\ pos < end
    /\ PcGo(t, [at |-> "invalidate", drop |-> Touched(pos, end)])
    /\ UNCHANGED <<file, pages, recent, freeFrames, changed>>

\* invalidate_file_range, invalidate_all
\* Mutant of Invalidated: the last page of the range is kept.
InvalidatedShort(drop) == {p \in drop : \E q \in drop : q > p}
Invalidated(drop) == drop
Invalidate(t) ==
    /\ pcCall[t].at = "invalidate"
    /\ LET drop == Invalidated(pcCall[t].drop) \cap DOMAIN pages
       IN  /\ freeFrames' = freeFrames \cup {pages[p].frame : p \in drop}
           /\ pages' = [p \in DOMAIN pages \ drop |-> pages[p]]
           /\ recent' = Others(recent, drop)
    /\ PcGo(t, PcIdle)
    /\ UNCHANGED <<file, pcCalls, changed>>

\* reclaim_page_cache, the handler of memory shortage: takes everything out
\* under the lock, and frees it after
Reclaim(t) ==
    /\ PcStarts(t) /\ pages # <<>>
    /\ PcGo(t, [at |-> "release", frames |-> {pages[p].frame : p \in DOMAIN pages}])
    /\ pages' = <<>> /\ recent' = <<>>
    /\ UNCHANGED <<file, freeFrames, changed>>
ReclaimRelease(t) ==
    /\ pcCall[t].at = "release"
    /\ freeFrames' = freeFrames \cup pcCall[t].frames
    /\ PcGo(t, PcIdle)
    /\ UNCHANGED <<file, pages, recent, pcCalls, changed>>

PcNext == \E t \in PcThread :
    \/ /\ pcCall[t] = PcIdle /\ pcCalls < MaxPcCalls
       /\ \/ \E pos, end \in 0..MaxSize :
               PcRead(t, pos, end) \/ PcWrite(t, pos, end) \/ PcPwrite(t, pos, end) \/ PcDontNeed(t, pos, end)
          \/ \E p \in Pages : \E n \in 1..(FilePages - p) : PcPrefetch(t, p, n)
          \/ \E n \in 1..Unit : PcAppend(t, n)
          \/ \E size \in 0..MaxSize : PcTruncate(t, size)
    \/ ReadCopy(t) \/ LoadStart(t) \/ PrefetchSkip(t) \/ LoadChunk(t) \/ LoadFail(t) \/ LoadInsert(t)
    \/ WriteFile(t) \/ Invalidate(t) \/ Reclaim(t) \/ ReclaimRelease(t)
PcSpec == PcInit /\ [][PcNext]_pcVars

---------------------------------------------------------------------------
(* The cache never shows what the file no longer holds, but for a writer   *)
(* on its way to drop the page, a load that overlapped a change of the     *)
(* page, a short page that a write further on has made longer, and a page  *)
(* that pwrite has changed.                                                *)
CacheFresh ==
    \A p \in DOMAIN pages :
        \/ [k \in 0..(pages[p].len - 1) |-> pages[p].got[k + 1]] = PageOf(file, p)
        \/ pages[p].raced \/ pages[p].missed
        \/ \E t \in PcThread : pcCall[t].at = "invalidate" /\ p \in pcCall[t].drop

HeldFrames(t) == CASE pcCall[t].at = "load" -> {pcCall[t].frame}
                   [] pcCall[t].at = "release" -> pcCall[t].frames
                   [] OTHER -> {}
(* A frame is free, in the cache or with the one call that loads or frees  *)
(* it, whoever wins a page two calls load at once: none is lost and none   *)
(* freed while the cache still shows it.                                   *)
CacheFramesExact ==
    LET cached == {pages[p].frame : p \in DOMAIN pages}
        held == UNION {HeldFrames(t) : t \in PcThread}
    IN  /\ freeFrames \cup cached \cup held = CacheFrames
        /\ freeFrames \cap (cached \cup held) = {} /\ cached \cap held = {}
        /\ \A p, q \in DOMAIN pages : pages[p].frame = pages[q].frame => p = q
        /\ \A t, u \in PcThread : t # u => HeldFrames(t) \cap HeldFrames(u) = {}

\* The cache holds what the file holds, in frames of its own (page_cache.rs,
\* file.rs).
PageCacheSound == CacheFresh /\ CacheFramesExact
=============================================================================
