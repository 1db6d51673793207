---------------------------- MODULE AddressSpace ----------------------------
(***************************************************************************)
(* User address spaces: the list of areas (UserVma), the pages mapped so   *)
(* far (UserMapping, which the page table mirrors), and the frames they    *)
(* refer to.                                                               *)
(*                                                                         *)
(* mmap, munmap, mprotect and brk edit the list, slicing and merging its   *)
(* areas; a page of a private area gets a frame at its first access, zeroed *)
(* or filled from the file at an offset that the slices have to keep right. *)
(* fork copies the list and shares the frames copy-on-write: the reference *)
(* count of a frame decides at the next write whether the page is copied   *)
(* or simply made writable.  The inner lock is held for a whole operation, *)
(* so an operation is one step; what interleaves is the operations of the  *)
(* processes that share frames.                                            *)
(*                                                                         *)
(* Addresses and lengths are counted in pages.  The heap's reserve is      *)
(* 0..BrkLimit-1, mmap places areas between BrkLimit and MmapTop, and the  *)
(* executable's segments are areas of their own.                           *)
(***************************************************************************)
EXTENDS Naturals, FiniteSets, SequencesExt

CONSTANTS
    Space,      \* the address spaces
    Frame,      \* the frames of the allocator
    Value,      \* the contents of a page
    Zero,       \* the contents of a zeroed page
    BrkLimit, MmapTop, Limit,  \* the end of the heap's reserve, of mmap's window, of user addresses
    Image,      \* the pages of the file that is executed and mapped
    Segments,   \* the areas of the executable
    ShmPages,   \* the frames of a shared memory file
    Device,     \* a frame that is not the allocator's
    Writable,   \* bound: the protections mmap is asked for
    Offset,     \* bound: the offsets files are mapped from
    Stored,     \* bound: the contents processes write
    MaxFailures,\* bound: how often a page table cannot be allocated
    MaxCalls,   \* bound: calls of mmap, munmap and mprotect, and of fork that fail
    None

ASSUME LayoutAssumption ==
    /\ BrkLimit \in Nat /\ MmapTop \in Nat /\ Limit \in Nat
    /\ MaxFailures \in Nat /\ MaxCalls \in Nat
    /\ BrkLimit <= MmapTop /\ MmapTop <= Limit
ASSUME ContentsAssumption ==
    /\ Zero \in Value /\ Image \in Seq(Value) /\ ShmPages \in Seq(Frame) /\ IsInjective(ShmPages)
    /\ Device \notin Frame /\ Writable \subseteq BOOLEAN
    /\ Offset \subseteq 0..Len(Image) /\ Stored \subseteq Value /\ None \notin Nat

Page == 0..(Limit - 1)
Placement == {"any", "fixed", "noreplace"}

VARIABLES
    live,      \* the address spaces some process has
    vmas,      \* UserAddressSpaceInner.vmas
    pages,     \* UserAddressSpaceInner.mappings, by page
    brk,       \* brk_current
    refs,      \* the allocator's reference counts; 0 is free
    data,      \* the contents of the frames
    failures,  \* how often a page table could not be allocated
    calls,     \* how many of those calls there have been
    image,     \* history: what each process wrote or mapped, page by page
    leaked,    \* history: references that failed calls kept
    stray,     \* history: pages a failed mmap left behind
    exposed    \* history: pages whose frame an mprotect elsewhere made writable while it was shared

vars == <<live, vmas, pages, brk, refs, data, failures, calls, image, leaked, stray, exposed>>

------------------------------------------------------------------------------
(* The list of areas *)

Vma(start, end, write, kind) ==
    [start |-> start, end |-> end, write |-> write, kind |-> kind, lazy |-> TRUE,
     base |-> 0, offset |-> 0, len |-> 0]

\* Mutant of Slice: the offset of the mapped file stays behind.
SliceInPlace(v, start, end) == [v EXCEPT !.start = start, !.end = end]

\* A file is mapped from an offset of the area's own start, which a slice moves
\* along; a segment keeps the start of the whole segment.
Slice(v, start, end) ==
    LET delta == start - v.start IN
    [v EXCEPT !.start = start, !.end = end,
              !.offset = IF v.kind = "PagedImage" THEN @ + delta ELSE @,
              !.len = IF v.kind # "PagedImage" THEN @ ELSE IF @ < delta THEN 0 ELSE @ - delta]

Mergeable(v, w) ==
    /\ v.end = w.start /\ v.write = w.write /\ v.lazy = w.lazy
    /\ v.kind = w.kind /\ v.kind \notin {"PagedImage", "ElfSegmentImage"}

Coalesce(vs) ==
    FoldLeft(LAMBDA merged, v : IF merged # <<>> /\ Mergeable(Last(merged), v)
                                THEN [merged EXCEPT ![Len(merged)].end = v.end]
                                ELSE Append(merged, v),
             <<>>, vs)

\* The new area goes where the binary search says and is merged with its
\* neighbours; the others have been merged when they came.
RecordVma(vs, v) ==
    Coalesce(InsertAt(vs, Cardinality({i \in DOMAIN vs : vs[i].start < v.start}) + 1, v))

Meets(v, start, end) == v.start < end /\ start < v.end

\* An area that meets start..end-1 is cut there, and its part inside becomes inside.
CutVma(v, start, end, inside) ==
    (IF start > v.start THEN <<Slice(v, v.start, start)>> ELSE <<>>)
    \o inside
    \o (IF end < v.end THEN <<Slice(v, end, v.end)>> ELSE <<>>)

RemoveVmaRange(vs, start, end) ==
    LET Removed(v) == IF Meets(v, start, end) THEN CutVma(v, start, end, <<>>) ELSE <<v>>
    IN Coalesce(FlattenSeq([i \in DOMAIN vs |-> Removed(vs[i])]))

UpdateVmaFlags(vs, start, end, write) ==
    LET Inside(v) == Slice(v, Max({v.start, start}), Min({v.end, end}))
        Updated(v) == IF Meets(v, start, end)
                      THEN CutVma(v, start, end, <<[Inside(v) EXCEPT !.write = write]>>)
                      ELSE <<v>>
    IN Coalesce(FlattenSeq([i \in DOMAIN vs |-> Updated(vs[i])]))

RangeFree(vs, start, end) == \A i \in DOMAIN vs : ~Meets(vs[i], start, end)

\* The areas are visited from the top.  The search ends at the first that is
\* below the window; it has an answer before that only where gap is at or below
\* the area it visits.
FindTopDownGap(vs, lower, upper, len) ==
    LET Visit(s, v) ==
          IF s.done \/ v.start >= upper THEN s
          ELSE IF v.end <= lower THEN [s EXCEPT !.done = TRUE]
          ELSE IF s.gap >= lower + len /\ s.gap <= v.start THEN [s EXCEPT !.done = TRUE]
          ELSE IF v.start <= lower THEN [done |-> TRUE, gap |-> lower]
          ELSE [s EXCEPT !.gap = v.start]
        gap == FoldLeft(Visit, [done |-> FALSE, gap |-> upper], Reverse(vs)).gap
    IN IF lower + len <= upper /\ lower + len <= gap THEN gap - len ELSE None

------------------------------------------------------------------------------
(* Pages and frames *)

\* The allocator counts the references of private and of shared pages, not of a device's.
Counted(m) == m.owned \/ m.shared

CountOf(ps, f, R) == Cardinality({p \in DOMAIN ps \cap R : ps[p].frame = f /\ Counted(ps[p])})

\* Mutant of ReleasePages: the references of shared pages stay.
ReleaseOwned(ps, rs, R) ==
    [f \in Frame |-> rs[f] - Cardinality({p \in DOMAIN ps \cap R : ps[p].frame = f /\ ps[p].owned})]

UnmapPages(ps, R) == Restrict(ps, DOMAIN ps \ R)
ReleasePages(ps, rs, R) == [f \in Frame |-> rs[f] - CountOf(ps, f, R)]
RetainPages(ps, rs, R) == [f \in Frame |-> rs[f] + CountOf(ps, f, R)]

Free(rs) == {f \in Frame : rs[f] = 0}

\* Free frames are all alike: which one the allocator takes makes no difference.
NewFrame(rs) == CHOOSE f \in Free(rs) : TRUE

\* What fill_lazy_page_from_vma puts into a zeroed frame.
Contents(v, p) ==
    LET start == IF v.kind = "ElfSegmentImage" THEN v.base ELSE v.start IN
    IF v.kind \in {"PagedImage", "ElfSegmentImage"} /\ p - start < v.len
    THEN Image[v.offset + (p - start) + 1]
    ELSE Zero

LazyVmas(vs, p) == {i \in DOMAIN vs : vs[i].lazy /\ vs[i].start <= p /\ p < vs[i].end}

OwnedPage(f, write) == [frame |-> f, write |-> write, cow |-> FALSE, owned |-> TRUE, shared |-> FALSE]

\* The pages and frames of s as they are.
Memory(s) == [pages |-> pages[s], refs |-> refs, data |-> data]

\* A first access gives the page a frame; None if there is no area for it or no frame.
MapLazyPage(s, p, write) ==
    LET I == LazyVmas(vmas[s], p) IN
    IF I = {} \/ (write /\ \A i \in I : ~vmas[s][i].write) \/ Free(refs) = {} THEN None
    ELSE LET f == NewFrame(refs)
             v == vmas[s][CHOOSE i \in I : TRUE]
         IN [pages |-> pages[s] @@ (p :> OwnedPage(f, \E i \in I : vmas[s][i].write)),
             refs |-> [refs EXCEPT ![f] = 1],
             data |-> [data EXCEPT ![f] = Contents(v, p)]]

\* A write to a page shared by fork copies it, unless nobody else refers to it any more.
ResolveCowFault(s, p) ==
    LET old == pages[s][p].frame
        Writes(f) == [pages[s] EXCEPT ![p].frame = f, ![p].write = TRUE, ![p].cow = FALSE]
    IN IF refs[old] <= 1 THEN [Memory(s) EXCEPT !.pages = Writes(old)]
       ELSE IF Free(refs) = {} THEN None
       ELSE LET new == NewFrame(refs) IN
            [pages |-> Writes(new),
             refs |-> [refs EXCEPT ![old] = @ - 1, ![new] = 1],
             data |-> [data EXCEPT ![new] = data[old]]]

\* ensure_access: s may read, or write, page p from here on.
EnsureAccess(s, p, write) ==
    IF p \notin DOMAIN pages[s] THEN MapLazyPage(s, p, write)
    ELSE IF write /\ pages[s][p].cow THEN ResolveCowFault(s, p)
    ELSE IF write /\ ~pages[s][p].write THEN None
    ELSE Memory(s)

\* The frames after a step; what a free frame holds is overwritten before it is read.
SetFrames(rs, d) ==
    /\ refs' = rs
    /\ data' = [f \in Frame |-> IF rs[f] = 0 THEN Zero ELSE d[f]]

SetMemory(s, m) ==
    /\ pages' = [pages EXCEPT ![s] = m.pages]
    /\ SetFrames(m.refs, m.data)

\* The history of what the pages of R hold.
SetImage(s, R, Content(_)) ==
    image' = [image EXCEPT ![s] = [p \in Page |-> IF p \in R THEN Content(p) ELSE @[p]]]

\* The pages of R are unmapped, and with them what has been noted of them.
ForgetPages(s, R) ==
    /\ stray' = [stray EXCEPT ![s] = @ \ R]
    /\ exposed' = [exposed EXCEPT ![s] = @ \ R]

------------------------------------------------------------------------------
(* Initial states *)

HeapVma == Vma(0, 0, TRUE, "Heap")
NewVmas == FoldLeft(RecordVma, <<HeapVma>>, Segments)

\* What the process finds in each page of its executable.
NewImage ==
    [p \in Page |-> LET I == LazyVmas(Segments, p) IN
                    IF I = {} THEN Zero ELSE Contents(Segments[CHOOSE i \in I : TRUE], p)]

Init ==
    /\ \E first \in Space :
          /\ live = {first}
          /\ vmas = [s \in Space |-> IF s = first THEN NewVmas ELSE <<>>]
          /\ image = [s \in Space |-> IF s = first THEN NewImage ELSE [p \in Page |-> Zero]]
    /\ pages = [s \in Space |-> <<>>]
    /\ brk = [s \in Space |-> 0]
    /\ refs = [f \in Frame |-> IF f \in Range(ShmPages) THEN 1 ELSE 0]
    /\ data = [f \in Frame |-> Zero]
    /\ failures = 0
    /\ calls = 0
    /\ leaked = [f \in Frame |-> 0]
    /\ stray = [s \in Space |-> {}]
    /\ exposed = [s \in Space |-> {}]

------------------------------------------------------------------------------
(* mmap, munmap, mprotect, brk *)

Call(s) == s \in live /\ calls < MaxCalls /\ calls' = calls + 1

\* prepare_mapping_base: where len pages go, and what is left there of earlier areas.
Place(s, how, addr, len) ==
    LET R == addr..(addr + len - 1)
        here == [base |-> addr, vmas |-> vmas[s], pages |-> pages[s], refs |-> refs, cleared |-> {}]
    IN CASE how = "fixed" ->
              [here EXCEPT !.vmas = RemoveVmaRange(@, addr, addr + len),
                           !.pages = UnmapPages(@, R),
                           !.refs = ReleasePages(pages[s], @, R),
                           !.cleared = R]
         [] how = "noreplace" ->
              [here EXCEPT !.base = IF RangeFree(vmas[s], addr, addr + len) THEN @ ELSE None]
         [] how = "any" ->
              [here EXCEPT !.base = FindTopDownGap(vmas[s], BrkLimit, MmapTop, len)]

\* The requests of the model: addresses outside the heap's reserve, and no
\* address where the kernel chooses.
Requests(how) == IF how = "any" THEN {0} ELSE BrkLimit..(Limit - 1)

\* The area of a private mapping; of a file it knows where it begins and what is left of it.
LazyVma(base, len, write, kind, offset) ==
    [Vma(base, base + len, write, kind) EXCEPT
        !.offset = offset,
        !.len = IF kind = "PagedImage" THEN Min({len, Len(Image) - offset}) ELSE 0]

\* mmap of anonymous memory, or of a file from page offset of it: nothing is mapped yet.
MmapLazy(s, kind, how, addr, len, write, offset) ==
    LET at == Place(s, how, addr, len)
        v == LazyVma(at.base, len, write, kind, offset)
    IN /\ Call(s) /\ addr + len <= Limit
       /\ at.base # None
       /\ vmas' = [vmas EXCEPT ![s] = RecordVma(at.vmas, v)]
       /\ SetMemory(s, [pages |-> at.pages, refs |-> at.refs, data |-> data])
       /\ SetImage(s, at.base..(at.base + len - 1), LAMBDA p : Contents(v, p))
       /\ ForgetPages(s, at.cleared)
       /\ UNCHANGED <<live, brk, failures, leaked>>

MmapAnonymous(s, how, addr, len, write) == MmapLazy(s, "Anonymous", how, addr, len, write, 0)

\* mmap of a shared memory file or of a device maps its pages at once.  Page number
\* done may be mapped already, or no page table may be had for it: the pages before it
\* stay, with no area, and a shared frame keeps the reference taken for it.
MmapEager(s, kind, how, addr, len, write, done) ==
    LET at == Place(s, how, addr, len)
        R == at.base..(at.base + done - 1)
        blocked == at.base + done \in DOMAIN at.pages
        FrameOf(p) == IF kind = "Shared" THEN ShmPages[p - at.base + 1] ELSE Device
        new == [p \in R |-> [frame |-> FrameOf(p), write |-> write, cow |-> FALSE,
                             owned |-> FALSE, shared |-> kind = "Shared"]]
        lost == IF done < len /\ kind = "Shared" THEN {ShmPages[done + 1]} ELSE {}
        rs == RetainPages(new, at.refs, R)
    IN /\ Call(s) /\ addr + len <= Limit
       /\ kind = "Shared" => len <= Len(ShmPages)
       /\ at.base # None
       /\ R \cap DOMAIN at.pages = {}
       /\ done = len \/ blocked \/ failures < MaxFailures
       /\ vmas' = [vmas EXCEPT ![s] =
                     IF done < len THEN at.vmas
                     ELSE RecordVma(at.vmas, [Vma(at.base, at.base + len, write, kind) EXCEPT !.lazy = FALSE])]
       /\ SetMemory(s, [pages |-> at.pages @@ new,
                        refs |-> [f \in Frame |-> IF f \in lost THEN rs[f] + 1 ELSE rs[f]],
                        data |-> data])
       /\ stray' = [stray EXCEPT ![s] = (@ \ at.cleared) \cup (IF done < len THEN R ELSE {})]
       /\ exposed' = [exposed EXCEPT ![s] = @ \ at.cleared]
       /\ leaked' = [f \in Frame |-> IF f \in lost THEN leaked[f] + 1 ELSE leaked[f]]
       /\ failures' = IF done < len /\ ~blocked THEN failures + 1 ELSE failures
       /\ UNCHANGED <<live, brk, image>>

Munmap(s, addr, len) ==
    LET R == addr..(addr + len - 1) IN
    /\ Call(s) /\ addr + len <= Limit
    /\ SetMemory(s, [pages |-> UnmapPages(pages[s], R), refs |-> ReleasePages(pages[s], refs, R),
                     data |-> data])
    /\ vmas' = [vmas EXCEPT ![s] = RemoveVmaRange(@, addr, addr + len)]
    /\ SetImage(s, R, LAMBDA p : Zero)
    /\ ForgetPages(s, R)
    /\ UNCHANGED <<live, brk, failures, leaked>>


\* A page gets the protection asked for, and is no longer copied on write.
Reprotected(m, write) == [m EXCEPT !.write = write, !.cow = FALSE]

Mprotect(s, addr, len, write) ==
    LET R == addr..(addr + len - 1)
        hit == DOMAIN pages[s] \cap R
    IN /\ Call(s) /\ addr + len <= Limit
       /\ hit # {} \/ ~RangeFree(vmas[s], addr, addr + len)
       /\ pages' = [pages EXCEPT ![s] =
                      [p \in DOMAIN @ |-> IF p \in R THEN Reprotected(@[p], write) ELSE @[p]]]
       /\ vmas' = [vmas EXCEPT ![s] = UpdateVmaFlags(@, addr, addr + len, write)]
       /\ exposed' = [t \in Space |-> exposed[t] \cup
                        {q \in DOMAIN pages[t] : /\ write /\ t # s /\ pages[t][q].owned
                                                 /\ \E p \in hit : pages[s][p].frame = pages[t][q].frame}]
       /\ UNCHANGED <<live, brk, refs, data, failures, image, leaked, stray>>

\* The heap's area ends where the break is; pages above it are given back.
Brk(s, new) ==
    LET R == new..(brk[s] - 1) IN
    /\ s \in live /\ new <= BrkLimit
    /\ SetMemory(s, [pages |-> UnmapPages(pages[s], R), refs |-> ReleasePages(pages[s], refs, R),
                     data |-> data])
    /\ brk' = [brk EXCEPT ![s] = new]
    /\ vmas' = [vmas EXCEPT ![s] =
                  LET heaps == {i \in DOMAIN @ : @[i].kind = "Heap"} IN
                  IF heaps = {} THEN @ ELSE [@ EXCEPT ![Min(heaps)].end = new]]
    /\ SetImage(s, R, LAMBDA p : Zero)
    /\ ForgetPages(s, R)
    /\ UNCHANGED <<live, failures, calls, leaked>>

------------------------------------------------------------------------------
(* Accesses.  What shared memory and devices hold is not followed. *)

\* A page fault that the kernel resolves; one it does not is the process's to answer for.
PageFault(s, p, write) ==
    /\ s \in live
    /\ p \in DOMAIN pages[s] => write /\ pages[s][p].cow
    /\ LET m == EnsureAccess(s, p, write) IN m # None /\ SetMemory(s, m)
    /\ UNCHANGED <<live, vmas, brk, failures, calls, image, leaked, stray, exposed>>

\* A store of the process itself, through its page table.
Store(s, p, v) ==
    /\ s \in live
    /\ p \in DOMAIN pages[s] /\ pages[s][p].write /\ pages[s][p].owned
    /\ data' = [data EXCEPT ![pages[s][p].frame] = v]
    /\ image' = [image EXCEPT ![s][p] = v]
    /\ UNCHANGED <<live, vmas, pages, brk, refs, failures, calls, leaked, stray, exposed>>

\* The kernel writes to a process's memory for a system call (UserAddressSpace::write).
KernelWrite(s, p, v) ==
    /\ s \in live
    /\ LET m == EnsureAccess(s, p, TRUE) IN
       /\ m # None /\ m.pages[p].owned
       /\ SetMemory(s, [m EXCEPT !.data[m.pages[p].frame] = v])
    /\ image' = [image EXCEPT ![s][p] = v]
    /\ UNCHANGED <<live, vmas, brk, failures, calls, leaked, stray, exposed>>

------------------------------------------------------------------------------
(* fork, exec, exit *)

\* What fork makes of a page, in the parent and in the child.
CowPage(m) ==
    IF m.owned /\ (m.cow \/ m.write) THEN [m EXCEPT !.write = FALSE, !.cow = TRUE] ELSE m

Fork(s, c) ==
    LET shared == [p \in DOMAIN pages[s] |-> CowPage(pages[s][p])] IN
    /\ s \in live /\ c \in Space \ live
    /\ live' = live \cup {c}
    /\ vmas' = [vmas EXCEPT ![c] = vmas[s]]
    /\ brk' = [brk EXCEPT ![c] = brk[s]]
    /\ pages' = [pages EXCEPT ![s] = shared, ![c] = shared]
    /\ SetFrames(RetainPages(pages[s], refs, Page), data)
    /\ image' = [image EXCEPT ![c] = image[s]]
    /\ stray' = [stray EXCEPT ![c] = stray[s]]
    /\ exposed' = [exposed EXCEPT ![c] = exposed[s]]
    /\ UNCHANGED <<failures, calls, leaked>>

\* There is no page table for page q of the child: the child is dropped with the pages it
\* has, the reference taken for q stays, and so do the parent's pages marked so far.
ForkFails(s, q) ==
    LET counted == {f \in Frame : pages[s][q].frame = f /\ Counted(pages[s][q])} IN
    /\ Call(s) /\ Space # live /\ failures < MaxFailures
    /\ q \in DOMAIN pages[s]
    /\ pages' = [pages EXCEPT ![s] = [p \in DOMAIN @ |-> IF p < q THEN CowPage(@[p]) ELSE @[p]]]
    /\ SetFrames([f \in Frame |-> IF f \in counted THEN refs[f] + 1 ELSE refs[f]], data)
    /\ leaked' = [f \in Frame |-> IF f \in counted THEN leaked[f] + 1 ELSE leaked[f]]
    /\ failures' = failures + 1
    /\ UNCHANGED <<live, vmas, brk, image, stray, exposed>>

\* The last process of an address space has exited: its pages are released.
Exit(s) ==
    /\ s \in live
    /\ live' = live \ {s}
    /\ SetMemory(s, [pages |-> <<>>, refs |-> ReleasePages(pages[s], refs, Page), data |-> data])
    /\ vmas' = [vmas EXCEPT ![s] = <<>>]
    /\ brk' = [brk EXCEPT ![s] = 0]
    /\ SetImage(s, Page, LAMBDA p : Zero)
    /\ ForgetPages(s, Page)
    /\ UNCHANGED <<failures, calls, leaked>>

\* exec replaces the address space by a new one with the executable's areas.
Exec(s) ==
    /\ s \in live
    /\ SetMemory(s, [pages |-> <<>>, refs |-> ReleasePages(pages[s], refs, Page), data |-> data])
    /\ vmas' = [vmas EXCEPT ![s] = NewVmas]
    /\ brk' = [brk EXCEPT ![s] = 0]
    /\ SetImage(s, Page, LAMBDA p : NewImage[p])
    /\ ForgetPages(s, Page)
    /\ UNCHANGED <<live, failures, calls, leaked>>

------------------------------------------------------------------------------
Length == 1..(Limit - BrkLimit)

Next ==
    \E s \in Space :
        \/ \E how \in Placement, len \in Length, write \in Writable :
              \E addr \in Requests(how) :
                 \/ MmapAnonymous(s, how, addr, len, write)
                 \/ \E offset \in Offset :
                       MmapLazy(s, "PagedImage", how, addr, len, write, offset)
                 \/ \E kind \in {"Shared", "Device"}, done \in 0..len :
                       MmapEager(s, kind, how, addr, len, write, done)
        \/ \E addr \in BrkLimit..(Limit - 1), len \in Length :
              \/ Munmap(s, addr, len)
              \/ \E write \in BOOLEAN : Mprotect(s, addr, len, write)
        \/ \E new \in 0..BrkLimit : Brk(s, new)
        \/ \E p \in Page :
              \/ \E write \in BOOLEAN : PageFault(s, p, write)
              \/ \E v \in Stored : Store(s, p, v) \/ KernelWrite(s, p, v)
              \/ ForkFails(s, p)
        \/ \E c \in Space : Fork(s, c)
        \/ Exit(s)
        \/ Exec(s)

Spec == Init /\ [][Next]_vars

------------------------------------------------------------------------------
(* Properties *)

\* What process s reads at p, if it may read there at all.
Reads(s, p) ==
    IF p \in DOMAIN pages[s] THEN data[pages[s][p].frame]
    ELSE Contents(vmas[s][CHOOSE i \in LazyVmas(vmas[s], p) : TRUE], p)

\* A process finds in a private page what it wrote there last, or what it got with the
\* mapping or from its parent at fork, whatever the processes that share its frames have
\* done since.  (resolve_cow_fault, map_lazy_page, slice.)  Pages whose frame another
\* process made writable with mprotect while they shared it are excepted: the code does not
\* copy it then.
ReadsOwnImage ==
    \A s \in live, p \in Page :
        LazyVmas(vmas[s], p) # {} /\ p \notin stray[s] \cup exposed[s] =>
            /\ p \in DOMAIN pages[s] => pages[s][p].owned
            /\ Reads(s, p) = image[s][p]

\* The count of a frame is the number of pages that refer to it, over all address spaces,
\* and one for the file that has it: no frame is freed under a page, and none is lost but
\* by a call that failed half way.  (FrameAllocator::retain and release in process.rs.)
RefsExact ==
    \A f \in Frame :
        refs[f] = Cardinality({<<s, p>> \in Space \X Page :
                                 p \in DOMAIN pages[s] /\ pages[s][p].frame = f /\ Counted(pages[s][p])})
                  + (IF f \in Range(ShmPages) THEN 1 ELSE 0) + leaked[f]

\* A mapped page lies in exactly one area, and may be written, now or after a copy, only if
\* the area may: a page table never allows what munmap or mprotect took away.
PagesWithinVmas ==
    \A s \in live : \A p \in DOMAIN pages[s] \ stray[s] :
        LET I == {i \in DOMAIN vmas[s] : vmas[s][i].start <= p /\ p < vmas[s][i].end} IN
        /\ Cardinality(I) = 1
        /\ \A i \in I : pages[s][p].write \/ pages[s][p].cow => vmas[s][i].write

\* Page tables, areas and reference counts agree (process.rs).
MappingsExact == RefsExact /\ PagesWithinVmas
=============================================================================
