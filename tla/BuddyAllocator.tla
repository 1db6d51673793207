--------------------------- MODULE BuddyAllocator ---------------------------
(***************************************************************************)
(* The physical frame allocator (aether-frame/src/mm/buddy.rs): global     *)
(* free lists by order, a cache of small blocks for every CPU, reference   *)
(* counted allocations and a fixed pool of list nodes.                     *)
(*                                                                         *)
(* Every call runs under the allocator's spin lock, so one call is in      *)
(* progress at a time.  A turn of one of its loops is a step: seeding,     *)
(* refilling, splitting, draining and merging.  A list is the set of the   *)
(* blocks on it: the global lists are sorted, and which block of a CPU's   *)
(* cache comes first is left open.                                         *)
(***************************************************************************)
EXTENDS Integers, FiniteSets, Sequences

CONSTANTS
    Cpu,
    MemoryMap,      \* the boot loader's regions, [start, len, usable], in bytes
    PAGE_SIZE,
    CacheMaxOrder,  \* PER_CPU_CACHE_MAX_ORDER
    MaxNodes,       \* MAX_BLOCK_NODES
    MaxRefs,        \* the largest reference count (of a u32)
    MaxCached,      \* bound: the pages the page cache holds
    None

-----------------------------------------------------------------------------
(* The memory map, and blocks *)

\* collect_usable_ranges: the whole pages of a region
FramesOf(region) ==
    ((region.start + PAGE_SIZE - 1) \div PAGE_SIZE)..
        ((region.start + region.len) \div PAGE_SIZE - 1)

UsableRegions == {i \in DOMAIN MemoryMap : MemoryMap[i].usable}

\* usable_ranges: insert_merged_sorted joins what is adjacent
Frame == UNION {FramesOf(MemoryMap[i]) : i \in UsableRegions}

block_size(order) == 2^order

\* floor_log2(total_frames)
MaxOrder == CHOOSE k \in 0..Cardinality(Frame) :
               block_size(k) <= Cardinality(Frame) /\ Cardinality(Frame) < block_size(k + 1)
Order == 0..MaxOrder

\* ceil_log2 of a count the allocator accepts
order_for_count(count) ==
    CHOOSE k \in Order : /\ count <= block_size(k)
                         /\ \A j \in Order : count <= block_size(j) => k <= j

refill_batch(order) == IF order < CacheMaxOrder THEN 2^(CacheMaxOrder - order) ELSE 1
high_watermark(order) == 2 * refill_batch(order)

Extent(s, order) == s..(s + block_size(order) - 1)

\* insert_merged_sorted rejects a map whose usable regions overlap.
ASSUME MapAssumption ==
    /\ PAGE_SIZE \in Nat \ {0}
    /\ IsFiniteSet(Frame) /\ Frame # {} /\ Frame \subseteq Nat
    /\ \A i, j \in UsableRegions : i # j => FramesOf(MemoryMap[i]) \cap FramesOf(MemoryMap[j]) = {}
ASSUME BoundAssumption == CacheMaxOrder \in Nat /\ MaxNodes \in Nat /\ MaxRefs \in Nat \ {0} /\ MaxCached \in Nat
\* Powers of two, up to the largest orders
ASSUME OrderAssumption ==
    /\ MaxOrder \in Nat
    /\ \A k \in 0..CacheMaxOrder : 2^k \in Nat \ {0}
    /\ \A k \in 0..MaxOrder : /\ block_size(k) \in Nat \ {0}
                              /\ block_size(k + 1) = 2 * block_size(k)
ASSUME NoneAssumption ==
    /\ None \notin Cpu /\ None \notin [start : Frame, order : Order]
    /\ "free" \notin Cpu /\ "allocated" \notin Cpu /\ "hand" \notin Cpu

-----------------------------------------------------------------------------
VARIABLES
    unseeded,     \* frames bootstrap has yet to put on a free list
    free,         \* global_free_heads: the first frames of the free blocks of an order
    cache,        \* per_cpu
    allocations,  \* first frame -> [order, refs]
    unused,       \* nodes.unused_len
    call,         \* the call in progress: [pc, cpu, order, left]
    hand,         \* the block it has taken off a list, [start, order], or None
    page_cache    \* allocated frames the page cache holds

vars == <<unseeded, free, cache, allocations, unused, call, hand, page_cache>>

PC == {"idle", "search", "split", "take", "recover", "stuck", "drain", "merge"}
Idle == [pc |-> "idle", cpu |-> None, order |-> 0, left |-> 0]

Init ==
    /\ unseeded = Frame
    /\ free = [k \in Order |-> {}]
    /\ cache = [c \in Cpu |-> [k \in 0..CacheMaxOrder |-> {}]]
    /\ allocations = [s \in {} |-> None]
    /\ unused = MaxNodes
    /\ call = Idle
    /\ hand = None
    /\ page_cache = {}

Least(S) == CHOOSE s \in S : \A t \in S : s <= t

\* max_fit_order, of what remains of a range
Fits(s, k) == Extent(s, k) \subseteq unseeded /\ s % block_size(k) = 0

\* bootstrap: seed_global_free_region, from the first range to the last
Seed ==
    /\ unseeded # {} /\ unused > 0
    /\ \E k \in Order :
          LET s == Least(unseeded) IN
          /\ Fits(s, k) /\ \A j \in Order : Fits(s, j) => j <= k
          /\ unseeded' = unseeded \ Extent(s, k)
          /\ free' = [free EXCEPT ![k] = @ \cup {s}]
    /\ unused' = unused - 1
    /\ UNCHANGED <<cache, allocations, call, hand, page_cache>>

Ready == unseeded = {} /\ call = Idle

-----------------------------------------------------------------------------
(* Allocation *)

Cached(c, k) == IF k <= CacheMaxOrder THEN cache[c][k] ELSE {}

\* mark_allocated
MarkAllocated(s, k) ==
    allocations' = [t \in DOMAIN allocations \cup {s} |->
                       IF t = s THEN [order |-> k, refs |-> 1] ELSE allocations[t]]

\* cpu_pop, and the block is the caller's
TakeCached(c, k) ==
    \E s \in Cached(c, k) :
        /\ cache' = [cache EXCEPT ![c][k] = @ \ {s}]
        /\ MarkAllocated(s, k)
        /\ call' = Idle
        /\ UNCHANGED <<unseeded, free, unused, hand, page_cache>>

\* alloc_frame_4k_on_cpu: from the cache, or from the global lists
Alloc(c, count) ==
    LET k == order_for_count(count) IN
    /\ Ready
    /\ IF Cached(c, k) # {} THEN TakeCached(c, k)
       ELSE /\ call' = [pc |-> "search", cpu |-> c, order |-> k, left |-> refill_batch(k)]
            /\ UNCHANGED <<unseeded, free, cache, allocations, unused, hand, page_cache>>

\* Mutant of AfterOutOfMemory: a refill that has some tries again.
AfterOutOfMemoryRetry == IF Cached(call.cpu, call.order) # {} THEN "search" ELSE "recover"
\* A refill that ran dry makes do with what it has.
AfterOutOfMemory == IF Cached(call.cpu, call.order) # {} THEN "take" ELSE "recover"

Large(k) == {j \in Order : k <= j /\ free[j] # {}}

\* alloc_from_global: the smallest block that is large enough
Search ==
    /\ call.pc = "search"
    /\ IF Large(call.order) = {}
       THEN call' = [call EXCEPT !.pc = AfterOutOfMemory] /\ UNCHANGED <<free, hand>>
       ELSE LET k == Least(Large(call.order)) IN
            IF unused < k - call.order
            THEN call' = Idle /\ UNCHANGED <<free, hand>>   \* MetadataExhausted
            ELSE /\ hand' = [start |-> Least(free[k]), order |-> k]
                 /\ free' = [free EXCEPT ![k] = @ \ {Least(free[k])}]
                 /\ call' = [call EXCEPT !.pc = "split"]
    /\ UNCHANGED <<unseeded, cache, allocations, unused, page_cache>>

\* Mutant of UpperHalf: the block after this one.
NextBlock == hand.start + block_size(hand.order)
UpperHalf == hand.start + block_size(hand.order - 1)

\* The upper half goes back.
Split ==
    /\ call.pc = "split" /\ hand.order > call.order
    /\ free' = [free EXCEPT ![hand.order - 1] = @ \cup {UpperHalf}]
    /\ unused' = unused - 1
    /\ hand' = [hand EXCEPT !.order = @ - 1]
    /\ UNCHANGED <<unseeded, cache, allocations, call, page_cache>>

\* A block of the right size goes into the cache, or to the caller.
Place ==
    /\ call.pc = "split" /\ hand.order = call.order
    /\ hand' = None
    /\ IF call.order <= CacheMaxOrder
       THEN /\ cache' = [cache EXCEPT ![call.cpu][call.order] = @ \cup {hand.start}]
            /\ call' = [call EXCEPT !.pc = IF call.left = 1 THEN "take" ELSE "search",
                                    !.left = @ - 1]
            /\ UNCHANGED allocations
       ELSE /\ MarkAllocated(hand.start, call.order)
            /\ call' = Idle
            /\ UNCHANGED cache
    /\ UNCHANGED <<unseeded, free, unused, page_cache>>

Take == call.pc = "take" /\ TakeCached(call.cpu, call.order)

\* try_recover_from_oom: recovery is under way elsewhere, or the page cache is
\* locked or empty, and the second attempt fails as the first; or a page of the
\* page cache is released, for which the lock is taken that this call holds.
Recover ==
    /\ call.pc = "recover"
    /\ \/ call' = Idle
       \/ page_cache # {} /\ call' = [call EXCEPT !.pc = "stuck"]
    /\ UNCHANGED <<unseeded, free, cache, allocations, unused, hand, page_cache>>

-----------------------------------------------------------------------------
(* Reference counts, and freeing *)

Retain(s) ==
    /\ Ready /\ allocations[s].refs < MaxRefs
    /\ allocations' = [allocations EXCEPT ![s].refs = @ + 1]
    /\ UNCHANGED <<unseeded, free, cache, unused, call, hand, page_cache>>

\* The page cache fills a page of its own.
CachePage(s) ==
    /\ Ready /\ allocations[s].order = 0 /\ Cardinality(page_cache) < MaxCached
    /\ page_cache' = page_cache \cup {s}
    /\ UNCHANGED <<unseeded, free, cache, allocations, unused, call, hand>>

\* Mutant of LastReference: an owner too many is forgotten.
LastReferences(s) == allocations[s].refs <= 2
LastReference(s) == allocations[s].refs = 1

\* release, free_frame_on_cpu: the last reference sends a small block into the
\* CPU's cache and a large one back to the global lists.
Release(c, s) ==
    LET k == allocations[s].order IN
    /\ Ready
    /\ \E kept \in {page_cache, page_cache \ {s}} :
          (LastReference(s) => s \notin kept) /\ page_cache' = kept
    /\ IF ~LastReference(s)
       THEN /\ allocations' = [allocations EXCEPT ![s].refs = @ - 1]
            /\ UNCHANGED <<cache, call, hand>>
       ELSE /\ allocations' = [t \in DOMAIN allocations \ {s} |-> allocations[t]]
            /\ IF k <= CacheMaxOrder
               THEN /\ cache' = [cache EXCEPT ![c][k] = @ \cup {s}]
                    /\ call' = IF Cardinality(cache[c][k]) + 1 > high_watermark(k)
                               THEN [pc |-> "drain", cpu |-> c, order |-> k, left |-> 0] ELSE Idle
                    /\ UNCHANGED hand
               ELSE /\ hand' = [start |-> s, order |-> k]
                    /\ call' = [pc |-> "merge", cpu |-> c, order |-> k, left |-> 0]
                    /\ UNCHANGED cache
    /\ UNCHANGED <<unseeded, free, unused>>

\* drain_per_cpu_cache, down to a batch
Drain ==
    /\ call.pc = "drain"
    /\ IF Cardinality(cache[call.cpu][call.order]) > refill_batch(call.order)
       THEN \E s \in cache[call.cpu][call.order] :
               /\ cache' = [cache EXCEPT ![call.cpu][call.order] = @ \ {s}]
               /\ hand' = [start |-> s, order |-> call.order]
               /\ call' = [call EXCEPT !.pc = "merge"]
       ELSE call' = Idle /\ UNCHANGED <<cache, hand>>
    /\ UNCHANGED <<unseeded, free, allocations, unused, page_cache>>

\* block ^ block_size(order)
Buddy(s, k) == IF (s \div block_size(k)) % 2 = 0 THEN s + block_size(k) ELSE s - block_size(k)

Mergeable == hand.order < MaxOrder /\ Buddy(hand.start, hand.order) \in free[hand.order]

\* free_global_block: while the buddy is free, they are one block again ...
Merge ==
    LET buddy == Buddy(hand.start, hand.order) IN
    /\ call.pc = "merge" /\ Mergeable
    /\ free' = [free EXCEPT ![hand.order] = @ \ {buddy}]
    /\ unused' = unused + 1
    /\ hand' = [start |-> IF buddy < hand.start THEN buddy ELSE hand.start, order |-> hand.order + 1]
    /\ UNCHANGED <<unseeded, cache, allocations, call, page_cache>>

\* ... and it goes onto the list of its order.
Insert ==
    /\ call.pc = "merge" /\ ~Mergeable
    /\ free' = [free EXCEPT ![hand.order] = @ \cup {hand.start}]
    /\ hand' = None
    /\ call' = IF call.order <= CacheMaxOrder THEN [call EXCEPT !.pc = "drain"] ELSE Idle
    /\ UNCHANGED <<unseeded, cache, allocations, unused, page_cache>>

-----------------------------------------------------------------------------
Step == Seed \/ Search \/ Split \/ Place \/ Take \/ Recover \/ Drain \/ Merge \/ Insert

Next ==
    \/ Step
    \/ \E c \in Cpu, count \in 1..block_size(MaxOrder) : Alloc(c, count)
    \/ \E s \in DOMAIN allocations : Retain(s) \/ CachePage(s) \/ \E c \in Cpu : Release(c, s)

Spec == Init /\ [][Next]_vars

\* A call that has the lock goes on.
FairSpec == Spec /\ WF_vars(Step)

-----------------------------------------------------------------------------
(* Properties *)

Allocation == [order : Order, refs : 1..MaxRefs]

\* Typing; the page cache holds allocated frames only.
TypeOK ==
    /\ unseeded \subseteq Frame
    /\ free \in [Order -> SUBSET Frame]
    /\ cache \in [Cpu -> [0..CacheMaxOrder -> SUBSET Frame]]
    /\ DOMAIN allocations \subseteq Frame
    /\ allocations \in [DOMAIN allocations -> Allocation]
    /\ unused \in Nat
    /\ call \in [pc : PC, cpu : Cpu \cup {None}, order : Order, left : Nat]
    /\ hand \in [start : Frame, order : Order] \cup {None}
    /\ page_cache \subseteq DOMAIN allocations

\* Every block, with the list it is on
List == {"free", "allocated", "hand"} \cup Cpu
Holds(p, s, k) ==
    \/ p = "free" /\ s \in free[k]
    \/ p = "allocated" /\ s \in DOMAIN allocations /\ allocations[s].order = k
    \/ p = "hand" /\ hand = [start |-> s, order |-> k]
    \/ p \in Cpu /\ s \in Cached(p, k)
Blocks == {b \in List \X Frame \X Order : Holds(b[1], b[2], b[3])}
Frames(b) == Extent(b[2], b[3])

\* No frame is in two blocks: not on two lists, not free and allocated, not
\* given to two owners.
Disjoint == \A a, b \in Blocks : a # b => Frames(a) \cap Frames(b) = {}

\* No frame is lost: the blocks make up the usable memory, through every split,
\* merge, refill, drain and failure half way.
Covers == UNION {Frames(b) : b \in Blocks} = Frame \ unseeded

\* validate_invariants: aligned blocks that share no frame and lose none, and
\* a node for every block and no node leaked.
ValidateInvariants ==
    /\ TypeOK /\ Disjoint /\ Covers
    /\ \A b \in Blocks : b[2] % block_size(b[3]) = 0
    /\ unused + Cardinality(Blocks) = MaxNodes

\* Free memory is not stranded: two free buddies are one block (free_global_block),
\* and no CPU keeps more than the high watermark to itself (drain_per_cpu_cache).
FreeMemoryUsable ==
    /\ \A k \in 0..(MaxOrder - 1) : \A s \in free[k] : Buddy(s, k) \notin free[k]
    /\ call = Idle => \A c \in Cpu, k \in 0..CacheMaxOrder :
                        Cardinality(cache[c][k]) <= high_watermark(k)

\* All of memory is accounted for and of use (buddy.rs).
MemoryExact == ValidateInvariants /\ FreeMemoryUsable

\* The runs of frames handed out, with their owners counted
owned == [s \in DOMAIN allocations |->
            [count |-> block_size(allocations[s].order), refs |-> allocations[s].refs]]
Store == INSTANCE FrameStore WITH Frame <- Frame, owned <- owned
\* The allocator is a frame store: whatever its lists and caches do, callers see
\* frames nobody else owns, counted references, and nothing else.
ImplementsFrameStore == Store!Spec

\* A call ends, with frames or an error - unless recovery from a shortage of
\* memory has pages of the page cache to release (mm/mod.rs, try_recover_from_oom).
CallReturns == call.pc # "idle" ~> call.pc \in {"idle", "stuck"}
=============================================================================
