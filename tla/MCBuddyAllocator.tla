-------------------------- MODULE MCBuddyAllocator --------------------------
(* TLC instance of BuddyAllocator: a memory map with reserved memory, a hole, *)
(* regions out of order and a region that begins within a page.               *)
EXTENDS BuddyAllocator

\* In half pages: frames 4..7, joined from two regions, and 0..2
Regions == <<[start |-> 10, len |-> 6, usable |-> TRUE],
             [start |-> 7, len |-> 3, usable |-> TRUE],
             [start |-> 6, len |-> 1, usable |-> FALSE],
             [start |-> 0, len |-> 6, usable |-> TRUE]>>

=============================================================================
