--------------------------- MODULE MCAddressSpace ---------------------------
(* A small instance of AddressSpace: a page of heap, two pages for mmap, and an *)
(* executable of one page in the upper of them. *)
EXTENDS AddressSpace

CONSTANTS f1, one

MCImage == <<Zero, one>>
MCSegments == <<[Vma(2, 3, TRUE, "ElfSegmentImage") EXCEPT !.base = 2, !.offset = 1, !.len = 1]>>
MCShmPages == <<f1>>
Symmetry == Permutations(Space)
=============================================================================
