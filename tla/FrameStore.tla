----------------------------- MODULE FrameStore -----------------------------
(***************************************************************************)
(* What the FrameAllocator trait promises (aether-frame/src/mm/frame.rs):  *)
(* alloc hands out a run of frames that nobody owns, retain and release    *)
(* count the owners, and the last release gives the run back.              *)
(***************************************************************************)
EXTENDS Integers

CONSTANTS Frame  \* the numbers of the usable frames

VARIABLE owned   \* first frame -> [count, refs] of the runs handed out

Run(s, n) == s..(s + n - 1)

Init == owned = [s \in {} |-> s]

Alloc(first, last) ==
    /\ first <= last /\ first..last \subseteq Frame
    /\ \A s \in DOMAIN owned : Run(s, owned[s].count) \cap (first..last) = {}
    /\ owned' = [s \in DOMAIN owned \cup {first} |->
                    IF s = first THEN [count |-> last - first + 1, refs |-> 1] ELSE owned[s]]

Retain(s) == owned' = [owned EXCEPT ![s].refs = @ + 1]

Release(s) ==
    IF owned[s].refs > 1 THEN owned' = [owned EXCEPT ![s].refs = @ - 1]
    ELSE owned' = [t \in DOMAIN owned \ {s} |-> owned[t]]

Next ==
    \/ \E first, last \in Frame : Alloc(first, last)
    \/ \E s \in DOMAIN owned : Retain(s) \/ Release(s)

Spec == Init /\ [][Next]_owned
=============================================================================
