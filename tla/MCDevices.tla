----------------------------- MODULE MCDevices -----------------------------
(* The TLC instance of ChildWait, DrmDevice, VtScreen and Ps2Input.  But    *)
(* for the last two, which are one, they share no state: an initial state   *)
(* picks the subject, and only its actions are taken, so the run is the     *)
(* union of separate ones.                                                  *)
EXTENDS ChildWait, DrmDevice, Ps2Input, TLC

CONSTANTS p1, p2, c1, c2

VARIABLE subject

allVars == <<subject, vars, drmVars, vtVars, ps2Vars>>

MCCommits == {<<<<"FB_ID", 1>>>>, <<<<"MODE_ID", 1>>, <<"CRTC_WH", 2>>>>,
              <<<<"ACTIVE", 0>>, <<"CRTC_ID", 0>>, <<"CONNECTOR_CRTC_ID", 0>>>>,
              <<<<"MODE_ID", 0>>, <<"FB_ID", 0>>>>}
MCDrmCalls(o, c, e, k) == [objects |-> o, commits |-> c, events |-> e, clock |-> k]
MCDrmBudgets == {MCDrmCalls(4, 2, 0, 0), MCDrmCalls(2, 1, 1, 3), MCDrmCalls(0, 0, 3, 5)}

\* p1 and p2 are processes, clients of the display and threads at the terminals;
\* c1 and c2 are CPUs.
MCSymmetry == Permutations({p1, p2}) \cup Permutations({c1, c2})

\* A component that is not the subject has one initial state.
MCInit ==
    /\ subject \in {"children", "display", "screens", "input"}
    /\ Init /\ DrmInit /\ VtInit /\ Ps2Init
    /\ subject # "children" => \A p \in Pid : cpu[p] = cpu[Root]
    /\ subject # "display" => drmBudget.clock = 0 /\ vblank.period = 0
    /\ vtCalls = IF subject = "input" THEN MaxVtCalls - 1 ELSE 0

MCNext ==
    /\ UNCHANGED subject
    /\ \/ subject = "children" /\ Next /\ UNCHANGED <<drmVars, vtVars, ps2Vars>>
       \/ subject = "display" /\ DrmNext /\ UNCHANGED <<vars, vtVars, ps2Vars>>
       \/ subject = "screens" /\ VtNext /\ UNCHANGED <<vars, drmVars, ps2Vars>>
       \/ subject = "input" /\ Ps2Next /\ UNCHANGED <<vars, drmVars>>

MCSpec == MCInit /\ [][MCNext]_allVars
=============================================================================
