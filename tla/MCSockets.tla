----------------------------- MODULE MCSockets -----------------------------
(* The TLC instance of UnixSocket, Uevents, Pty and Epoll.  They share no   *)
(* state: an initial state picks the subject, and only its actions are      *)
(* taken, so the run is the union of four separate ones.                    *)
EXTENDS UnixSocket, Uevents, Pty, Epoll, TLC

CONSTANTS t1, t2

VARIABLE subject

allVars == <<subject, unixVars, ueVars, ptyVars, vars>>

MCBudget(kind, opens, items, shuts) ==
    [kind |-> kind, opens |-> opens, items |-> items, shuts |-> shuts]
MCSockBudgets == {MCBudget("stream", 1, 2, 1), MCBudget("stream", 3, 0, 0),
                  MCBudget("seqpacket", 1, 2, 0), MCBudget("dgram", 1, 1, 0)}

MCTyped == {<<"char">>, <<"char", "newline">>, <<"erase">>, <<"eof">>}

\* The threads play the same parts everywhere.
MCSymmetry == Permutations({t1, t2})

\* A component that is not the subject has one initial state.
MCInit ==
    /\ subject \in {"unix", "uevents", "pty", "epoll"}
    /\ UnixInit /\ UeInit /\ PtyInit /\ Init
    /\ subject # "unix" => sockKind = "dgram"

MCNext ==
    /\ UNCHANGED subject
    /\ \/ subject = "unix" /\ UnixNext /\ UNCHANGED <<ueVars, ptyVars, vars>>
       \/ subject = "uevents" /\ UeNext /\ UNCHANGED <<unixVars, ptyVars, vars>>
       \/ subject = "pty" /\ PtyNext /\ UNCHANGED <<unixVars, ueVars, vars>>
       \/ subject = "epoll" /\ Next /\ UNCHANGED <<unixVars, ueVars, ptyVars>>

MCSpec == MCInit /\ [][MCNext]_allVars
=============================================================================
