----------------------------- MODULE MCSignals -----------------------------
(* The TLC instance of Signals, Timers, JobControl and Futex.  The four     *)
(* share no state: an initial state picks the subject, and only its actions *)
(* are taken, so the run is the union of four separate ones.                *)
EXTENDS Signals, Timers, JobControl, Futex

VARIABLE subject

allVars == <<subject, vars, sigVars, timerVars, jcVars>>

MCAction(h, m, onstack, nodefer) ==
    [handler |-> h, mask |-> m, onstack |-> onstack, nodefer |-> nodefer]
MCActions == {MCAction("ign", {}, FALSE, FALSE), MCAction("handler", {}, TRUE, TRUE),
              MCAction("handler", {11}, FALSE, FALSE)}
MCMasks == {{11}, {17}}
MCSigBudgets == {[sends |-> 2, calls |-> 2], [sends |-> 1, calls |-> 3]}
MCJcBudgets == {[calls |-> 5, signals |-> 0], [calls |-> 4, signals |-> 1],
                [calls |-> 3, signals |-> 2]}

\* A component that is not the subject has one initial state.
MCInit ==
    /\ subject \in {"signals", "timers", "jobs", "futex"}
    /\ Init /\ SigInit /\ TimersInit /\ JcInit
    /\ subject # "signals" => sigBudget.sends = 1
    /\ subject # "jobs" => jcBudget.calls = 3

MCNext ==
    /\ UNCHANGED subject
    /\ \/ subject = "futex" /\ Next /\ UNCHANGED <<sigVars, timerVars, jcVars>>
       \/ subject = "signals" /\ SigNext /\ UNCHANGED <<vars, timerVars, jcVars>>
       \/ subject = "timers" /\ TimersNext /\ UNCHANGED <<vars, sigVars, jcVars>>
       \/ subject = "jobs" /\ JcNext /\ UNCHANGED <<vars, sigVars, timerVars>>

MCSpec == MCInit /\ [][MCNext]_allVars
=============================================================================
