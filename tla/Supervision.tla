---------------------------- MODULE Supervision ----------------------------
(***************************************************************************)
(* What a runner promises to the rest of the program, whatever files,      *)
(* signals, timers and channels it uses: it runs one instance of its       *)
(* command at a time, no two runners confuse their processes, and once its *)
(* run is over it never starts the command again.                          *)
(***************************************************************************)
CONSTANTS Runners, Pids

VARIABLES live,  \* Runners -> the processes that the runner must reap
          over   \* the runners that are done

Init ==
    /\ live = [r \in Runners |-> {}]
    /\ over = {}

Start(r, p) ==
    /\ r \notin over
    /\ live[r] = {}
    /\ \A q \in Runners : p \notin live[q]
    /\ live' = [live EXCEPT ![r] = {p}]
    /\ UNCHANGED over

Reaped(r) ==
    /\ live' = [live EXCEPT ![r] = {}]
    /\ UNCHANGED over

\* Runs end by themselves, leaving at most a process that was told to stop
\* or could not be recorded ...
Finish(r) ==
    /\ over' = over \cup {r}
    /\ UNCHANGED live

\* ... or with the process that executes them.
Abandon(R) ==
    /\ over' = over \cup R
    /\ live' = [r \in Runners |-> IF r \in R THEN {} ELSE live[r]]

Next ==
    \/ \E r \in Runners, p \in Pids : Start(r, p)
    \/ \E r \in Runners : Reaped(r) \/ Finish(r)
    \/ \E R \in SUBSET Runners : Abandon(R)

Spec == Init /\ [][Next]_<<live, over>>
=============================================================================
