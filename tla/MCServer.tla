------------------------------ MODULE MCServer ------------------------------
(***************************************************************************)
(* One server whose runners have a pid file each.                          *)
(***************************************************************************)
EXTENDS Server, TLC

CONSTANTS worker

MCHosts == {Server}
MCPathOf == [r \in Runners |-> r]
MCPaths == Runners \cup {Web}
MCHostOf == [r \in Runners |-> Server]
MCMode == [r \in Runners |-> "attached"]
MCRestart == {Php} \cap Runners
MCHooked == {Docker} \cap Runners
Symmetry == Permutations(Pids)

OnlyPhp == [runners |-> {Php}, left |-> {}, stops |-> FALSE, edits |-> FALSE]
EditedPhp == [OnlyPhp EXCEPT !.edits = TRUE]
StoppedPhp == [OnlyPhp EXCEPT !.stops = TRUE]
PhpAndWorker == [OnlyPhp EXCEPT !.runners = {Php, worker}]
DockerAndWorker == [OnlyPhp EXCEPT !.runners = {Docker, worker}]
OnlyWorker == [OnlyPhp EXCEPT !.runners = {worker}]
StoppedWorker == [OnlyWorker EXCEPT !.stops = TRUE]
Recovery == [StoppedWorker EXCEPT !.left = {Web, worker}]

SafetyScenarios == {PhpAndWorker, EditedPhp, DockerAndWorker, Recovery}
LiveScenarios == {EditedPhp, StoppedPhp}
PhpScenarios == {OnlyPhp}
StopScenarios == {StoppedWorker}
=============================================================================
