---------------------------- MODULE ServerProofs ----------------------------
(***************************************************************************)
(* Proofs about Server for any number of runners, processes and pid files  *)
(* and any set of scenarios.  ServerInv is inductive relative to           *)
(* ServerTypeOK; the safety properties follow.  What the runners guarantee *)
(* comes from the step lemmas of RunnerProofs, for the steps of the server *)
(* that are steps of Runner.                                               *)
(***************************************************************************)
EXTENDS Server, RunnerProofs

\* Leaves go to Zenon; the ones that need arithmetic or the theory of functions
\* name SMT.
USE Zenon

\* The scenario only names runners.
LEMMA Configured ==
    ASSUME conf \in Scenarios
    PROVE  conf.runners \subseteq Runners
BY ServerAssumption

\* Every runner is executed by server:start.
LEMMA OneHost == Hosts = {Server} /\ \A r \in Runners : HostOf[r] = Server
BY RunnerAssumption, ServerAssumption

\* What the goroutines of an attached runner do, as the server sees it: they
\* touch their own runner and its pid file, write the pid of a command there,
\* and start a command only from inside the loop.
LEMMA RunEffects ==
    ASSUME TypeOK, ControlInv, NEW r \in Runners, mode[r] = "attached",
           Run(r) \/ CmdWait(r) \/ WatchEvent(r)
    PROVE  /\ up' = up /\ mode' = mode
           /\ pc[r] # "idle" /\ pc'[r] \notin {"idle", "new"}
           /\ \A q \in Runners \ {r} :
                 pc'[q] = pc[q] /\ child'[q] = child[q] /\ result'[q] = result[q] /\ hook'[q] = hook[q]
           /\ \A f \in Paths \ {PathOf[r]} : pidf'[f] = pidf[f]
           /\ pidf'[PathOf[r]] \in Pids \cup {NoPid, pidf[PathOf[r]]}
<1> USE DEF TypeOK, PidTypeOK, PCs, Ended, Modes, pidVars, Goto, Return, RemovePidFile, WritePidFile,
            ControlInv, Listening
<1>1. CASE NewRunner(r)
  BY <1>1, SMT DEF NewRunner
<1>2. CASE EnterRun(r)
  BY <1>2, SMT DEF EnterRun
<1>3. CASE StartCmd(r)
  BY <1>3, SMTT(30) DEF StartCmd, AfterStart
<1>4. CASE FirstBootExit(r)
  BY <1>4, SMT DEF FirstBootExit
<1>5. CASE FirstBootTimer(r)
  BY <1>5, ZenonT(60) DEF FirstBootTimer
<1>6. CASE WriteCheck(r)
  BY <1>6, SMT DEF WriteCheck
<1>7. CASE Write(r)
  BY <1>7, SMT DEF Write, RecordedPid
<1>8. CASE OnSignal(r)
  BY <1>8, ZenonT(60) DEF OnSignal
<1>9. CASE Drain(r)
  BY <1>9 DEF Drain
<1>10. CASE OnExit(r)
  BY <1>10, SMT DEF OnExit
<1>11. CASE BackoffSignal(r)
  BY <1>11, ZenonT(60) DEF BackoffSignal
<1>12. CASE BackoffTimer(r)
  BY <1>12 DEF BackoffTimer
<1>13. CASE CmdWait(r)
  BY <1>13 DEF CmdWait
<1>14. CASE WatchEvent(r)
  BY <1>14, ZenonT(60) DEF WatchEvent, OnRestart, BackoffRestart
<1> QED
  BY <1>1, <1>2, <1>3, <1>4, <1>5, <1>6, <1>7, <1>8, <1>9, <1>10, <1>11, <1>12, <1>13, <1>14, ZenonT(60) DEF Run

\* A runner has a command, or is in its loop, only once Run was entered; a run
\* that is over has a result and keeps it.
LEMMA RunProgress ==
    ASSUME TypeOK, ControlInv, NEW r \in Runners,
           Run(r) \/ CmdWait(r) \/ WatchEvent(r)
    PROVE  /\ child'[r] # NoPid => child[r] # NoPid \/ Listening(r)
           /\ Listening(r)' => Listening(r) \/ EnterRun(r)
           /\ pc'[r] = "done" => pc[r] = "done" \/ result'[r] # "none"
           /\ result[r] # "none" => result'[r] # "none"
           /\ ~OnExit(r) => hook'[r] = hook[r]
<1> USE DEF TypeOK, PidTypeOK, PCs, Ended, pidVars, Goto, Return, ControlInv, Listening
<1>1. CASE NewRunner(r)
  BY <1>1, ZenonT(60) DEF NewRunner
<1>2. CASE EnterRun(r)
  BY <1>2, ZenonT(60) DEF EnterRun
<1>3. CASE StartCmd(r)
  BY <1>3, ZenonT(60) DEF StartCmd, AfterStart
<1>4. CASE FirstBootExit(r)
  BY <1>4, SMT DEF FirstBootExit
<1>5. CASE FirstBootTimer(r)
  BY <1>5 DEF FirstBootTimer
<1>6. CASE WriteCheck(r)
  BY <1>6, ZenonT(60) DEF WriteCheck
<1>7. CASE Write(r)
  BY <1>7, ZenonT(60) DEF Write
<1>8. CASE OnSignal(r)
  BY <1>8 DEF OnSignal
<1>9. CASE Drain(r)
  BY <1>9 DEF Drain
<1>10. CASE OnExit(r)
  BY <1>10, ZenonT(60) DEF OnExit
<1>11. CASE BackoffSignal(r)
  BY <1>11 DEF BackoffSignal
<1>12. CASE BackoffTimer(r)
  BY <1>12 DEF BackoffTimer
<1>13. CASE CmdWait(r)
  BY <1>13 DEF CmdWait
<1>14. CASE WatchEvent(r)
  BY <1>14 DEF WatchEvent, OnRestart, BackoffRestart
<1> QED
  BY <1>1, <1>2, <1>3, <1>4, <1>5, <1>6, <1>7, <1>8, <1>9, <1>10, <1>11, <1>12, <1>13, <1>14 DEF Run

\* A process that runs and was told to end is forgotten only by its end, and
\* only StartCmd makes a process run, one of its runner.
LEMMA RunProcesses ==
    ASSUME TypeOK, NEW r \in Runners, Run(r), NEW p \in Pids, proc'[p] = "run"
    PROVE  \/ proc[p] = "run" /\ parent'[p] = parent[p] /\ (p \in term => p \in term')
           \/ StartCmd(r) /\ proc[p] = "free" /\ parent'[p] = r
<1> USE DEF TypeOK, PidTypeOK, pidVars, Zombie
<1>1. CASE StartCmd(r)
  BY <1>1, ZenonT(60) DEF StartCmd, Spawn
<1>2. CASE OnSignal(r)
  BY <1>2 DEF OnSignal, Terminate
<1>3. CASE NewRunner(r) \/ EnterRun(r) \/ FirstBootExit(r) \/ FirstBootTimer(r) \/ WriteCheck(r) \/ Write(r)
  BY <1>3 DEF NewRunner, EnterRun, FirstBootExit, FirstBootTimer, WriteCheck, Write
<1>4. CASE Drain(r) \/ OnExit(r) \/ BackoffSignal(r) \/ BackoffTimer(r)
  BY <1>4 DEF Drain, OnExit, BackoffSignal, BackoffTimer
<1> QED
  BY <1>1, <1>2, <1>3, <1>4 DEF Run

\* The other goroutines of a runner start nothing.
LEMMA WaitProcesses ==
    ASSUME TypeOK, NEW r \in Runners, CmdWait(r) \/ WatchEvent(r), NEW p \in Pids, proc'[p] = "run"
    PROVE  proc[p] = "run" /\ parent'[p] = parent[p] /\ (p \in term => p \in term')
<1> USE DEF TypeOK, PidTypeOK, pidVars, Zombie
<1>1. CASE CmdWait(r)
  <2>1. /\ term' = term \ {child[r]} /\ proc[child[r]] \in Zombie
        /\ proc' = [proc EXCEPT ![child[r]] = "free"]
        /\ parent' = [parent EXCEPT ![child[r]] = Nobody]
    BY <1>1 DEF CmdWait, Reap
  <2> QED
    BY <2>1
<1>2. CASE WatchEvent(r)
  BY <1>2 DEF WatchEvent, OnRestart, BackoffRestart, Terminate
<1> QED
  BY <1>1, <1>2

\* A step that only removes, sweeps or writes pid files and tells processes to end.
FilesOnly ==
    /\ UNCHANGED <<proc, parent, up, runnerVars>>
    /\ term \subseteq term' /\ term' \subseteq Pids
    /\ pidf' \in [Paths -> Pids \cup Hosts \cup {NoPid}]

\* The steps of server:start and of server:stop, as the runners see them: a
\* signal and the end of the server are steps of Runner.
LEMMA Kinds ==
    ASSUME ServerTypeOK, ServerNext
    PROVE  \/ [Next]_vars \/ FilesOnly \/ StartPhp
           \/ \E r \in Runners : EnvError(r)
           \/ \E f \in Paths : WaitForExit(f)
<1> USE DEF ServerTypeOK, TypeOK, PidTypeOK, pidVars, runnerVars, vars
<1>1. CASE UNCHANGED vars
  BY <1>1
<1>2. ASSUME Deliver, Server \in up PROVE [Next]_vars
  <2>1. CASE HostExit(Server)
    BY <2>1, OneHost DEF Next
  <2>2. CASE ~HostExit(Server)
    <3>1. sig' = [r \in Runners |-> sig[r] \/ (HostOf[r] = Server /\ Listening(r))]
      <4>1. sig' = [r \in Runners |-> sig[r] \/ Listening(r)]
        BY <1>2, <2>2 DEF Deliver
      <4> QED
        BY OneHost, <4>1
    <3>2. SignalHost(Server)
      BY <1>2, <2>2, <3>1 DEF Deliver, SignalHost
    <3> QED
      BY <3>2, OneHost DEF Next
  <2> QED
    BY <2>1, <2>2
<1>3. CASE CleanupWebServerFiles
  <2>1. NoPids \in [Paths -> Pids \cup Hosts \cup {NoPid}]
    BY DEF NoPids
  <2>2. FilesOnly
    BY <1>3, <2>1 DEF CleanupWebServerFiles, Terminate, FilesOnly
  <2> QED
    BY <2>2
<1>4. CASE Record
  BY <1>4, OneHost DEF Record, WritePidFile, FilesOnly
<1>5. CASE WaitForWorkers
  BY <1>5 DEF WaitForWorkers, Swept, AllWorkers, FilesOnly
<1>6. CASE Waited \/ WaitTimeout
  BY <1>6, ZenonT(60) DEF Waited, WaitTimeout, RemovePidFile, FilesOnly
<1>7. CASE StopList
  BY <1>7 DEF StopList, Swept, AllWorkers, FilesOnly
<1>8. ASSUME NEW f \in Paths, StopWaitForExit(f) PROVE FilesOnly
  BY <1>8 DEF StopWaitForExit, RemovePidFile, FilesOnly
<1>9. CASE StopNotify
  <2>1. CASE spids[Web] = Server /\ Server \in up
    BY <1>2, <1>9, <2>1 DEF StopNotify
  <2>2. CASE ~(spids[Web] = Server /\ Server \in up)
    BY <1>9, <2>2 DEF StopNotify, Terminate, FilesOnly
  <2> QED
    BY <2>1, <2>2
<1>10. CASE StopKill
  BY <1>10 DEF StopKill, Terminate, FilesOnly
<1>11. CASE Interrupt
  BY <1>2, <1>11 DEF Interrupt
<1>12. CASE ServerExit
  BY <1>12, OneHost DEF ServerExit, Next
<1>13. ASSUME NEW w \in Workers, StartWorker(w) PROVE [Next]_vars
  BY <1>13, Configured DEF StartWorker, Workers, Next, Step
<1>14. ASSUME NEW r \in Runners, RunStep(r) \/ RunnerWaits(r) \/ RunnerWatches(r) PROVE [Next]_vars
  BY <1>14 DEF RunStep, RunnerWaits, RunnerWatches, Next, Step, Run
<1>15. ASSUME NEW r \in Runners, FileChange(r) PROVE [Next]_vars
  BY <1>15 DEF Next
<1>16. ASSUME NEW p \in Pids, (Exit(p) \/ InitReaps(p)) /\ UNCHANGED runnerVars PROVE [Next]_vars
  BY <1>16 DEF Next, Process
<1>17. AlreadyRunning \/ Setup \/ PhpFailed \/ PhpReady \/ StartHttp \/ Up \/ OnError \/ OnShutdown
       \/ Stopped \/ PhpStopped \/ PhpSends \/ HttpError \/ StopDone => UNCHANGED vars
  BY DEF AlreadyRunning, Setup, PhpFailed, PhpReady, StartHttp, Up, OnError, OnShutdown,
         Stopped, PhpStopped, PhpSends, HttpError, StopDone
<1> QED
  BY <1>1, <1>3, <1>4, <1>5, <1>6, <1>7, <1>8, <1>9, <1>10, <1>11, <1>12, <1>13, <1>14,
     <1>15, <1>16, <1>17 DEF ServerNext, Main, Stop, serverVars

\* The commands and results of the runners are as in Runner, although the
\* server starts PHP, gives up on workers and may reap their commands itself.
LEMMA RunnersStep ==
    ASSUME ServerTypeOK, WaitInv, ControlInv, CleanReturn, IdleInv, [ServerNext]_allVars
    PROVE  TypeOK' /\ WaitInv' /\ ControlInv' /\ CleanReturn'
<1>0. TypeOK
  BY DEF ServerTypeOK
<1>1. CASE [Next]_vars
  BY <1>0, <1>1, TypeStep, WaitStep, ControlStep, CleanStep
<1>2. CASE FilesOnly
  <2>1. TypeOK'
    BY <1>0, <1>2 DEF FilesOnly, TypeOK, PidTypeOK, runnerVars
  <2>2. WaitInv' /\ ControlInv'
    BY <1>2 DEF FilesOnly, WaitInv, ControlInv, runnerVars
  <2>3. CleanReturn'
    BY <1>2 DEF FilesOnly, CleanReturn, LiveChildren, runnerVars
  <2> QED
    BY <2>1, <2>2, <2>3
<1>3. CASE StartPhp
  <2>1. Php \in Runners => pc[Php] = "idle"
    BY <1>3 DEF StartPhp, IdleInv, BeforePhp
  <2>2. pc' = pc \/ pc' = [pc EXCEPT ![Php] = "run"]
    BY <1>3 DEF StartPhp, Goto
  <2>3. /\ UNCHANGED <<proc, parent, up, mode, boot, child, exit, sig, always, hook, event, stale, result>>
        /\ term \subseteq term' /\ term' \subseteq Pids
    BY <1>0, <1>3 DEF StartPhp, Terminate, TypeOK, PidTypeOK
  <2>4. pidf' \in [Paths -> Pids \cup Hosts \cup {NoPid}]
    BY <1>0, <1>3 DEF StartPhp, RemovePidFile, TypeOK, PidTypeOK
  <2>5. TypeOK'
    BY <1>0, <2>2, <2>3, <2>4 DEF TypeOK, PidTypeOK, PCs
  <2>6. WaitInv' /\ CleanReturn'
    BY <2>3 DEF WaitInv, CleanReturn, LiveChildren
  <2>7. ControlInv'
    BY <1>0, <2>1, <2>2, <2>3, ZenonT(60) DEF ControlInv, TypeOK
  <2> QED
    BY <2>5, <2>6, <2>7
<1>4. ASSUME NEW r \in Runners, EnvError(r) PROVE TypeOK' /\ WaitInv' /\ ControlInv' /\ CleanReturn'
  <2> USE DEF EnvError, Return, Goto, pidVars
  <2>1. TypeOK'
    BY <1>0, <1>4 DEF TypeOK, PidTypeOK, PCs, Ended
  <2>2. WaitInv'
    BY <1>4 DEF WaitInv
  <2>3. ControlInv'
    BY <1>0, <1>4 DEF ControlInv, TypeOK
  <2>4. CleanReturn'
    BY <1>0, <1>4 DEF CleanReturn, LiveChildren, TypeOK
  <2> QED
    BY <2>1, <2>2, <2>3, <2>4
<1>5. ASSUME NEW f \in Paths, WaitForExit(f) PROVE TypeOK' /\ WaitInv' /\ ControlInv' /\ CleanReturn'
  <2> DEFINE p == wpids[f]
  <2>1. p \in Pids
    BY <1>5 DEF WaitForExit, ServerTypeOK
  <2>2. pidf' = [pidf EXCEPT ![f] = NoPid] /\ UNCHANGED <<up, pc, mode, boot, child, sig, always, hook, event, stale, result>>
    BY <1>5 DEF WaitForExit, RemovePidFile
  <2>3. \/ UNCHANGED <<proc, parent, term, exit>>
        \/ /\ parent[p] \in Runners /\ proc[p] \in Zombie
           /\ exit' = [exit EXCEPT ![parent[p]] = "err"]
           /\ proc' = [proc EXCEPT ![p] = "free"]
           /\ parent' = [parent EXCEPT ![p] = Nobody]
           /\ term' = term \ {p}
    BY <1>5 DEF WaitForExit, Reap
  <2> HIDE DEF p
  <2>4. TypeOK'
    BY <1>0, <2>1, <2>2, <2>3, ZenonT(60) DEF TypeOK, PidTypeOK, Zombie
  <2>5. WaitInv'
    BY <1>0, <2>1, <2>2, <2>3, PidAssumption, SMTT(30) DEF WaitInv, TypeOK, PidTypeOK
  <2>6. ControlInv'
    BY <1>0, <2>1, <2>2, <2>3, SMTT(30) DEF ControlInv, WaitInv, TypeOK, PidTypeOK
  <2>7. CleanReturn'
    BY <1>0, <2>1, <2>2, <2>3, PidAssumption, SMT DEF CleanReturn, LiveChildren, TypeOK, PidTypeOK
  <2> QED
    BY <2>4, <2>5, <2>6, <2>7
<1>6. CASE UNCHANGED allVars
  BY <1>1, <1>6 DEF allVars
<1> QED
  BY <1>1, <1>2, <1>3, <1>4, <1>5, <1>6, Kinds

\* Only worker files whose process runs are listed, so no list of workers
\* names the server.
LEMMA WorkersListed ==
    ASSUME ServerTypeOK, NamesInv
    PROVE  AllWorkers \in [Paths -> Pids \cup {NoPid}]
BY OneHost DEF ServerTypeOK, TypeOK, PidTypeOK, NamesInv, AllWorkers

\* No step of the server or of server:stop leaves the declared ranges.
LEMMA ServerTypeStep ==
    ASSUME ServerTypeOK, NamesInv, TypeOK', [ServerNext]_allVars
    PROVE  ServerTypeOK'
<1> USE DEF ServerTypeOK, Leave, Enter, mainVars, stopVars
<1>1. CASE UNCHANGED serverVars
  BY <1>1, SMT DEF serverVars
<1>2. CASE AlreadyRunning \/ Setup
  BY <1>2 DEF AlreadyRunning, Setup
<1>3. CASE CleanupWebServerFiles
  BY <1>3, ZenonT(60) DEF CleanupWebServerFiles
<1>4. CASE StartPhp
  BY <1>4 DEF StartPhp
<1>5. CASE PhpFailed \/ PhpReady \/ StartHttp \/ HttpError
  BY <1>5 DEF PhpFailed, PhpReady, StartHttp, HttpError
<1>6. CASE Record
  BY <1>6, SMT DEF Record
<1>7. CASE Up \/ OnError \/ OnShutdown \/ Stopped
  BY <1>7 DEF Up, OnError, OnShutdown, Stopped
<1>8. CASE WaitForWorkers
  BY <1>8, WorkersListed, SMT DEF WaitForWorkers
<1>9. ASSUME NEW f \in Paths, WaitForExit(f) PROVE ServerTypeOK'
  BY <1>9, ZenonT(60) DEF WaitForExit
<1>10. CASE Waited \/ WaitTimeout
  BY <1>10 DEF Waited, WaitTimeout
<1>11. CASE PhpStopped \/ PhpSends
  BY <1>11 DEF PhpStopped, PhpSends
<1>12. CASE Interrupt
  BY <1>12 DEF Interrupt, Deliver
<1>13. CASE StopList
  <2>1. spids' \in [Paths -> Pids \cup Hosts \cup {NoPid}]
    BY <1>13, WorkersListed DEF StopList, TypeOK, PidTypeOK
  <2> QED
    BY <1>13, <2>1, SMT DEF StopList, Listed
<1>14. CASE StopNotify
  BY <1>14 DEF StopNotify, Deliver
<1>15. CASE StopKill \/ StopDone \/ \E f \in Paths : StopWaitForExit(f)
  BY <1>15, ZenonT(60) DEF StopKill, StopDone, StopWaitForExit
<1>16. ASSUME NEW r \in Runners, RunStep(r) \/ EnvError(r) PROVE ServerTypeOK'
  BY <1>16, <1>1, SMT DEF RunStep, EnvError
<1> QED
  BY <1>1, <1>2, <1>3, <1>4, <1>5, <1>6, <1>7, <1>8, <1>9, <1>10, <1>11, <1>12, <1>13, <1>14, <1>15, <1>16
  DEF ServerNext, Main, Stop, StartWorker, ServerExit, RunnerWaits, RunnerWatches, allVars, serverVars

\* server:start never goes back to an earlier phase and does not skip
\* cleanupWebServerFiles.
LEMMA Forward ==
    ASSUME [ServerNext]_allVars
    PROVE  /\ Booting' => Booting
           /\ BeforePhp' => BeforePhp
           /\ main = "exit" => main' = "exit"
           /\ Booting /\ ~Record => Booting' \/ main' = "exit"
           /\ main' = "cleanup" => main = "cleanup" \/ AlreadyRunning
           /\ main \in {"check", "cleanup"} /\ ~CleanupWebServerFiles => main' \in {"check", "cleanup", "exit"}
<1> USE DEF Booting, BeforePhp, Leave, Enter, mainVars
<1>1. CASE UNCHANGED main
  BY <1>1
<1>2. CASE AlreadyRunning \/ CleanupWebServerFiles \/ Setup \/ StartPhp \/ PhpFailed \/ PhpReady \/ StartHttp \/ Record
  BY <1>2 DEF AlreadyRunning, CleanupWebServerFiles, Setup, StartPhp, PhpFailed, PhpReady, StartHttp, Record
<1>3. CASE Up \/ OnError \/ OnShutdown \/ WaitForWorkers \/ Waited \/ WaitTimeout \/ Stopped
  BY <1>3 DEF Up, OnError, OnShutdown, WaitForWorkers, Waited, WaitTimeout, Stopped
<1>4. CASE Interrupt \/ StopNotify
  BY <1>4 DEF Interrupt, StopNotify, Deliver
<1>5. CASE StopList \/ StopKill \/ StopDone \/ \E f \in Paths : StopWaitForExit(f)
  BY <1>5 DEF StopList, StopKill, StopDone, StopWaitForExit
<1>6. CASE \/ PhpStopped \/ PhpSends \/ HttpError \/ \E f \in Paths : WaitForExit(f)
           \/ \E r \in Runners : RunStep(r) \/ EnvError(r)
  BY <1>6 DEF PhpStopped, PhpSends, HttpError, WaitForExit, RunStep, EnvError, serverVars
<1> QED
  BY <1>1, <1>2, <1>3, <1>4, <1>5, <1>6
  DEF ServerNext, Main, Stop, StartWorker, ServerExit, RunnerWaits, RunnerWatches, allVars, serverVars

\* The steps that change where a runner is, its hook or its mode.
LEMMA Moves ==
    ASSUME [ServerNext]_allVars
    PROVE  \/ UNCHANGED <<pc, hook, mode, child, result>>
           \/ StartPhp
           \/ \E w \in Workers : StartWorker(w)
           \/ \E r \in Runners : EnvError(r)
           \/ main' = "exit" /\ HostExit(Server)
           \/ \E r \in Runners : main # "exit" /\ RunStep(r) /\ Run(r) /\ UNCHANGED <<main, conf>>
           \/ \E r \in Runners : /\ main # "exit" /\ (CmdWait(r) \/ WatchEvent(r))
                                 /\ UNCHANGED serverVars
<1> USE DEF runnerVars, vars
<1>1. CASE UNCHANGED vars \/ UNCHANGED runnerVars
  BY <1>1
<1>2. AlreadyRunning \/ Setup \/ PhpFailed \/ PhpReady \/ StartHttp \/ Up \/ OnError \/ OnShutdown
      \/ Stopped \/ PhpStopped \/ PhpSends \/ HttpError \/ StopDone => UNCHANGED vars
  BY DEF AlreadyRunning, Setup, PhpFailed, PhpReady, StartHttp, Up, OnError, OnShutdown,
         Stopped, PhpStopped, PhpSends, HttpError, StopDone
<1>3. CleanupWebServerFiles \/ Record \/ WaitForWorkers \/ Waited \/ WaitTimeout \/ StopList \/ StopKill
      \/ (\E f \in Paths : StopWaitForExit(f)) => UNCHANGED runnerVars
  BY DEF CleanupWebServerFiles, Record, WaitForWorkers, Waited, WaitTimeout, StopList, StopKill, StopWaitForExit
<1>4. CASE Interrupt \/ StopNotify \/ ServerExit
  BY <1>4 DEF Interrupt, StopNotify, ServerExit, Deliver, Leave, serverVars, mainVars
<1>5. CASE \E f \in Paths : WaitForExit(f)
  BY <1>5 DEF WaitForExit
<1>6. ASSUME NEW r \in Runners, RunStep(r)
      PROVE  main # "exit" /\ Run(r) /\ UNCHANGED <<main, conf>>
  BY <1>6 DEF RunStep, Run, serverVars, mainVars
<1>7. ASSUME NEW r \in Runners, FileChange(r) PROVE UNCHANGED <<pc, hook, mode, child, result>>
  BY <1>7 DEF FileChange
<1> QED
  BY <1>1, <1>2, <1>3, <1>4, <1>5, <1>6, <1>7
  DEF ServerNext, Main, Stop, RunnerWaits, RunnerWatches, allVars

\* Runners start when the server gets to them.
LEMMA IdleStep ==
    ASSUME ServerTypeOK, ControlInv, IdleInv, [ServerNext]_allVars
    PROVE  IdleInv'
<1> (Booting' => Booting) /\ (BeforePhp' => BeforePhp)
  BY Forward
<1> USE DEF IdleInv
<1>0. TypeOK
  BY DEF ServerTypeOK
<1>1. CASE UNCHANGED <<pc, hook, mode, child, result>>
  BY <1>1
<1>2. CASE StartPhp
  BY <1>0, <1>2 DEF StartPhp, Goto, Leave, Enter, Booting, BeforePhp, TypeOK
<1>3. ASSUME NEW w \in Workers, StartWorker(w) PROVE IdleInv'
  BY <1>0, <1>3 DEF StartWorker, Check, Goto, Return, serverVars, mainVars, Booting, BeforePhp, TypeOK
<1>4. ASSUME NEW w \in Runners, EnvError(w) PROVE IdleInv'
  BY <1>0, <1>4 DEF EnvError, Workers, Goto, Return, Booting, BeforePhp, TypeOK
<1>5. CASE main' = "exit" /\ HostExit(Server)
  BY <1>0, <1>5 DEF HostExit, Booting, BeforePhp, TypeOK
<1>6. ASSUME NEW r \in Runners, UNCHANGED main, Run(r) \/ CmdWait(r) \/ WatchEvent(r) PROVE IdleInv'
  <2>1. hook'[r] = hook[r] \/ (hook[r] = "set" /\ hook'[r] = "fired")
    <3>1. CASE OnExit(r)
      BY <1>0, <3>1 DEF OnExit, HookRuns, TypeOK
    <3>2. CASE ~OnExit(r)
      BY <1>0, <1>6, <3>2, RunProgress
    <3> QED
      BY <3>1, <3>2
  <2>2. Booting' = Booting /\ BeforePhp' = BeforePhp
    BY <1>6 DEF Booting, BeforePhp
  <2>3. /\ mode' = mode /\ pc[r] # "idle" /\ pc'[r] # "idle"
        /\ \A q \in Runners \ {r} : pc'[q] = pc[q] /\ hook'[q] = hook[q]
    BY <1>0, <1>6, RunEffects, ZenonT(60)
  <2> QED
    BY <2>1, <2>2, <2>3
<1> QED
  BY <1>1, <1>2, <1>3, <1>4, <1>5, <1>6, Moves DEF serverVars, mainVars

\* The steps that change a pid file, and how far the lists of server:stop go.
LEMMA Files ==
    ASSUME [ServerNext]_allVars
    PROVE  \/ UNCHANGED <<pidf, spids>>
           \/ UNCHANGED spids /\ (CleanupWebServerFiles \/ StartPhp \/ Record \/ WaitForWorkers \/ Waited
                                  \/ WaitTimeout \/ StopKill)
           \/ UNCHANGED spids /\ \E f \in Paths : WaitForExit(f) \/ StopWaitForExit(f)
           \/ StopList
           \/ \E r \in Runners : RunStep(r) /\ Run(r) /\ UNCHANGED <<main, stopVars>>
<1> USE DEF runnerVars, vars, pidVars, stopVars, serverVars, mainVars
<1>1. CASE UNCHANGED vars /\ UNCHANGED spids
  BY <1>1
<1>2. AlreadyRunning \/ Setup \/ PhpFailed \/ PhpReady \/ StartHttp \/ Up \/ OnError \/ OnShutdown
      \/ Stopped \/ PhpStopped \/ PhpSends \/ HttpError \/ StopDone => UNCHANGED <<vars, spids>>
  BY DEF AlreadyRunning, Setup, PhpFailed, PhpReady, StartHttp, Up, OnError, OnShutdown,
         Stopped, PhpStopped, PhpSends, HttpError, StopDone
<1>3. CleanupWebServerFiles \/ StartPhp \/ Record \/ WaitForWorkers \/ Waited \/ WaitTimeout \/ StopKill
      \/ (\E f \in Paths : WaitForExit(f) \/ StopWaitForExit(f)) => UNCHANGED spids
  BY DEF CleanupWebServerFiles, StartPhp, Record, WaitForWorkers, Waited, WaitTimeout, StopKill, WaitForExit, StopWaitForExit
<1>4. CASE Interrupt \/ StopNotify \/ ServerExit
  BY <1>4 DEF Interrupt, StopNotify, ServerExit, Deliver, HostExit
<1>5. ASSUME NEW r \in Runners, RunStep(r) PROVE Run(r) /\ UNCHANGED <<main, stopVars>>
  BY <1>5 DEF RunStep, Run
<1>6. ASSUME NEW r \in Runners, FileChange(r) \/ RunnerWaits(r) \/ RunnerWatches(r) \/ EnvError(r) PROVE UNCHANGED pidf
  BY <1>6 DEF FileChange, RunnerWaits, RunnerWatches, CmdWait, WatchEvent, OnRestart, BackoffRestart, EnvError
<1>7. ASSUME NEW r \in Runners, RunnerWaits(r) \/ RunnerWatches(r) \/ EnvError(r) PROVE UNCHANGED spids
  BY <1>7 DEF RunnerWaits, RunnerWatches, EnvError
<1>8. ASSUME NEW p \in Pids, Exit(p) \/ InitReaps(p) PROVE UNCHANGED pidf
  BY <1>8 DEF Exit, InitReaps
<1>9. ASSUME NEW w \in Workers, StartWorker(w) PROVE UNCHANGED <<pidf, spids>>
  BY <1>9 DEF StartWorker, Check
<1> QED
  BY <1>1, <1>2, <1>3, <1>4, <1>5, <1>6, <1>7, <1>8, <1>9 DEF ServerNext, Main, Stop, allVars

\* Only Record writes the pid of the server, in its own file.
LEMMA NamesStep ==
    ASSUME ServerTypeOK, ControlInv, IdleInv, NamesInv, [ServerNext]_allVars
    PROVE  NamesInv'
<1> Booting' => Booting
  BY Forward
<1> USE PidAssumption, OneHost DEF NamesInv
<1>0. /\ TypeOK /\ Web \in Paths
      /\ \A r \in Runners : PathOf[r] \in Paths \ {Web} /\ mode[r] = "attached"
  BY ServerAssumption, RunnerAssumption DEF ServerTypeOK, IdleInv
<1>1. CASE UNCHANGED <<pidf, spids>>
  BY <1>1
<1>2. CASE CleanupWebServerFiles /\ UNCHANGED spids
  BY <1>0, <1>2 DEF CleanupWebServerFiles, NoPids
<1>3. CASE StartPhp /\ UNCHANGED spids
  BY <1>0, <1>3 DEF StartPhp, RemovePidFile, TypeOK, PidTypeOK
<1>4. CASE Record /\ UNCHANGED spids
  BY <1>0, <1>4 DEF Record, WritePidFile, Enter, Booting, TypeOK, PidTypeOK
<1>5. CASE WaitForWorkers /\ UNCHANGED spids
  BY <1>0, <1>5 DEF WaitForWorkers, Swept, AllWorkers
<1>6. CASE (Waited \/ WaitTimeout \/ StopKill) /\ UNCHANGED spids
  BY <1>0, <1>6, SMT DEF Waited, WaitTimeout, StopKill, RemovePidFile, TypeOK, PidTypeOK
<1>7. ASSUME NEW f \in Paths, WaitForExit(f) \/ StopWaitForExit(f), UNCHANGED spids PROVE NamesInv'
  BY <1>0, <1>7 DEF WaitForExit, StopWaitForExit, RemovePidFile, TypeOK, PidTypeOK
<1>8. CASE StopList
  <2>1. /\ pidf' = [f \in Paths |-> IF f = Web THEN pidf[f] ELSE AllWorkers[f]]
        /\ UNCHANGED main
        /\ spids' = [AllWorkers EXCEPT ![Web] = IF IsRunning(pidf[Web]) THEN pidf[Web] ELSE NoPid]
    BY <1>8 DEF StopList, Swept, mainVars
  <2>2. AllWorkers \in [Paths -> Pids \cup {NoPid}]
    BY WorkersListed
  <2>3. \A f \in Paths \ {Web} : pidf'[f] = AllWorkers[f] /\ spids'[f] = AllWorkers[f]
    BY <1>0, <2>1, <2>2
  <2>4. pidf'[Web] = pidf[Web] /\ spids'[Web] \in {pidf[Web], NoPid}
    BY <1>0, <2>1, <2>2
  <2> QED
    BY <2>1, <2>2, <2>3, <2>4 DEF Booting
<1>9. ASSUME NEW r \in Runners, Run(r), UNCHANGED <<main, stopVars>> PROVE NamesInv'
  <2>1. /\ \A f \in Paths \ {PathOf[r]} : pidf'[f] = pidf[f]
        /\ pidf'[PathOf[r]] \in Pids \cup {NoPid, pidf[PathOf[r]]}
    BY <1>0, <1>9, RunEffects
  <2> QED
    BY <1>0, <1>9, <2>1 DEF stopVars, Booting
<1> QED
  BY <1>1, <1>2, <1>3, <1>4, <1>5, <1>6, <1>7, <1>8, <1>9, Files

\* A run that is over has its result for good, and PHP's is there before
\* phpret sends it.
LEMMA ResultStep ==
    ASSUME ServerTypeOK, ControlInv, IdleInv, ResultInv, [ServerNext]_allVars
    PROVE  ResultInv'
<1> USE DEF ResultInv
<1>0. TypeOK /\ \A r \in Runners : mode[r] = "attached"
  BY DEF ServerTypeOK, IdleInv
<1>1. phpret' = phpret \/ phpret' \notin {"sending", "sent"} \/ (phpret' = "sent" /\ phpret = "sending") \/ PhpStopped
  <2>1. CASE UNCHANGED phpret
    BY <2>1
  <2>2. CASE StartPhp \/ PhpStopped \/ PhpSends
    BY <2>2 DEF StartPhp, PhpSends
  <2>3. AlreadyRunning \/ CleanupWebServerFiles \/ Setup \/ PhpFailed \/ PhpReady \/ StartHttp \/ Record
        \/ Up \/ OnError \/ OnShutdown \/ WaitForWorkers \/ Waited \/ WaitTimeout \/ Stopped \/ HttpError
        \/ Interrupt \/ StopNotify => UNCHANGED phpret
    BY DEF AlreadyRunning, CleanupWebServerFiles, Setup, PhpFailed, PhpReady, StartHttp, Record, Up,
           OnError, OnShutdown, WaitForWorkers, Waited, WaitTimeout, Stopped, HttpError, Interrupt, StopNotify
  <2>4. (StopList \/ StopKill \/ StopDone \/ \E f \in Paths : StopWaitForExit(f) \/ WaitForExit(f)) => UNCHANGED phpret
    BY DEF StopList, StopKill, StopDone, StopWaitForExit, WaitForExit, mainVars
  <2>5. ASSUME NEW r \in Runners, RunStep(r) \/ EnvError(r) PROVE UNCHANGED phpret
    BY <2>5 DEF RunStep, EnvError, serverVars, mainVars
  <2> QED
    BY <2>1, <2>2, <2>3, <2>4, <2>5
    DEF ServerNext, Main, Stop, StartWorker, ServerExit, RunnerWaits, RunnerWatches, allVars, serverVars, mainVars
<1>2. \A r \in Runners : /\ pc'[r] = "done" => result'[r] # "none"
                         /\ result[r] # "none" => result'[r] # "none"
  <2> DEFINE Kept == \A r \in Runners : /\ pc'[r] = "done" => result'[r] # "none"
                                        /\ result[r] # "none" => result'[r] # "none"
  <2>1. CASE UNCHANGED <<pc, hook, mode, child, result>>
    BY <2>1
  <2>2. CASE StartPhp
    BY <1>0, <2>2 DEF StartPhp, Goto, TypeOK
  <2>3. ASSUME NEW w \in Workers, StartWorker(w) PROVE Kept
    BY <1>0, <2>3, ZenonT(60) DEF StartWorker, Check, Goto, Return, TypeOK
  <2>4. ASSUME NEW r \in Runners, EnvError(r) PROVE Kept
    BY <1>0, <2>4 DEF EnvError, Goto, Return, TypeOK
  <2>5. CASE HostExit(Server)
    BY <1>0, <2>5 DEF HostExit, TypeOK
  <2>6. ASSUME NEW r \in Runners, Run(r) \/ CmdWait(r) \/ WatchEvent(r) PROVE Kept
    <3>1. \A q \in Runners \ {r} : pc'[q] = pc[q] /\ result'[q] = result[q]
      BY <1>0, <2>6, RunEffects
    <3>2. /\ pc'[r] = "done" => pc[r] = "done" \/ result'[r] # "none"
          /\ result[r] # "none" => result'[r] # "none"
      BY <1>0, <2>6, RunProgress
    <3> QED
      BY <3>1, <3>2
  <2> QED
    BY <2>1, <2>2, <2>3, <2>4, <2>5, <2>6, Moves
<1>3. PhpStopped /\ Php \in Runners => result'[Php] # "none"
  BY <1>2 DEF PhpStopped
<1>4. conf' = conf /\ (outcome' = "success" => outcome = "success" \/ Stopped)
  <2> USE DEF Leave, Enter, mainVars, ServerTypeOK
  <2>1. CASE UNCHANGED serverVars
    BY <2>1 DEF serverVars
  <2>2. CASE AlreadyRunning \/ CleanupWebServerFiles \/ Setup \/ StartPhp \/ PhpFailed \/ PhpReady \/ StartHttp \/ Record
    BY <2>2 DEF AlreadyRunning, CleanupWebServerFiles, Setup, StartPhp, PhpFailed, PhpReady, StartHttp, Record
  <2>3. CASE Up \/ OnError \/ OnShutdown \/ WaitForWorkers \/ Waited \/ WaitTimeout \/ Stopped
    BY <2>3 DEF Up, OnError, OnShutdown, WaitForWorkers, Waited, WaitTimeout, Stopped
  <2>4. CASE Interrupt \/ StopNotify
    BY <2>4 DEF Interrupt, StopNotify, Deliver
  <2>5. CASE StopList \/ StopKill \/ StopDone \/ \E f \in Paths : StopWaitForExit(f)
    BY <2>5 DEF StopList, StopKill, StopDone, StopWaitForExit
  <2>6. CASE \/ PhpStopped \/ PhpSends \/ HttpError \/ \E f \in Paths : WaitForExit(f)
             \/ \E r \in Runners : RunStep(r) \/ EnvError(r)
    BY <2>6 DEF PhpStopped, PhpSends, HttpError, WaitForExit, RunStep, EnvError, serverVars
  <2> QED
    BY <2>1, <2>2, <2>3, <2>4, <2>5, <2>6
    DEF ServerNext, Main, Stop, StartWorker, ServerExit, RunnerWaits, RunnerWatches, allVars
<1>5. Stopped /\ Php \in conf.runners => Php \in Runners /\ result[Php] # "none"
  BY Configured DEF Stopped, ServerTypeOK
<1> QED
  BY <1>1, <1>2, <1>3, <1>4, <1>5, Configured DEF ServerTypeOK

\* A process that runs after a step ran before it, and was not forgotten if it
\* was told to end; or a runner just started it, with a pid nobody lists.
LEMMA Processes ==
    ASSUME ServerTypeOK, [ServerNext]_allVars, NEW p \in Pids, proc'[p] = "run"
    PROVE  \/ /\ proc[p] = "run" /\ (p \in term => p \in term')
              /\ parent'[p] = parent[p] \/ main' = "exit"
           \/ /\ proc[p] = "free" /\ parent'[p] \in Runners
              /\ UNCHANGED serverVars
              /\ p \notin {spids[f] : f \in Paths}
              /\ \E r \in Runners : pc[r] = "loop"
<1> DEFINE Stays == /\ proc[p] = "run" /\ (p \in term => p \in term')
                    /\ parent'[p] = parent[p] \/ main' = "exit"
<1>0. TypeOK
  BY DEF ServerTypeOK
<1>1. CASE UNCHANGED <<proc, parent>> /\ term \subseteq term'
  BY <1>1
<1>2. AlreadyRunning \/ Setup \/ PhpFailed \/ PhpReady \/ StartHttp \/ Up \/ OnError \/ OnShutdown
      \/ Stopped \/ PhpStopped \/ PhpSends \/ HttpError \/ StopDone => UNCHANGED <<proc, parent, term>>
  BY DEF AlreadyRunning, Setup, PhpFailed, PhpReady, StartHttp, Up, OnError, OnShutdown,
         Stopped, PhpStopped, PhpSends, HttpError, StopDone, vars, pidVars
<1>3. CleanupWebServerFiles \/ StartPhp \/ Record \/ WaitForWorkers \/ Waited \/ WaitTimeout \/ StopList \/ StopKill
      \/ (\E f \in Paths : StopWaitForExit(f)) => UNCHANGED <<proc, parent>> /\ term \subseteq term'
  BY DEF CleanupWebServerFiles, StartPhp, Record, WaitForWorkers, Waited, WaitTimeout, StopList, StopKill,
         StopWaitForExit, Terminate
<1>4. ASSUME HostExit(Server), main' = "exit" PROVE Stays
  BY <1>4 DEF HostExit
<1>5. CASE Interrupt \/ ServerExit
  BY <1>1, <1>4, <1>5 DEF Interrupt, ServerExit, Deliver, Leave, pidVars, serverVars, mainVars
<1>6. CASE StopNotify
  BY <1>1, <1>4, <1>6 DEF StopNotify, Deliver, Leave, Terminate, pidVars
<1>7. ASSUME NEW f \in Paths, WaitForExit(f) PROVE Stays
  BY <1>0, <1>7 DEF WaitForExit, Reap, ServerTypeOK, TypeOK, PidTypeOK
<1>8. ASSUME NEW w \in Workers, StartWorker(w) PROVE Stays
  BY <1>8 DEF StartWorker, Check, pidVars
<1>9. ASSUME NEW r \in Runners, FileChange(r) \/ EnvError(r) PROVE Stays
  BY <1>9 DEF FileChange, EnvError, pidVars
<1>10. ASSUME NEW q \in Pids, Exit(q) \/ InitReaps(q) PROVE Stays
  BY <1>0, <1>10 DEF Exit, InitReaps, Reap, TypeOK, PidTypeOK, Zombie
<1>11. ASSUME NEW r \in Runners, RunnerWaits(r) \/ RunnerWatches(r) PROVE Stays
  BY <1>0, <1>11, WaitProcesses DEF RunnerWaits, RunnerWatches
<1>12. ASSUME NEW r \in Runners, RunStep(r), ~Stays
       PROVE  /\ proc[p] = "free" /\ parent'[p] \in Runners
              /\ UNCHANGED serverVars
              /\ p \notin {spids[f] : f \in Paths}
              /\ pc[r] = "loop"
  <2>1. Run(r)
    BY <1>12 DEF RunStep, Run
  <2>2. StartCmd(r) /\ proc[p] = "free" /\ parent'[p] = r
    BY <1>0, <1>12, <2>1, RunProcesses
  <2>3. pc[r] = "loop"
    BY <2>2 DEF StartCmd
  <2>4. Fresh(r) /\ UNCHANGED serverVars
    BY <1>12, <2>3 DEF RunStep, NewRunner, EnterRun, FirstBootExit, FirstBootTimer, WriteCheck, Write,
                       OnSignal, Drain, BackoffSignal, BackoffTimer, OnExit
  <2> QED
    BY <2>2, <2>3, <2>4 DEF Fresh
<1> QED
  BY <1>1, <1>2, <1>3, <1>5, <1>6, <1>7, <1>8, <1>9, <1>10, <1>11, <1>12
  DEF ServerNext, Main, Stop, allVars, vars, pidVars

\* The shutdown goroutine starts to listen at Setup only; a server that is
\* down stays down.
LEMMA ShutUp ==
    ASSUME ServerTypeOK, [ServerNext]_allVars
    PROVE  /\ Server \in up' => Server \in up
           /\ shut' = "listening" => shut = "listening" \/ main = "setup"
<1> USE DEF mainVars
<1>0. TypeOK
  BY DEF ServerTypeOK
<1>1. CASE UNCHANGED <<up, shut>>
  BY <1>1
<1>2. CASE Setup
  BY <1>2 DEF Setup, vars, pidVars
<1>3. CASE Interrupt \/ StopNotify \/ ServerExit \/ OnShutdown
  BY <1>3 DEF Interrupt, StopNotify, ServerExit, OnShutdown, Deliver, HostExit, vars, pidVars, serverVars
<1>4. AlreadyRunning \/ CleanupWebServerFiles \/ StartPhp \/ PhpFailed \/ PhpReady \/ StartHttp \/ Record
      \/ Up \/ OnError \/ WaitForWorkers \/ Waited \/ WaitTimeout \/ Stopped \/ HttpError
      \/ PhpStopped \/ PhpSends => UNCHANGED <<up, shut>>
  BY DEF AlreadyRunning, CleanupWebServerFiles, StartPhp, PhpFailed, PhpReady, StartHttp, Record, Up,
         OnError, WaitForWorkers, Waited, WaitTimeout, Stopped, HttpError, PhpStopped, PhpSends, vars, pidVars
<1>5. StopList \/ StopKill \/ StopDone \/ (\E f \in Paths : StopWaitForExit(f) \/ WaitForExit(f)) => UNCHANGED <<up, shut>>
  BY DEF StopList, StopKill, StopDone, StopWaitForExit, WaitForExit, vars, pidVars
<1>6. ASSUME NEW r \in Runners, RunStep(r) PROVE UNCHANGED <<up, shut>>
  <2>1. Run(r) /\ UNCHANGED shut
    BY <1>6 DEF RunStep, Run, serverVars
  <2>2. UNCHANGED up
    BY <2>1 DEF Run, NewRunner, EnterRun, StartCmd, FirstBootExit, FirstBootTimer, WriteCheck, Write,
                OnSignal, Drain, BackoffSignal, BackoffTimer, OnExit, pidVars
  <2> QED
    BY <2>1, <2>2
<1>7. ASSUME NEW r \in Runners, RunnerWaits(r) \/ RunnerWatches(r) \/ EnvError(r)
             \/ (FileChange(r) /\ UNCHANGED serverVars)
      PROVE  UNCHANGED <<up, shut>>
  BY <1>7 DEF RunnerWaits, RunnerWatches, EnvError, FileChange, CmdWait, WatchEvent, OnRestart, BackoffRestart,
              pidVars, serverVars
<1>8. ASSUME NEW w \in Workers, StartWorker(w) PROVE UNCHANGED <<up, shut>>
  BY <1>8 DEF StartWorker, Check, pidVars, serverVars
<1>9. ASSUME NEW p \in Pids, (Exit(p) \/ InitReaps(p)) /\ UNCHANGED serverVars PROVE UNCHANGED <<up, shut>>
  BY <1>9 DEF Exit, InitReaps, serverVars
<1> QED
  BY <1>1, <1>2, <1>3, <1>4, <1>5, <1>6, <1>7, <1>8, <1>9
  DEF ServerNext, Main, Stop, allVars, vars, pidVars, serverVars

\* Only server:stop changes what server:stop knows.
LEMMA StopOwn ==
    ASSUME [ServerNext]_allVars
    PROVE  UNCHANGED stopVars \/ Stop
<1> USE DEF stopVars, serverVars
<1>1. Main => UNCHANGED stopVars
  BY DEF Main, AlreadyRunning, CleanupWebServerFiles, Setup, StartPhp, PhpFailed, PhpReady, StartHttp, Record,
         StartWorker, Up, OnError, OnShutdown, WaitForWorkers, WaitForExit, Waited, WaitTimeout, Stopped, ServerExit
<1>2. PhpStopped \/ PhpSends \/ HttpError \/ Interrupt => UNCHANGED stopVars
  BY DEF PhpStopped, PhpSends, HttpError, Interrupt
<1>3. ASSUME NEW r \in Runners, RunStep(r) \/ RunnerWaits(r) \/ RunnerWatches(r) \/ EnvError(r) PROVE UNCHANGED stopVars
  BY <1>3 DEF RunStep, RunnerWaits, RunnerWatches, EnvError
<1> QED
  BY <1>1, <1>2, <1>3 DEF ServerNext, allVars

\* server:stop tells every process of its list to end, and none of them is
\* started again.
LEMMA StopStep ==
    ASSUME ServerTypeOK, NamesInv, StopInv, StopReaches, [ServerNext]_allVars
    PROVE  StopInv' /\ StopReaches'
<1>0. /\ TypeOK /\ Web \in Paths
      /\ \A f \in Listed(spids) \ {Web} : f \in Paths /\ spids[f] \in Pids
  BY OneHost, ServerAssumption DEF ServerTypeOK, NamesInv, Listed
<1>1. NoPid # Server
  BY PidAssumption, OneHost
<1>2. CASE UNCHANGED stopVars
  <2>1. spids[Web] = Server => main # "setup"
    BY DEF NamesInv, Booting
  <2>2. StopInv'
    BY <1>2, <2>1, ShutUp DEF StopInv, stopVars, Listed, NoPids
  <2>3. ASSUME stop' \in {"wait", "done"}, NEW f \in Listed(spids') \ {Web}, proc'[spids'[f]] = "run"
        PROVE  spids'[f] \in term'
    <3>1. /\ f \in Paths /\ spids[f] \in Pids /\ proc'[spids[f]] = "run"
          /\ proc[spids[f]] = "run" => spids[f] \in term
      BY <1>0, <1>2, <2>3 DEF stopVars, Listed, StopReaches
    <3> QED
      BY <1>2, <3>1, Processes DEF stopVars
  <2> QED
    BY <2>2, <2>3 DEF StopInv, StopReaches
<1>3. CASE StopList
  <2>1. Web \in Paths /\ swaits' = Listed(spids') /\ stop' = IF swaits' = {} THEN "done" ELSE "notify"
    BY <1>0, <1>3 DEF StopList
  <2>2. stop' = "done" => Listed(spids') = {} /\ spids'[Web] # Server
    BY <1>1, <2>1 DEF Listed
  <2> QED
    BY <2>1, <2>2 DEF StopInv, StopReaches
<1>4. ASSUME NEW f \in Paths, StopWaitForExit(f) PROVE StopInv' /\ StopReaches'
  BY <1>4 DEF StopWaitForExit, StopInv, StopReaches, Listed, NoPids, mainVars, runnerVars
<1>5. CASE StopNotify
  <2>1. spids[Web] = Server => Server \notin up' \/ shut' # "listening"
    <3>1. CASE spids[Web] = Server /\ Server \in up
      BY <1>5, <3>1 DEF StopNotify, Deliver, HostExit
    <3>2. CASE Server \notin up
      BY <3>2, ShutUp
    <3> QED
      BY <3>1, <3>2
  <2> QED
    BY <1>5, <2>1 DEF StopNotify, StopInv, StopReaches, Listed
<1>6. CASE StopKill
  <2>1. stop = "kill" /\ stop' = "wait" /\ UNCHANGED <<proc, up, shut, spids, swaits>>
    BY <1>6 DEF StopKill, mainVars
  <2>2. ASSUME NEW f \in Listed(spids) \ {Web}, proc[spids[f]] = "run"
        PROVE  spids[f] \in term'
    <3>1. f \in Paths \ {Web} /\ spids[f] \in Pids /\ IsRunning(spids[f])
      BY <1>0, <2>2 DEF IsRunning
    <3> QED
      BY <1>6, <2>2, <3>1 DEF StopKill, Terminate
  <2> QED
    BY <2>1, <2>2 DEF StopInv, StopReaches, Listed
<1>7. CASE StopDone
  BY <1>7 DEF StopDone, StopInv, StopReaches, Listed, mainVars, vars, pidVars
<1> QED
  BY <1>2, <1>3, <1>4, <1>5, <1>6, <1>7, StopOwn DEF Stop

\* Before PHP is started nothing is started and no pid file is written.
LEMMA EarlyStep ==
    ASSUME ServerTypeOK, TypeOK', ControlInv, IdleInv, [ServerNext]_allVars, BeforePhp'
    PROVE  \A f \in Paths : /\ pidf'[f] \in {pidf[f], NoPid}
                            /\ IsRunning(pidf[f])' => IsRunning(pidf[f]) /\ pidf'[f] = pidf[f]
<1>0. /\ TypeOK /\ BeforePhp /\ Hosts = {Server}
      /\ \A r \in Runners : mode[r] = "attached" /\ pc[r] = "idle"
  BY Forward, OneHost DEF ServerTypeOK, IdleInv
<1>1. \A r \in Runners : ~(Run(r) \/ CmdWait(r) \/ WatchEvent(r))
  BY <1>0, RunEffects
<1>2. \A f \in Paths : pidf'[f] \in {pidf[f], NoPid}
  <2> USE DEF TypeOK, PidTypeOK
  <2>1. CASE CleanupWebServerFiles
    BY <1>0, <2>1, SMT DEF CleanupWebServerFiles, NoPids
  <2>2. ~StartPhp /\ ~Record
    BY DEF StartPhp, Record, BeforePhp, Enter, Leave
  <2>3. ~WaitForWorkers /\ ~Waited /\ ~WaitTimeout /\ \A f \in Paths : ~WaitForExit(f)
    BY <1>0 DEF WaitForWorkers, Waited, WaitTimeout, WaitForExit, BeforePhp
  <2>4. CASE StopKill
    BY <2>4 DEF StopKill
  <2>5. CASE StopList
    BY <2>5 DEF StopList, Swept, AllWorkers
  <2>6. ASSUME NEW g \in Paths, StopWaitForExit(g) PROVE <1>2
    BY <1>0, <2>6 DEF StopWaitForExit, RemovePidFile
  <2> QED
    BY <1>1, <2>1, <2>2, <2>3, <2>4, <2>5, <2>6, Files
<1>3. \A p \in Pids : proc'[p] # "free" => proc[p] # "free"
  <2>1. CASE UNCHANGED proc
    BY <2>1
  <2>2. AlreadyRunning \/ Setup \/ PhpFailed \/ PhpReady \/ StartHttp \/ Up \/ OnError \/ OnShutdown
        \/ Stopped \/ PhpStopped \/ PhpSends \/ HttpError \/ StopDone => UNCHANGED proc
    BY DEF AlreadyRunning, Setup, PhpFailed, PhpReady, StartHttp, Up, OnError, OnShutdown,
           Stopped, PhpStopped, PhpSends, HttpError, StopDone, vars, pidVars
  <2>3. CleanupWebServerFiles \/ StartPhp \/ Record \/ WaitForWorkers \/ Waited \/ WaitTimeout \/ StopList \/ StopKill
        \/ (\E f \in Paths : StopWaitForExit(f)) \/ Interrupt \/ ServerExit \/ StopNotify
        \/ (\E w \in Workers : StartWorker(w)) => UNCHANGED proc
    BY DEF CleanupWebServerFiles, StartPhp, Record, WaitForWorkers, Waited, WaitTimeout, StopList, StopKill,
           StopWaitForExit, Interrupt, ServerExit, StopNotify, Deliver, HostExit, StartWorker, Check, pidVars
  <2>4. \A f \in Paths : ~WaitForExit(f)
    BY <1>0 DEF WaitForExit, BeforePhp
  <2>5. \A r \in Runners : ~RunStep(r) /\ ~RunnerWaits(r) /\ ~RunnerWatches(r)
    BY <1>1 DEF RunStep, RunnerWaits, RunnerWatches, Run
  <2>6. \A r \in Runners : FileChange(r) \/ EnvError(r) => UNCHANGED proc
    BY DEF FileChange, EnvError, pidVars
  <2>7. ASSUME NEW q \in Pids, Exit(q) \/ InitReaps(q) PROVE <1>3
    BY <1>0, <2>7, SMT DEF Exit, InitReaps, Reap, Zombie, TypeOK, PidTypeOK
  <2> QED
    BY <2>1, <2>2, <2>3, <2>4, <2>5, <2>6, <2>7 DEF ServerNext, Main, Stop, allVars, vars, pidVars
<1>4. \A x \in up' : x \in up
  BY <1>0, ShutUp DEF TypeOK, PidTypeOK
<1>5. NoPid \notin Pids /\ NoPid \notin up
  BY <1>0, PidAssumption DEF TypeOK, PidTypeOK
<1> QED
  BY <1>2, <1>3, <1>4, <1>5 DEF IsRunning

\* The commands an earlier server left are told to end by cleanupWebServerFiles,
\* unless server:stop listed them and removed their pid files before it.
LEMMA OrphanStep ==
    ASSUME ServerTypeOK, TypeOK', ControlInv, IdleInv, StopInv, OrphanInv, [ServerNext]_allVars
    PROVE  OrphanInv'
<1>0. /\ TypeOK /\ Web \in Paths /\ Nobody \notin Runners
      /\ NoPid \notin Pids \cup Hosts
  BY ServerAssumption, PidAssumption DEF ServerTypeOK
<1>1. NoPid \notin Pids /\ NoPid \notin up
  BY <1>0 DEF TypeOK, PidTypeOK
<1>2. CASE StopList
  <2>1. /\ stop = "idle" /\ UNCHANGED <<proc, parent, term, up, main>>
        /\ pidf' = Swept
        /\ spids' = [AllWorkers EXCEPT ![Web] = IF IsRunning(pidf[Web]) THEN pidf[Web] ELSE NoPid]
    BY <1>2 DEF StopList, mainVars
  <2>2. \A f \in Paths : /\ IsRunning(pidf[f]) => spids'[f] = pidf[f]
                         /\ pidf'[f] = IF f = Web \/ IsRunning(pidf[f]) THEN pidf[f] ELSE NoPid
    BY <1>0, <2>1 DEF Swept, AllWorkers
  <2>3. \A f \in Paths : IsRunning(pidf[f])' => IsRunning(pidf[f]) /\ pidf'[f] = pidf[f]
    BY <1>1, <2>1, <2>2 DEF IsRunning
  <2>4. (main = "cleanup" => ~IsRunning(pidf[Web]))'
    BY <1>0, <2>1, <2>3 DEF OrphanInv
  <2>5. \A f \in Paths : IsRunning(pidf[f])' => pidf'[f] = spids'[f]
    BY <2>2, <2>3
  <2>6. ASSUME main # "exit", NEW p \in Pids, parent[p] = Nobody, proc[p] = "run"
        PROVE  p \in term \cup {spids'[f] : f \in Paths}
    <3>1. p \notin {spids[f] : f \in Paths}
      BY <1>0, <2>1 DEF StopInv, NoPids
    <3>2. CASE \E f \in Paths : pidf[f] = p
      BY <2>2, <2>6, <3>2, SMT DEF IsRunning
    <3> QED
      BY <2>6, <3>1, <3>2 DEF OrphanInv
  <2> QED
    BY <2>1, <2>4, <2>5, <2>6 DEF OrphanInv
<1>3. CASE ~StopList
  <2>1. UNCHANGED spids /\ (stop' \notin {"never", "idle"} => stop \notin {"never", "idle"})
    <3>1. CASE UNCHANGED stopVars
      BY <3>1 DEF stopVars
    <3>2. ASSUME NEW f \in Paths, StopWaitForExit(f) PROVE <2>1
      BY <3>2 DEF StopWaitForExit
    <3>3. CASE StopNotify \/ StopKill \/ StopDone
      BY <3>3 DEF StopNotify, StopKill, StopDone
    <3> QED
      BY <1>3, <3>1, <3>2, <3>3, StopOwn DEF Stop
  <2>2. main' = "cleanup" => ~IsRunning(pidf[Web])'
    <3>1. ASSUME main' = "cleanup", main = "cleanup" PROVE ~IsRunning(pidf[Web])'
      <4>1. ~IsRunning(pidf[Web]) /\ BeforePhp'
        BY <3>1 DEF OrphanInv, BeforePhp
      <4> QED
        BY <1>0, <4>1, EarlyStep
    <3>2. CASE AlreadyRunning
      BY <3>2 DEF AlreadyRunning, Leave, vars, pidVars, IsRunning
    <3>3. main' = "cleanup" => main = "cleanup" \/ AlreadyRunning
      BY Forward
    <3> QED
      BY <3>1, <3>2, <3>3
  <2>3. ASSUME BeforePhp', stop' \notin {"never", "idle"}, NEW f \in Paths, IsRunning(pidf[f])'
        PROVE  pidf'[f] = spids'[f]
    BY <2>1, <2>3, EarlyStep, Forward DEF OrphanInv
  <2>4. ASSUME main' # "exit", NEW p \in Pids, parent'[p] = Nobody, proc'[p] = "run"
        PROVE  \/ p \in term' \cup {spids'[f] : f \in Paths}
               \/ main' \in {"check", "cleanup"} /\ \E f \in Paths : pidf'[f] = p
    <3>1. /\ proc[p] = "run" /\ parent[p] = Nobody /\ main # "exit"
          /\ p \in term => p \in term'
      BY <1>0, <2>4, Processes, Forward
    <3>2. CASE p \in term \cup {spids[f] : f \in Paths}
      BY <2>1, <3>1, <3>2
    <3>3. ASSUME main \in {"check", "cleanup"}, NEW f \in Paths, pidf[f] = p,
                 p \notin {spids[g] : g \in Paths}
          PROVE  \/ p \in term'
                 \/ main' \in {"check", "cleanup"} /\ pidf'[f] = p
      <4>1. IsRunning(pidf[f])
        BY <3>1, <3>3 DEF IsRunning
      <4>2. stop \in {"never", "idle"}
        BY <3>3, <4>1 DEF OrphanInv, BeforePhp
      <4>3. CASE CleanupWebServerFiles
        <5>1. f # Web
          BY <4>1, <4>3 DEF CleanupWebServerFiles, OrphanInv
        <5>2. AllWorkers[f] = p
          BY <3>3, <4>1, <5>1 DEF AllWorkers
        <5>3. p \in {AllWorkers[g] : g \in Paths}
          BY <5>2
        <5> QED
          BY <3>1, <4>3, <5>3 DEF CleanupWebServerFiles, Terminate
      <4>4. CASE ~CleanupWebServerFiles
        <5>1. main' \in {"check", "cleanup"}
          BY <2>4, <3>3, <4>4, Forward
        <5>2. \A g \in Paths : ~StopWaitForExit(g)
          BY <4>2 DEF StopWaitForExit, StopInv, Listed, NoPids
        <5>3. ~StopKill
          BY <4>2 DEF StopKill
        <5>4. ~StartPhp /\ ~Record /\ ~WaitForWorkers /\ ~Waited /\ ~WaitTimeout /\ \A g \in Paths : ~WaitForExit(g)
          BY <3>3 DEF StartPhp, Record, WaitForWorkers, Waited, WaitTimeout, WaitForExit
        <5>5. \A r \in Runners : ~Run(r)
          BY <1>0, <3>3, RunEffects DEF IdleInv, BeforePhp
        <5> QED
          BY <1>3, <3>3, <4>4, <5>1, <5>2, <5>3, <5>4, <5>5, Files
      <4> QED
        BY <4>3, <4>4
    <3> QED
      BY <3>1, <3>2, <3>3 DEF OrphanInv
  <2> QED
    BY <2>2, <2>3, <2>4 DEF OrphanInv
<1> QED
  BY <1>2, <1>3

\* The steps that change the hook of docker compose change the counter of the
\* wait group with it; Record sets it before any worker runs.
LEMMA Counter ==
    ASSUME ServerTypeOK, IdleInv, [ServerNext]_allVars
    PROVE  /\ conf' = conf
           /\ \/ UNCHANGED <<hook, dockerWg>>
              \/ Record
              \/ /\ Docker \in Runners /\ hook[Docker] = "set"
                 /\ hook'[Docker] = "fired" /\ dockerWg' = dockerWg - 1
<1> USE DEF mainVars
<1>1. CASE UNCHANGED <<hook, dockerWg, conf>>
  BY <1>1
<1>2. AlreadyRunning \/ Setup \/ PhpFailed \/ PhpReady \/ StartHttp \/ Up \/ OnError \/ OnShutdown
      \/ Stopped \/ PhpStopped \/ PhpSends \/ HttpError \/ StopDone => UNCHANGED <<hook, dockerWg, conf>>
  BY DEF AlreadyRunning, Setup, PhpFailed, PhpReady, StartHttp, Up, OnError, OnShutdown,
         Stopped, PhpStopped, PhpSends, HttpError, StopDone, vars, runnerVars
<1>3. CleanupWebServerFiles \/ StartPhp \/ WaitForWorkers \/ Waited \/ WaitTimeout \/ StopList \/ StopKill
      \/ (\E f \in Paths : StopWaitForExit(f) \/ WaitForExit(f)) => UNCHANGED <<hook, dockerWg, conf>>
  BY DEF CleanupWebServerFiles, StartPhp, WaitForWorkers, Waited, WaitTimeout, StopList, StopKill,
         StopWaitForExit, WaitForExit, runnerVars
<1>4. Interrupt \/ StopNotify \/ ServerExit \/ (\E w \in Workers : StartWorker(w)) => UNCHANGED <<hook, dockerWg, conf>>
  BY DEF Interrupt, StopNotify, ServerExit, Deliver, HostExit, StartWorker, Check, runnerVars, serverVars
<1>5. Record => UNCHANGED conf
  BY DEF Record
<1>6. ASSUME NEW r \in Runners, RunnerWaits(r) \/ RunnerWatches(r) \/ EnvError(r)
             \/ (FileChange(r) /\ UNCHANGED serverVars)
      PROVE  UNCHANGED <<hook, dockerWg, conf>>
  BY <1>6 DEF RunnerWaits, RunnerWatches, EnvError, FileChange, CmdWait, WatchEvent, OnRestart, BackoffRestart, serverVars
<1>7. ASSUME NEW r \in Runners, OnExit(r), dockerWg' = IF Done(r) THEN dockerWg - 1 ELSE dockerWg,
             ~UNCHANGED <<hook, dockerWg>>
      PROVE  r = Docker /\ hook[r] = "set" /\ hook'[r] = "fired" /\ dockerWg' = dockerWg - 1
  <2>1. hook \in [Runners -> {"none", "set", "fired"}]
    BY DEF ServerTypeOK, TypeOK
  <2>2. HookRuns(r)
    BY <1>7, <2>1 DEF OnExit, Done
  <2>3. r = Docker
    BY <2>2, ServerAssumption DEF HookRuns, IdleInv
  <2> QED
    BY <1>7, <2>1, <2>2, <2>3 DEF OnExit, Done, HookRuns
<1>8. ASSUME NEW r \in Runners, RunStep(r) PROVE UNCHANGED conf
  BY <1>8 DEF RunStep, serverVars
<1>9. ASSUME NEW r \in Runners, RunStep(r)
      PROVE  \/ UNCHANGED <<hook, dockerWg>>
             \/ OnExit(r) /\ dockerWg' = IF Done(r) THEN dockerWg - 1 ELSE dockerWg
  BY <1>9 DEF RunStep, NewRunner, EnterRun, StartCmd, FirstBootExit, FirstBootTimer, WriteCheck, Write,
              OnSignal, Drain, BackoffSignal, BackoffTimer, serverVars
<1> QED
  BY <1>1, <1>2, <1>3, <1>4, <1>5, <1>6, <1>7, <1>8, <1>9
  DEF ServerNext, Main, Stop, allVars, vars, runnerVars, serverVars

\* A worker passes dockerWg.Wait() once the hook of docker compose ran, and the
\* counter never goes below zero.
LEMMA BarrierStep ==
    ASSUME ServerTypeOK, ControlInv, IdleInv, BarrierInv, DockerBarrier, [ServerNext]_allVars
    PROVE  BarrierInv' /\ DockerBarrier'
<1>0. /\ TypeOK /\ Php # Docker /\ conf.runners \subseteq Runners
      /\ \A r \in Runners : mode[r] = "attached"
  BY ServerAssumption, Configured DEF ServerTypeOK, IdleInv
<1>1. conf' = conf
  BY Counter
<1>2. BarrierCounts'
  <2> SUFFICES ASSUME Docker \in conf.runners, main' \in {"workers", "select", "list", "wait", "stopped"}
               PROVE  dockerWg' = IF hook'[Docker] = "fired" THEN 0 ELSE 1
    BY <1>1 DEF BarrierCounts
  <2>1. CASE Record
    <3>1. Docker \in Runners /\ pc[Docker] = "idle" /\ hook[Docker] # "fired"
      BY <1>0, <2>1 DEF Record, IdleInv, Booting
    <3> QED
      BY <2>1, <3>1 DEF Record, Leave, runnerVars
  <2>2. CASE ~Record
    <3>1. main \in {"workers", "select", "list", "wait", "stopped"}
      BY <2>2, Forward DEF ServerTypeOK, Booting
    <3>2. dockerWg = IF hook[Docker] = "fired" THEN 0 ELSE 1
      BY <3>1 DEF DockerBarrier, BarrierCounts
    <3> QED
      BY <2>2, <3>2, Counter, SMT
  <2> QED
    BY <2>1, <2>2
<1>3. Docker \in Runners /\ hook[Docker] = "fired" => hook'[Docker] = "fired"
  BY Counter DEF Record, runnerVars
<1>4. ASSUME Docker \in conf.runners, NEW w \in Workers \ {Docker}, Listening(w)' \/ child'[w] # NoPid
      PROVE  hook'[Docker] = "fired"
  <2> SUFFICES hook[Docker] = "fired"
    BY <1>0, <1>3, <1>4
  <2>0. Listening(w) \/ child[w] # NoPid => hook[Docker] = "fired"
    BY <1>4 DEF BarrierInv, DockerBarrier, DockerFirst
  <2>1. w \in Runners /\ w # Php
    BY <1>0 DEF Workers
  <2>2. CASE UNCHANGED <<pc, hook, mode, child, result>>
    BY <1>4, <2>0, <2>2 DEF Listening
  <2>3. CASE StartPhp
    BY <1>0, <1>4, <2>0, <2>1, <2>3 DEF StartPhp, Goto, Listening, TypeOK
  <2>4. ASSUME NEW v \in Workers, StartWorker(v) PROVE hook[Docker] = "fired"
    BY <1>0, <1>4, <2>0, <2>1, <2>4, ZenonT(60) DEF StartWorker, Check, Goto, Return, Listening, TypeOK, Ended
  <2>5. ASSUME NEW r \in Runners, EnvError(r) PROVE hook[Docker] = "fired"
    BY <1>0, <1>4, <2>0, <2>1, <2>5 DEF EnvError, Goto, Return, Listening, TypeOK, Ended
  <2>6. CASE HostExit(Server)
    BY <1>0, <1>4, <2>0, <2>1, <2>6 DEF HostExit, Listening, TypeOK, Ended
  <2>7. ASSUME NEW r \in Runners, main # "exit", RunStep(r), Run(r) PROVE hook[Docker] = "fired"
    <3>1. CASE r # w
      <4>1. pc'[w] = pc[w] /\ child'[w] = child[w]
        BY <1>0, <2>1, <2>7, <3>1, RunEffects, SMT
      <4> QED
        BY <1>4, <2>0, <4>1 DEF Listening
    <3>2. CASE r = w /\ (Listening(w) \/ child[w] # NoPid)
      BY <2>0, <3>2
    <3>3. CASE r = w /\ ~(Listening(w) \/ child[w] # NoPid)
      <4>1. EnterRun(w)
        BY <1>0, <1>4, <2>7, <3>3, RunProgress
      <4>2. pc[w] = "run"
        BY <4>1 DEF EnterRun
      <4>3. Released(w)
        BY <2>7, <3>3, <4>2 DEF RunStep, NewRunner, StartCmd, FirstBootExit, FirstBootTimer, WriteCheck, Write,
                                OnSignal, Drain, BackoffSignal, BackoffTimer, OnExit
      <4>4. dockerWg = 0
        BY <2>1, <4>3 DEF Released
      <4>5. main \in {"workers", "select", "list", "wait", "stopped"}
        BY <2>1, <2>7, <4>2 DEF IdleInv, Booting, ServerTypeOK
      <4> QED
        BY <1>4, <4>4, <4>5, SMT DEF DockerBarrier, BarrierCounts
    <3> QED
      BY <3>1, <3>2, <3>3
  <2>8. ASSUME NEW r \in Runners, CmdWait(r) \/ WatchEvent(r) PROVE hook[Docker] = "fired"
    <3>1. CASE r # w
      <4>1. pc'[w] = pc[w] /\ child'[w] = child[w]
        BY <1>0, <2>1, <2>8, <3>1, RunEffects, SMT
      <4> QED
        BY <1>4, <2>0, <4>1 DEF Listening
    <3>2. CASE r = w
      <4>1. Listening(w) \/ child[w] # NoPid \/ EnterRun(w)
        BY <1>0, <1>4, <2>8, <3>2, RunProgress
      <4>2. pc[w] # "run"
        BY <2>8, <3>2 DEF CmdWait, WatchEvent, Listening, ControlInv
      <4> QED
        BY <2>0, <4>1, <4>2 DEF EnterRun
    <3> QED
      BY <3>1, <3>2
  <2> QED
    BY <2>2, <2>3, <2>4, <2>5, <2>6, <2>7, <2>8, Moves
<1>5. Workers' = Workers
  BY <1>1 DEF Workers
<1> QED
  BY <1>1, <1>2, <1>4, <1>5 DEF BarrierInv, DockerBarrier, DockerFirst

\* The server starts with nothing of its own, after whatever earlier servers left.
LEMMA ServerInitInv ==
    ASSUME ServerInit
    PROVE  ServerTypeOK /\ ServerInv
<1> USE DEF ServerInit
<1>1. TypeOK
  <2>1. PidTypeOK
    BY DEF PidTypeOK, Zombie
  <2>2. /\ pc \in [Runners -> PCs] /\ mode \in [Runners -> Modes] /\ child \in [Runners -> Pids \cup {NoPid}]
        /\ exit \in [Runners -> {"none", "wait"} \cup Zombie]
        /\ hook \in [Runners -> {"none", "set", "fired"}] /\ result \in [Runners -> {"none", "ok", "err"}]
    BY RunnerAssumption DEF PCs
  <2>3. /\ boot \in [Runners -> BOOLEAN] /\ sig \in [Runners -> BOOLEAN] /\ always \in [Runners -> BOOLEAN]
        /\ event \in [Runners -> BOOLEAN] /\ stale \in [Runners -> BOOLEAN]
    BY SMTT(30)
  <2> QED
    BY <2>1, <2>2, <2>3 DEF TypeOK
<1>2. ServerTypeOK
  BY <1>1, SMT DEF ServerTypeOK, NoPids
<1>3. WaitInv /\ ControlInv /\ CleanReturn
  BY PidAssumption DEF WaitInv, ControlInv, CleanReturn, LiveChildren
<1>4. IdleInv
  BY ServerAssumption DEF IdleInv
<1>5. NamesInv
  <2>1. Server \notin Pids \cup {NoPid} /\ Web \in Paths
    BY PidAssumption, ServerAssumption
  <2> QED
    BY <2>1, ZenonT(60) DEF NamesInv, NoPids
<1>6. ResultInv
  BY DEF ResultInv
<1>7. StopInv /\ StopReaches
  BY DEF StopInv, StopReaches
<1>8. OrphanInv
  BY DEF OrphanInv, BeforePhp
<1>9. BarrierInv /\ DockerBarrier
  BY Configured DEF BarrierInv, DockerBarrier, BarrierCounts, DockerFirst, Listening, Workers
<1> QED
  BY <1>2, <1>3, <1>4, <1>5, <1>6, <1>7, <1>8, <1>9 DEF ServerInv

(***************************************************************************)
(* ServerInv holds in every state of server:start, its runners and         *)
(* server:stop, together with the types of their variables.                *)
(***************************************************************************)
THEOREM ServerInvariance == ServerSpec => [](ServerTypeOK /\ ServerInv)
<1>1. ServerInit => ServerTypeOK /\ ServerInv
  BY ServerInitInv
<1>2. ServerTypeOK /\ ServerInv /\ [ServerNext]_allVars => (ServerTypeOK /\ ServerInv)'
  <2> SUFFICES ASSUME ServerTypeOK, ServerInv, [ServerNext]_allVars PROVE (ServerTypeOK /\ ServerInv)'
    OBVIOUS
  <2> USE DEF ServerInv
  <2>1. TypeOK' /\ WaitInv' /\ ControlInv' /\ CleanReturn'
    BY RunnersStep
  <2>2. ServerTypeOK'
    BY <2>1, ServerTypeStep
  <2>3. IdleInv' /\ NamesInv' /\ ResultInv'
    BY IdleStep, NamesStep, ResultStep
  <2>4. StopInv' /\ StopReaches'
    BY StopStep
  <2>5. OrphanInv'
    BY <2>1, OrphanStep
  <2>6. BarrierInv' /\ DockerBarrier'
    BY BarrierStep
  <2> QED
    BY <2>1, <2>2, <2>3, <2>4, <2>5, <2>6
<1> QED
  BY <1>1, <1>2, PTL DEF ServerSpec

(***************************************************************************)
(* server:start reports success only once PHP's run is over and, when it   *)
(* ended well, its command has ended or was told to, for any workers,      *)
(* errors and signals.                                                     *)
(***************************************************************************)
THEOREM PhpDownAlways == ServerSpec => []PhpDown
<1>1. ServerTypeOK /\ ServerInv => PhpDown
  BY Configured DEF ServerTypeOK, ServerInv, ResultInv, CleanReturn, PhpDown
<1> QED
  BY <1>1, ServerInvariance, PTL

(***************************************************************************)
(* The commands an earlier server left behind are told to end by           *)
(* cleanupWebServerFiles, or are in the list of a server:stop that runs at *)
(* the same time.                                                          *)
(***************************************************************************)
THEOREM OrphansStoppedAlways == ServerSpec => []OrphansStopped
<1>1. ServerInv => OrphansStopped
  BY DEF ServerInv, OrphanInv, OrphansStopped
<1> QED
  BY <1>1, ServerInvariance, PTL

(***************************************************************************)
(* After its second loop server:stop has told every process of its list to *)
(* end, whatever the server and its runners did to the pid files.          *)
(***************************************************************************)
THEOREM StopReachesAlways == ServerSpec => []StopReaches
<1>1. ServerInv => StopReaches
  BY DEF ServerInv
<1> QED
  BY <1>1, ServerInvariance, PTL

(***************************************************************************)
(* dockerWg is released once, by the first success of docker compose, and  *)
(* no worker has a command before.                                         *)
(***************************************************************************)
THEOREM DockerBarrierAlways == ServerSpec => []DockerBarrier
<1>1. ServerInv => DockerBarrier
  BY DEF ServerInv
<1> QED
  BY <1>1, ServerInvariance, PTL

(***************************************************************************)
(* Inside the server every runner still implements Supervision, although   *)
(* waitForWorkers may reap a command before cmd.Wait does: one command at  *)
(* a time, and none after the run is over.                                 *)
(***************************************************************************)
THEOREM ServerRefinement == ServerSpec => Supervises
<1>1. ServerInit => Promise!Init
  BY PidAssumption, SMT DEF ServerInit, Promise!Init, LiveChildren, Ended
<1>2. ServerTypeOK /\ ServerInv /\ [ServerNext]_allVars => [Promise!Next]_<<Live, Over>>
  <2> SUFFICES ASSUME ServerTypeOK, ServerInv, [ServerNext]_allVars
               PROVE  [Promise!Next]_<<Live, Over>>
    OBVIOUS
  <2>0. TypeOK /\ WaitInv /\ ControlInv /\ IdleInv
    BY DEF ServerTypeOK, ServerInv
  <2>1. CASE [Next]_vars
    BY <2>0, <2>1, SupervisionStep
  <2>2. CASE FilesOnly
    BY <2>2, Quiet DEF FilesOnly, runnerVars, Over
  <2>3. CASE StartPhp
    <3>1. parent' = parent
      BY <2>3 DEF StartPhp
    <3>2. Over' = Over
      BY <2>0, <2>3 DEF StartPhp, Goto, Over, Ended, TypeOK, IdleInv, BeforePhp
    <3> QED
      BY <3>1, <3>2, Quiet
  <2>4. ASSUME NEW r \in Runners, EnvError(r) PROVE [Promise!Next]_<<Live, Over>>
    BY <2>0, <2>4, Finishes, ZenonT(60) DEF EnvError, Return, Goto, pidVars, Over, Ended, TypeOK
  <2>5. ASSUME NEW f \in Paths, WaitForExit(f) PROVE [Promise!Next]_<<Live, Over>>
    <3> DEFINE p == wpids[f]
    <3>1. p \in Pids /\ Over' = Over
      BY <2>5 DEF WaitForExit, ServerTypeOK, Over
    <3>2. CASE parent' = parent
      BY <3>1, <3>2, Quiet
    <3>3. CASE parent[p] \in Runners /\ parent' = [parent EXCEPT ![p] = Nobody]
      <4> DEFINE r == parent[p]
      <4>1. \A q \in Runners : LiveChildren(q)' = IF q = r THEN {} ELSE LiveChildren(q)
        BY <2>0, <3>1, <3>3, PidAssumption, SMT DEF WaitInv, TypeOK, PidTypeOK, LiveChildren
      <4>2. Live' = [Live EXCEPT ![r] = {}]
        BY <3>3, <4>1 DEF Live
      <4> QED
        BY <3>1, <3>3, <4>2 DEF Promise!Next, Promise!Reaped, Live, Over
    <3> QED
      BY <2>5, <3>2, <3>3 DEF WaitForExit, Reap
  <2>6. CASE UNCHANGED allVars
    BY <2>1, <2>6 DEF allVars
  <2> QED
    BY <2>1, <2>2, <2>3, <2>4, <2>5, <2>6, Kinds
<1> QED
  BY <1>1, <1>2, ServerInvariance, PTL DEF ServerSpec, Supervises, Promise!Spec, Live, Over
=============================================================================
