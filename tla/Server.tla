------------------------------- MODULE Server -------------------------------
(***************************************************************************)
(* The local web server: the process of server:start, which executes one   *)
(* Runner for PHP and one per worker, and the server:stop command that     *)
(* ends it (commands/local_server_start.go, local_server_stop.go).         *)
(*                                                                         *)
(* main names the statement the goroutine of server:start is at:           *)
(*   check    pidFile.IsRunning       cleanup  cleanupWebServerFiles       *)
(*   setup    up to project.New       php      PHPServer.Start             *)
(*   phpwait  the PHP select          http     HTTP.Start                  *)
(*   record   the select that writes the server's own pid file             *)
(*   workers  the loop over config.Workers                                 *)
(*   select   the final select        list     waitForWorkers              *)
(*   wait     its g.Wait              stopped  <-StoppedChan               *)
(*   exit     the action returned                                          *)
(* The runners take the steps of module Runner; what server:start adds to  *)
(* them is the dockerWg barrier and the channels they report to.           *)
(***************************************************************************)
EXTENDS Runner, Integers

CONSTANTS Server,  \* the pid of server:start
          Web,     \* its pid file
          Php,     \* the runner of PHP
          Docker,  \* the docker_compose worker
          Scenarios  \* which runners the project has, which files an earlier
                     \* server left, whether server:stop is called and whether
                     \* watched files change

ASSUME ServerAssumption ==
    /\ Hosts = {Server}
    /\ Web \in Paths
    /\ \A r \in Runners : PathOf[r] # Web /\ Mode[r] = "attached"
    /\ \A q, r \in Runners : PathOf[q] = PathOf[r] => q = r
    /\ Php # Docker
    /\ Restart = {Php} \cap Runners
    /\ Hooked = {Docker} \cap Runners
    /\ Scenarios \subseteq 
           [runners : SUBSET Runners, left : SUBSET Paths, stops : BOOLEAN, edits : BOOLEAN]

VARIABLES main,       \* see above
          outcome,    \* how server:start ended
          shut,       \* the goroutine that waits for a signal
          errChan,    \* its content, one error at most
          phpret,     \* the goroutine errChan <- phpStartCallback()
          dockerWg,   \* the counter of the wait group
          wpids,      \* the pid files waitForWorkers waits for
          conf,       \* the scenario: PHP and config.Workers are its runners
          stop,       \* the statement of server:stop
          spids,      \* its list: Paths -> pid
          swaits      \* its WaitForExit goroutines that did not return

mainVars == <<main, outcome, shut, errChan, phpret, dockerWg, wpids, conf>>
stopVars == <<stop, spids, swaits>>
serverVars == <<mainVars, stopVars>>
allVars == <<vars, serverVars>>

Workers == conf.runners \ {Php}

NoPids == [f \in Paths |-> NoPid]

(***************************************************************************)
(* An earlier server may have crashed: its pid file names a process that   *)
(* is gone, or another program that got its pid; the files of its workers  *)
(* name commands that are gone or still run, adopted by init.              *)
(***************************************************************************)
ServerInit ==
    /\ proc \in [Pids -> {"free", "run"}]
    /\ pidf \in [Paths -> Pids \cup {NoPid}]
    /\ \A p \in Pids : proc[p] = "run" => \E f \in Paths : pidf[f] = p
    /\ \A f, g \in Paths : pidf[f] = pidf[g] /\ pidf[f] # NoPid => f = g
    /\ parent = [p \in Pids |-> Nobody]
    /\ term = {}
    /\ up = Hosts
    /\ pc = [r \in Runners |-> "idle"]
    /\ mode = Mode
    /\ boot = [r \in Runners |-> FALSE]
    /\ child = [r \in Runners |-> NoPid]
    /\ exit = [r \in Runners |-> "none"]
    /\ sig = [r \in Runners |-> FALSE]
    /\ always = [r \in Runners |-> r \in Restart]
    /\ hook = [r \in Runners |-> IF r \in Hooked THEN "set" ELSE "none"]
    /\ event = [r \in Runners |-> FALSE]
    /\ stale = [r \in Runners |-> FALSE]
    /\ result = [r \in Runners |-> "none"]
    /\ main = "check" /\ outcome = "none"
    /\ shut = "none"
    /\ errChan = "empty"
    /\ phpret = "none"
    /\ dockerWg = 0
    /\ wpids = NoPids
    /\ spids = NoPids /\ swaits = {}
    /\ conf \in Scenarios
    /\ stop = IF conf.stops THEN "idle" ELSE "never"
    /\ \A f \in Paths \ conf.left : pidf[f] = NoPid

Leave(how) ==
    /\ main' = "exit"
    /\ outcome' = how

Enter(label) == main' = label /\ UNCHANGED outcome

(***************************************************************************)
(* AllWorkers: the worker pid files whose process runs.  Reading the       *)
(* directory removes the other ones.                                       *)
(***************************************************************************)
AllWorkers ==
    [f \in Paths |-> IF f # Web /\ IsRunning(pidf[f]) THEN pidf[f] ELSE NoPid]
Swept == [f \in Paths |-> IF f = Web THEN pidf[f] ELSE AllWorkers[f]]
Listed(ps) == {f \in Paths : ps[f] # NoPid}
-----------------------------------------------------------------------------
(***************************************************************************)
(* The boot of server:start.                                               *)
(***************************************************************************)
AlreadyRunning ==
    /\ main = "check"
    /\ IF IsRunning(pidf[Web]) THEN Leave("already") ELSE Enter("cleanup")
    /\ UNCHANGED <<vars, shut, errChan, phpret, dockerWg, wpids, conf, stopVars>>

CleanupWebServerFiles_FilesOnly ==
    /\ main = "cleanup"
    /\ pidf' = NoPids
    /\ Enter("setup")
    /\ UNCHANGED <<proc, parent, term, up, runnerVars, shut, errChan, phpret, dockerWg, wpids, conf, stopVars>>

\* Kills fail when the process ends between IsRunning and the signal.
CleanupWebServerFiles ==
    /\ main = "cleanup"
    /\ Terminate({AllWorkers[f] : f \in Paths})
    /\ \/ Enter("setup") /\ pidf' = NoPids
       \/ /\ Listed(AllWorkers) # {}
          /\ Leave("err")
          /\ pidf' = [NoPids EXCEPT ![Web] = pidf[Web]]
    /\ UNCHANGED <<proc, parent, up, runnerVars, shut, errChan, phpret, dockerWg, wpids, conf, stopVars>>

\* Configuration, going to the background (module Reexec), proxy and TLS:
\* any of them may fail.  The shutdown goroutine is started on the way.
Setup ==
    /\ main = "setup"
    /\ \/ shut' = "listening" /\ Enter(IF Php \in conf.runners THEN "php" ELSE "http")
       \/ shut' \in {"none", "listening"} /\ Leave("err")
    /\ UNCHANGED <<vars, errChan, phpret, dockerWg, wpids, conf, stopVars>>

\* A PHP that is recorded as running is stopped first.
StartPhp ==
    /\ main = "php"
    /\ LET f == PathOf[Php] IN
         /\ Terminate(IF IsRunning(pidf[f]) THEN {pidf[f]} ELSE {})
         /\ \/ /\ pidf' = IF IsRunning(pidf[f]) THEN [pidf EXCEPT ![f] = NoPid] ELSE pidf
               /\ Goto(Php, "run")
               /\ phpret' = "running"
               /\ Enter("phpwait")
            \/ RemovePidFile(f) /\ Leave("err") /\ UNCHANGED <<pc, phpret>>
    /\ UNCHANGED <<proc, parent, up, mode, boot, child, exit, sig, always, hook, event, stale,
                   result, shut, errChan, dockerWg, wpids, conf, stopVars>>

\* The select on errChan and WaitForPid.  The watcher's channel keeps the event
\* of the creation of the file, which may be gone when it is received.
PhpFailed ==
    /\ main = "phpwait"
    /\ errChan # "empty"
    /\ Leave(errChan)
    /\ errChan' = "empty"
    /\ UNCHANGED <<vars, shut, phpret, dockerWg, wpids, conf, stopVars>>

PhpReady ==
    /\ main = "phpwait"
    /\ child[Php] # NoPid /\ ~boot[Php]
    /\ Enter("http")
    /\ UNCHANGED <<vars, shut, errChan, phpret, dockerWg, wpids, conf, stopVars>>

StartHttp ==
    /\ main = "http"
    /\ Enter("record") \/ Leave("err")
    /\ UNCHANGED <<vars, shut, errChan, phpret, dockerWg, wpids, conf, stopVars>>

\* An HTTP server fails.
HttpError ==
    /\ main \in {"record", "workers", "select"}
    /\ errChan = "empty"
    /\ errChan' = "err"
    /\ UNCHANGED <<vars, main, outcome, shut, phpret, dockerWg, wpids, conf, stopVars>>

Record ==
    /\ main = "record"
    /\ \/ /\ errChan # "empty"
          /\ Leave(errChan)
          /\ errChan' = "empty"
          /\ UNCHANGED <<pidf, dockerWg>>
       \/ /\ errChan = "empty"
          /\ UNCHANGED errChan
          /\ \/ /\ ~IsRunning(pidf[Web])
                /\ WritePidFile(Web, Server)
                /\ Enter("workers")
                /\ dockerWg' = IF Docker \in conf.runners THEN 1 ELSE 0
             \/ Leave("err") /\ UNCHANGED <<pidf, dockerWg>>
    /\ UNCHANGED <<proc, parent, term, up, runnerVars, shut, phpret, wpids, conf, stopVars>>
-----------------------------------------------------------------------------
(***************************************************************************)
(* The workers.  One that is recorded as running is skipped, the docker    *)
(* one included, without releasing the barrier.                            *)
(***************************************************************************)
StartWorker(w) ==
    /\ main = "workers"
    /\ Check(w)
    /\ UNCHANGED serverVars

Up ==
    /\ main = "workers"
    /\ \A w \in Workers : pc[w] # "idle"
    /\ Enter("select")
    /\ UNCHANGED <<vars, shut, errChan, phpret, dockerWg, wpids, conf, stopVars>>

\* envs.GetEnv fails in the goroutine of the worker.
EnvError(w) ==
    /\ w \in Workers
    /\ pc[w] = "run"
    /\ errChan = "empty"
    /\ errChan' = "err"
    /\ Return(w, "err")
    /\ UNCHANGED <<pidVars, mode, boot, child, exit, sig, always, hook, event, stale,
                   main, outcome, shut, phpret, dockerWg, wpids, conf, stopVars>>

\* dockerWg.Wait(), for the workers other than docker compose itself.
Released(w) == w \in {Php, Docker} \/ dockerWg = 0

Done_Repeated(w) == exit[w] = "ok" /\ w = Docker

\* dockerWg.Done() is called by the SuccessHook, which removes itself.
Done(w) == HookRuns(w)

\* A pid that someone still holds in a list is not given out again.
Fresh(r) == \A p \in Pids : proc[p] = "free" /\ proc'[p] # "free" =>
                p \notin {wpids[f] : f \in Paths} \cup {spids[f] : f \in Paths}

\* Run with what the server adds; it ends with the action of server:start.
RunStep(r) ==
    /\ main # "exit"
    /\ \/ /\ NewRunner(r) \/ (Released(r) /\ EnterRun(r)) \/ (StartCmd(r) /\ Fresh(r))
             \/ FirstBootExit(r) \/ FirstBootTimer(r) \/ WriteCheck(r) \/ Write(r)
             \/ OnSignal(r) \/ Drain(r) \/ BackoffSignal(r) \/ BackoffTimer(r)
          /\ UNCHANGED serverVars
       \/ /\ OnExit(r)
          /\ dockerWg' = IF Done(r) THEN dockerWg - 1 ELSE dockerWg
          /\ UNCHANGED <<main, outcome, shut, errChan, phpret, wpids, conf, stopVars>>

\* The other goroutines of a runner.
RunnerWaits(r) == main # "exit" /\ CmdWait(r) /\ UNCHANGED serverVars
RunnerWatches(r) == main # "exit" /\ WatchEvent(r) /\ UNCHANGED serverVars

\* Run returned: StoppedChan is filled first, then errChan.
PhpStopped ==
    /\ Server \in up
    /\ phpret = "running"
    /\ pc[Php] = "done"
    /\ phpret' = "sending"
    /\ UNCHANGED <<vars, main, outcome, shut, errChan, dockerWg, wpids, conf, stopVars>>

PhpSends ==
    /\ Server \in up
    /\ phpret = "sending"
    /\ errChan = "empty"
    /\ errChan' = IF result[Php] = "ok" THEN "nil" ELSE "err"
    /\ phpret' = "sent"
    /\ UNCHANGED <<vars, main, outcome, shut, dockerWg, wpids, conf, stopVars>>
-----------------------------------------------------------------------------
(***************************************************************************)
(* The end of server:start.                                                *)
(***************************************************************************)
OnError ==
    /\ main = "select"
    /\ errChan # "empty"
    /\ Leave(errChan)
    /\ errChan' = "empty"
    /\ UNCHANGED <<vars, shut, phpret, dockerWg, wpids, conf, stopVars>>

OnShutdown ==
    /\ main = "select"
    /\ shut = "sending"
    /\ shut' = "received"
    /\ Enter("list")
    /\ UNCHANGED <<vars, errChan, phpret, dockerWg, wpids, conf, stopVars>>

WaitForWorkers ==
    /\ main = "list"
    /\ wpids' = AllWorkers
    /\ pidf' = Swept
    /\ Enter(IF Listed(AllWorkers) = {} THEN "stopped" ELSE "wait")
    /\ UNCHANGED <<proc, parent, term, up, runnerVars, shut, errChan, phpret, dockerWg, conf, stopVars>>

(***************************************************************************)
(* WaitForExit in the process that started the command: Wait returns once  *)
(* the command ended, and may reap it before cmd.Wait does, which then     *)
(* fails.  The pid file is removed in any case.                            *)
(***************************************************************************)
WaitForExit(f) ==
    /\ main = "wait"
    /\ wpids[f] # NoPid
    /\ wpids' = [wpids EXCEPT ![f] = NoPid]
    /\ RemovePidFile(f)
    /\ LET p == wpids[f] IN
         \/ /\ proc[p] = "free" \/ parent[p] = Nobody
            /\ UNCHANGED <<proc, parent, term, exit>>
         \/ /\ parent[p] \in Runners
            /\ exit' = [exit EXCEPT ![parent[p]] = "err"]
            /\ Reap(p)
    /\ UNCHANGED <<up, pc, mode, boot, child, sig, always, hook, event, stale, result,
                   main, outcome, shut, errChan, phpret, dockerWg, conf, stopVars>>

Waited ==
    /\ main = "wait"
    /\ Listed(wpids) = {}
    /\ RemovePidFile(Web)
    /\ Enter("stopped")
    /\ UNCHANGED <<proc, parent, term, up, runnerVars, shut, errChan, phpret, dockerWg, wpids, conf, stopVars>>

\* After 30 seconds WaitForExit gives up: waitForWorkers returns an error,
\* once PHP stopped.
WaitTimeout ==
    /\ main = "wait"
    /\ Listed(wpids) # {}
    /\ pidf' = [f \in Paths |-> IF wpids[f] # NoPid THEN NoPid ELSE pidf[f]]
    /\ outcome' = "err"
    /\ main' = "stopped"
    /\ UNCHANGED <<proc, parent, term, up, runnerVars, shut, errChan, phpret, dockerWg, wpids, conf, stopVars>>

Stopped_AfterSend ==
    /\ main = "stopped"
    /\ Php \in conf.runners => phpret = "sent"
    /\ Leave(IF outcome = "err" THEN "err" ELSE "success")
    /\ UNCHANGED <<vars, shut, errChan, phpret, dockerWg, wpids, conf, stopVars>>

Stopped_Early ==
    /\ main = "stopped"
    /\ Leave(IF outcome = "err" THEN "err" ELSE "success")
    /\ UNCHANGED <<vars, shut, errChan, phpret, dockerWg, wpids, conf, stopVars>>

Stopped ==
    /\ main = "stopped"
    /\ Php \in conf.runners => phpret \in {"sending", "sent"}
    /\ Leave(IF outcome = "err" THEN "err" ELSE "success")
    /\ UNCHANGED <<vars, shut, errChan, phpret, dockerWg, wpids, conf, stopVars>>

ServerExit ==
    /\ main = "exit"
    /\ HostExit(Server)
    /\ UNCHANGED serverVars
-----------------------------------------------------------------------------
(***************************************************************************)
(* A signal reaches the shutdown goroutine and the runners that are        *)
(* registered; before any is, it ends the process.                         *)
(***************************************************************************)
Deliver ==
    \/ /\ shut = "listening" \/ \E r \in Runners : Listening(r)
       /\ sig' = [r \in Runners |-> sig[r] \/ Listening(r)]
       /\ shut' = IF shut = "listening" THEN "sending" ELSE shut
       /\ UNCHANGED <<pidVars, pc, mode, boot, child, exit, always, hook, event, stale, result,
                      main, outcome>>
    \/ /\ shut # "listening" /\ \A r \in Runners : ~Listening(r)
       /\ HostExit(Server)
       /\ Leave("killed")
       /\ UNCHANGED shut

\* Control-C in the terminal of server:start.
Interrupt ==
    /\ Server \in up
    /\ shut = "listening"
    /\ Deliver
    /\ UNCHANGED <<errChan, phpret, dockerWg, wpids, conf, stopVars>>

(***************************************************************************)
(* server:stop.  Its WaitForExit goroutines run in a process that started  *)
(* none of the commands: Wait fails with ECHILD at once, and the pid file  *)
(* is removed.                                                             *)
(***************************************************************************)
StopList ==
    /\ stop = "idle"
    /\ spids' = [AllWorkers EXCEPT ![Web] = IF IsRunning(pidf[Web]) THEN pidf[Web] ELSE NoPid]
    /\ pidf' = Swept
    /\ swaits' = Listed(spids')
    /\ stop' = IF swaits' = {} THEN "done" ELSE "notify"
    /\ UNCHANGED <<proc, parent, term, up, runnerVars, mainVars>>

StopWaitForExit(f) ==
    /\ f \in swaits
    /\ swaits' = swaits \ {f}
    /\ RemovePidFile(f)
    /\ UNCHANGED <<proc, parent, term, up, runnerVars, mainVars, stop, spids>>

StopNotify ==
    /\ stop = "notify"
    /\ stop' = "kill"
    /\ IF spids[Web] = Server /\ Server \in up
       THEN Deliver
       ELSE /\ Terminate({spids[Web]})
            /\ UNCHANGED <<proc, parent, up, pidf, runnerVars, shut, main, outcome>>
    /\ UNCHANGED <<errChan, phpret, dockerWg, wpids, conf, spids, swaits>>

StopKill_Reread ==
    /\ stop = "kill"
    /\ stop' = "wait"
    /\ LET targets == {f \in Paths \ {Web} : spids[f] # NoPid /\ IsRunning(pidf[f])} IN
         /\ Terminate({pidf[f] : f \in targets})
         /\ pidf' = [f \in Paths |-> IF f \in targets THEN NoPid ELSE pidf[f]]
    /\ UNCHANGED <<proc, parent, up, runnerVars, mainVars, spids, swaits>>

\* The second loop: every worker of the list that runs is stopped.
StopKill ==
    /\ stop = "kill"
    /\ stop' = "wait"
    /\ LET targets == {f \in Paths \ {Web} : IsRunning(spids[f])} IN
         /\ Terminate({spids[f] : f \in targets})
         /\ pidf' = [f \in Paths |-> IF f \in targets THEN NoPid ELSE pidf[f]]
    /\ UNCHANGED <<proc, parent, up, runnerVars, mainVars, spids, swaits>>

StopDone ==
    /\ stop = "wait"
    /\ swaits = {}
    /\ stop' = "done"
    /\ UNCHANGED <<vars, mainVars, spids, swaits>>
-----------------------------------------------------------------------------
Main ==
    \/ AlreadyRunning \/ CleanupWebServerFiles \/ Setup
    \/ StartPhp \/ PhpFailed \/ PhpReady \/ StartHttp \/ Record
    \/ \E w \in Workers : StartWorker(w)
    \/ Up \/ OnError \/ OnShutdown \/ WaitForWorkers
    \/ \E f \in Paths : WaitForExit(f)
    \/ Waited \/ WaitTimeout \/ Stopped \/ ServerExit

Stop == StopList \/ StopNotify \/ StopKill \/ StopDone \/ \E f \in Paths : StopWaitForExit(f)

ServerNext ==
    \/ Main \/ PhpStopped \/ PhpSends \/ HttpError \/ Interrupt \/ Stop
    \/ \E r \in Runners : RunStep(r) \/ RunnerWaits(r) \/ RunnerWatches(r) \/ EnvError(r)
    \/ \E r \in Runners : main # "exit" /\ conf.edits /\ FileChange(r) /\ UNCHANGED serverVars
    \/ \E p \in Pids : (Exit(p) \/ InitReaps(p)) /\ UNCHANGED <<runnerVars, serverVars>>

ServerSpec == ServerInit /\ [][ServerNext]_allVars

(***************************************************************************)
(* Goroutines that can go on do so, the 30 seconds of WaitForExit elapse   *)
(* and commands that are told to end do.  Nothing is assumed of signals,   *)
(* of server:stop and of HTTP errors.                                      *)
(***************************************************************************)
ServerFairness ==
    /\ WF_allVars(Main)
    /\ WF_allVars(PhpStopped) /\ WF_allVars(PhpSends)
    /\ \A r \in Runners :
         /\ WF_allVars(RunStep(r)) /\ WF_allVars(RunnerWaits(r)) /\ WF_allVars(RunnerWatches(r))
         /\ SF_allVars((OnSignal(r) \/ BackoffSignal(r)) /\ UNCHANGED serverVars)
    /\ \A p \in Pids :
         WF_allVars(p \in term /\ Exit(p) /\ UNCHANGED <<runnerVars, serverVars>>)

FairServerSpec == ServerSpec /\ ServerFairness
-----------------------------------------------------------------------------
(***************************************************************************)
(* dockerWg counts 1 from its Add until the SuccessHook of docker compose  *)
(* ran, and 0 ever after: Done is called once (a second call panics).      *)
(***************************************************************************)
BarrierCounts ==
    Docker \in conf.runners /\ main \in {"workers", "select", "list", "wait", "stopped"} =>
        dockerWg = IF hook[Docker] = "fired" THEN 0 ELSE 1

(***************************************************************************)
(* When docker compose is configured, no worker has a command before       *)
(* `docker compose up --wait` succeeded.                                   *)
(***************************************************************************)
DockerFirst ==
    \A w \in Workers \ {Docker} :
        Docker \in conf.runners /\ child[w] # NoPid => hook[Docker] = "fired"

(***************************************************************************)
(* The barrier between docker compose and the workers, over restarts of    *)
(* docker compose and in whichever order the goroutines start.             *)
(***************************************************************************)
DockerBarrier == BarrierCounts /\ DockerFirst

(***************************************************************************)
(* Recovery after a crash: past cleanupWebServerFiles, every command that  *)
(* an earlier server left behind has ended or was told to, or is in the    *)
(* list of a server:stop that runs at the same time.                       *)
(***************************************************************************)
OrphansStopped ==
    main \notin {"check", "cleanup", "exit"} =>
        \A p \in Pids :
            parent[p] = Nobody /\ proc[p] = "run" => p \in term \cup {spids[f] : f \in Paths}

(***************************************************************************)
(* Once its second loop is over, server:stop has told every process of its *)
(* list to end, although its own WaitForExit goroutines, the server and    *)
(* the runners remove and write the pid files meanwhile.                   *)
(***************************************************************************)
StopReaches ==
    stop \in {"wait", "done"} =>
        /\ \A f \in Listed(spids) \ {Web} : proc[spids[f]] = "run" => spids[f] \in term
        /\ spids[Web] = Server => Server \notin up \/ shut # "listening"

(***************************************************************************)
(* server:start reports success only once the run of PHP is over and, when *)
(* it ended well, its command has ended or was told to (StoppedChan).      *)
(***************************************************************************)
PhpDown ==
    outcome = "success" /\ Php \in conf.runners =>
        /\ result[Php] # "none"
        /\ result[Php] = "ok" =>
             \A p \in LiveChildren(Php) : proc[p] = "run" => p \in term

(***************************************************************************)
(* A signal that also reached the runner of PHP ends the server, whatever  *)
(* the workers, the HTTP servers and server:stop do: errChan, StoppedChan, *)
(* shutdownCh and the waits never block each other.                        *)
(***************************************************************************)
SignalledShutdownEnds ==
    (shut = "sending" /\ (Php \in conf.runners => sig[Php])) ~> Server \notin up

(***************************************************************************)
(* "Shutting down! Waiting for all workers to be done.": a signal that the *)
(* shutdown goroutine received ends the server.                            *)
(***************************************************************************)
ShutdownEnds == (shut = "sending") ~> Server \notin up

(***************************************************************************)
(* "Stopped %d process(es) successfully": none of them runs.               *)
(***************************************************************************)
StopMeansStopped ==
    stop = "done" => \A f \in Listed(spids) : ~IsRunning(spids[f])
-----------------------------------------------------------------------------
(***************************************************************************)
(* The inductive invariant behind the safety properties: WaitInv,          *)
(* ControlInv and CleanReturn of the runners, and what follows.            *)
(***************************************************************************)
ServerTypeOK ==
    /\ TypeOK
    /\ main \in {"check", "cleanup", "setup", "php", "phpwait", "http", "record", "workers",
                 "select", "list", "wait", "stopped", "exit"}
    /\ outcome \in {"none", "already", "nil", "err", "success", "killed"}
    /\ shut \in {"none", "listening", "sending", "received"}
    /\ errChan \in {"empty", "nil", "err"}
    /\ phpret \in {"none", "running", "sending", "sent"}
    /\ dockerWg \in Int
    /\ wpids \in [Paths -> Pids \cup {NoPid}]
    /\ conf \in Scenarios
    /\ stop \in {"never", "idle", "notify", "kill", "wait", "done"}
    /\ spids \in [Paths -> Pids \cup Hosts \cup {NoPid}]
    /\ swaits \in SUBSET Paths

\* server:start has not written its own pid file, not started PHP.
Booting == main \in {"check", "cleanup", "setup", "php", "phpwait", "http", "record"}
BeforePhp == main \in {"check", "cleanup", "setup", "php"}

\* No runner is past its Check before the server gets to it, and a hook is
\* as it was made until then.
IdleInv ==
    \A r \in Runners :
        /\ (Booting /\ r # Php) \/ BeforePhp => pc[r] = "idle"
        /\ pc[r] = "idle" => hook[r] # "fired"
        /\ hook[r] # "none" <=> r \in Hooked
        /\ mode[r] = "attached"

\* Worker files never name the server; its own does once it was recorded.
NamesInv ==
    /\ \A f \in Paths \ {Web} : Server \notin {pidf[f], spids[f]}
    /\ Server \in {pidf[Web], spids[Web]} => ~Booting

\* A run that is done has a result; phpret waits for that of PHP, and the end
\* of server:start for phpret.
ResultInv ==
    /\ \A r \in Runners : pc[r] = "done" => result[r] # "none"
    /\ phpret \in {"sending", "sent"} /\ Php \in Runners => result[Php] # "none"
    /\ outcome = "success" /\ Php \in conf.runners => result[Php] # "none"

\* server:stop lists what runs before it waits for it, and what it listed and
\* told to end is not started again.
StopInv ==
    /\ stop \in {"never", "idle"} => spids = NoPids
    /\ swaits \subseteq Listed(spids)
    /\ stop \in {"kill", "wait", "done"} /\ spids[Web] = Server =>
         Server \notin up \/ shut # "listening"

\* What holds of the commands an earlier server left, while the server boots.
OrphanInv ==
    /\ main = "cleanup" => ~IsRunning(pidf[Web])
    /\ BeforePhp /\ stop \notin {"never", "idle"} =>
         \A f \in Paths : IsRunning(pidf[f]) => pidf[f] = spids[f]
    /\ main # "exit" => \A p \in Pids :
         parent[p] = Nobody /\ proc[p] = "run" =>
            \/ p \in term \cup {spids[f] : f \in Paths}
            \/ main \in {"check", "cleanup"} /\ \E f \in Paths : pidf[f] = p

\* A worker other than docker compose passed the barrier after the hook ran.
BarrierInv ==
    \A w \in Workers \ {Docker} :
        Docker \in conf.runners /\ Listening(w) => hook[Docker] = "fired"

ServerInv ==
    /\ WaitInv /\ ControlInv /\ CleanReturn
    /\ IdleInv /\ NamesInv /\ ResultInv /\ StopInv /\ OrphanInv /\ BarrierInv
    /\ StopReaches /\ DockerBarrier
=============================================================================
