------------------------------- MODULE Runner -------------------------------
(***************************************************************************)
(* local/runner.go: a Runner starts a command, records it in a pid file,   *)
(* and then waits for a signal, a file change or the end of the command.   *)
(*                                                                         *)
(* Each runner is a goroutine of a host process; `symfony run` has one     *)
(* runner, a web server one per worker.  pc names the statement of Run the *)
(* goroutine is blocked at or about to execute:                            *)
(*   idle    before the IsRunning check of the command that makes it       *)
(*   new     NewRunner            run     entry of Run                     *)
(*   loop    top of the loop      boot    the select of the first boot     *)
(*   check   first half of Write  write   second half of Write             *)
(*   select  the main select      drain   <-cmdExitChan after a restart    *)
(*   backoff the select of the 5 seconds delay                             *)
(*   done    Run returned         gone    the host process is dead         *)
(* exit stands for cmdExitChan and the goroutine that sends to it: "wait"  *)
(* while it is in cmd.Wait, then the status it offers, "none" once it is   *)
(* received.                                                               *)
(***************************************************************************)
EXTENDS PidFile

CONSTANTS Mode,      \* Runners -> the mode given to NewRunner
          Restart,   \* runners created with AlwaysRestartOnExit
          Hooked,    \* runners with the SuccessHook of docker compose
          Watched,   \* runners whose pid file has watched paths
          PathOf,    \* Runners -> Paths
          HostOf     \* Runners -> Hosts

Modes == {"once", "attached", "detached"}

ASSUME RunnerAssumption ==
    /\ Mode \in [Runners -> Modes]
    /\ Restart \subseteq Runners
    /\ Hooked \subseteq Runners
    /\ Watched \subseteq Runners
    /\ PathOf \in [Runners -> Paths]
    /\ HostOf \in [Runners -> Hosts]
    /\ \A r \in Restart \cup Hooked : Mode[r] = "attached"

VARIABLES pc, mode, boot, child, exit, sig, always, hook, event, stale, result

runnerVars == <<pc, mode, boot, child, exit, sig, always, hook, event, stale, result>>
vars == <<pidVars, runnerVars>>

Ended == {"done", "gone"}
PCs == {"idle", "new", "run", "loop", "boot", "check", "write", "select",
        "drain", "backoff"} \cup Ended

\* signal.Notify and inotify.Watch are registered before the loop is entered.
Listening(r) == pc[r] \notin {"idle", "new", "run"} \cup Ended

TypeOK ==
    /\ PidTypeOK
    /\ pc \in [Runners -> PCs]
    /\ mode \in [Runners -> Modes]
    /\ boot \in [Runners -> BOOLEAN]
    /\ child \in [Runners -> Pids \cup {NoPid}]
    /\ exit \in [Runners -> {"none", "wait"} \cup Zombie]
    /\ sig \in [Runners -> BOOLEAN]
    /\ always \in [Runners -> BOOLEAN]
    /\ hook \in [Runners -> {"none", "set", "fired"}]
    /\ event \in [Runners -> BOOLEAN]
    /\ stale \in [Runners -> BOOLEAN]
    /\ result \in [Runners -> {"none", "ok", "err"}]

Init ==
    /\ PidInit
    /\ pc = [r \in Runners |-> "idle"]
    /\ mode = Mode
    /\ boot = [r \in Runners |-> FALSE]
    /\ child = [r \in Runners |-> NoPid]
    /\ exit = [r \in Runners |-> "none"]
    /\ sig = [r \in Runners |-> FALSE]
    /\ always = [r \in Runners |-> r \in Restart]
    /\ hook = [r \in Runners |-> IF r \in Hooked THEN "set" ELSE "none"]
    /\ event = [r \in Runners |-> FALSE]
    /\ stale = [r \in Runners |-> FALSE]
    /\ result = [r \in Runners |-> "none"]

Goto(r, label) == pc' = [pc EXCEPT ![r] = label]

Return(r, res) ==
    /\ Goto(r, "done")
    /\ result' = [result EXCEPT ![r] = res]
-----------------------------------------------------------------------------
(***************************************************************************)
(* Before Run: the check that the command is not already running (made by  *)
(* `symfony run` and, for each worker, by the web server), and NewRunner,  *)
(* which removes the pid file of a command that cannot be found.           *)
(***************************************************************************)
Check(r) ==
    /\ pc[r] = "idle"
    /\ HostOf[r] \in up
    /\ IF IsRunning(pidf[PathOf[r]])
       THEN Return(r, "err")
       ELSE Goto(r, "new") /\ UNCHANGED result
    /\ UNCHANGED <<pidVars, mode, boot, child, exit, sig, always, hook, event, stale>>

NewRunner(r) ==
    /\ pc[r] = "new"
    /\ \/ Goto(r, "run") /\ UNCHANGED <<pidf, result>>
       \/ RemovePidFile(PathOf[r]) /\ Return(r, "err")
    /\ UNCHANGED <<proc, parent, term, up, mode, boot, child, exit, sig, always, hook, event, stale>>

(***************************************************************************)
(* A detached runner first moves to the background (module Reexec); when   *)
(* that fails without an exit status it goes on as if its mode was once.   *)
(* Opening the log file and watching the paths may fail.                   *)
(***************************************************************************)
EnterRun(r) ==
    /\ pc[r] = "run"
    /\ \/ /\ \E m \in Modes :
               /\ m = mode[r] \/ (mode[r] = "detached" /\ m = "once")
               /\ mode' = [mode EXCEPT ![r] = m]
               /\ boot' = [boot EXCEPT ![r] = (m # "once")]
          /\ Goto(r, "loop")
          /\ UNCHANGED result
       \/ Return(r, "err") /\ UNCHANGED <<mode, boot>>
    /\ UNCHANGED <<pidVars, child, exit, sig, always, hook, event, stale>>
-----------------------------------------------------------------------------
\* The BuildCmdHook left by the docker compose SuccessHook.
BuildCmdHook(r) == always' = [always EXCEPT ![r] = @ /\ hook[r] # "fired"]

AfterStart_NoWrite(r) == "select"

\* Where the loop goes once the command is started, outside of a first boot.
AfterStart(r) == IF mode[r] = "attached" THEN "check" ELSE "select"

StartCmd(r) ==
    /\ pc[r] = "loop"
    /\ BuildCmdHook(r)
    /\ \/ \E p \in Pids :
            /\ Spawn(p, r)
            /\ child' = [child EXCEPT ![r] = p]
            /\ exit' = [exit EXCEPT ![r] = "wait"]
            /\ stale' = [stale EXCEPT ![r] = FALSE]
            /\ Goto(r, IF boot[r] THEN "boot" ELSE AfterStart(r))
            /\ UNCHANGED result
       \/ Return(r, "err") /\ UNCHANGED <<proc, parent, term, child, exit, stale>>
    /\ UNCHANGED <<up, pidf, mode, boot, sig, hook, event>>

\* The goroutine cmdExitChan <- cmd.Wait().
CmdWait(r) ==
    /\ exit[r] = "wait"
    /\ parent[child[r]] = r
    /\ exit' = [exit EXCEPT ![r] = proc[child[r]]]
    /\ Reap(child[r])
    /\ UNCHANGED <<up, pidf, pc, mode, boot, child, sig, always, hook, event, stale, result>>

Received(r) == exit[r] \in Zombie

(***************************************************************************)
(* The first boot: only the exit of the command and the relief timer are   *)
(* listened to.  A status of 0 is sent again for the main select.          *)
(***************************************************************************)
FirstBootExit(r) ==
    /\ pc[r] = "boot"
    /\ Received(r)
    /\ IF exit[r] = "err"
       THEN /\ Return(r, "err")
            /\ exit' = [exit EXCEPT ![r] = "none"]
       ELSE Goto(r, "check") /\ UNCHANGED <<exit, result>>
    /\ UNCHANGED <<pidVars, mode, boot, child, sig, always, hook, event, stale>>

FirstBootTimer(r) ==
    /\ pc[r] = "boot"
    /\ Goto(r, "check")
    /\ UNCHANGED <<pidVars, mode, boot, child, exit, sig, always, hook, event, stale, result>>
-----------------------------------------------------------------------------
(***************************************************************************)
(* PidFile.Write: the file is loaded and its process tested, then the file *)
(* is written, which may fail.  Other processes take steps in between.     *)
(***************************************************************************)
WriteRefused(r) == IsRunning(pidf[PathOf[r]])

WriteCheck(r) ==
    /\ pc[r] = "check"
    /\ IF WriteRefused(r)
       THEN Return(r, "err")
       ELSE Goto(r, "write") /\ UNCHANGED result
    /\ UNCHANGED <<pidVars, mode, boot, child, exit, sig, always, hook, event, stale>>

\* The pid of the command when attached, of the daemon itself when detached.
RecordedPid(r) == IF mode[r] = "attached" THEN child[r] ELSE HostOf[r]

Write(r) ==
    /\ pc[r] = "write"
    /\ \/ /\ WritePidFile(PathOf[r], RecordedPid(r))
          /\ boot' = [boot EXCEPT ![r] = FALSE]
          /\ Goto(r, "select")
          /\ UNCHANGED result
       \/ Return(r, "err") /\ UNCHANGED <<pidf, boot>>
    /\ UNCHANGED <<proc, parent, term, up, mode, child, exit, sig, always, hook, event, stale>>
-----------------------------------------------------------------------------
OnSignal_NotForwarded(r) ==
    /\ pc[r] = "select"
    /\ sig[r]
    /\ sig' = [sig EXCEPT ![r] = FALSE]
    /\ Return(r, "ok")
    /\ UNCHANGED <<pidVars, mode, boot, child, exit, always, hook, event, stale>>

(***************************************************************************)
(* The main select.  A signal is forwarded to a command that has not been  *)
(* waited for yet, and Run returns without waiting for the command.        *)
(***************************************************************************)
OnSignal(r) ==
    /\ pc[r] = "select"
    /\ sig[r]
    /\ sig' = [sig EXCEPT ![r] = FALSE]
    /\ Terminate(IF Received(r) THEN {} ELSE {child[r]})
    /\ Return(r, IF Received(r) THEN "err" ELSE "ok")
    /\ UNCHANGED <<proc, parent, up, pidf, mode, boot, child, exit, always, hook, event, stale>>

OnRestart_NotTerminated(r) ==
    /\ pc[r] = "select"
    /\ Goto(r, "drain")
    /\ UNCHANGED <<pidVars, mode, boot, child, exit, sig, always, hook, stale, result>>

OnRestart(r) ==
    /\ pc[r] = "select"
    /\ Terminate(IF Received(r) THEN {} ELSE {child[r]})
    /\ Goto(r, "drain")
    /\ UNCHANGED <<proc, parent, up, pidf, mode, boot, child, exit, sig, always, hook, stale, result>>

Drain_Unwaited(r) ==
    /\ pc[r] = "drain"
    /\ exit' = [exit EXCEPT ![r] = "none"]
    /\ Goto(r, "loop")
    /\ UNCHANGED <<pidVars, mode, boot, child, sig, always, hook, event, stale, result>>

Drain(r) ==
    /\ pc[r] = "drain"
    /\ Received(r)
    /\ exit' = [exit EXCEPT ![r] = "none"]
    /\ Goto(r, "loop")
    /\ UNCHANGED <<pidVars, mode, boot, child, sig, always, hook, event, stale, result>>

Looping(r) == mode[r] # "once" \/ r \in Watched

\* The SuccessHook of docker compose asks for one restart, then is removed.
HookRuns(r) == exit[r] = "ok" /\ hook[r] = "set"
RestartsOnExit(r) == always[r] \/ HookRuns(r)

OnExit(r) ==
    /\ pc[r] = "select"
    /\ Received(r)
    /\ exit' = [exit EXCEPT ![r] = "none"]
    /\ hook' = [hook EXCEPT ![r] = IF HookRuns(r) THEN "fired" ELSE @]
    /\ always' = [always EXCEPT ![r] = RestartsOnExit(r)]
    /\ \/ /\ ~Looping(r) /\ exit[r] = "err"
          /\ Return(r, "err")
          /\ UNCHANGED pidf
       \/ /\ ~Looping(r) /\ exit[r] = "ok"
          /\ RemovePidFile(PathOf[r])
          /\ Return(r, "ok")
       \/ /\ Looping(r) /\ RestartsOnExit(r)
          /\ RemovePidFile(PathOf[r])
          /\ Goto(r, IF exit[r] = "err" THEN "backoff" ELSE "loop")
          /\ UNCHANGED result
       \/ /\ Looping(r) /\ ~RestartsOnExit(r)
          /\ Return(r, "ok")
          /\ UNCHANGED pidf
    /\ UNCHANGED <<proc, parent, term, up, mode, boot, child, sig, event, stale>>
-----------------------------------------------------------------------------
BackoffSignal_GoesOn(r) ==
    /\ pc[r] = "backoff"
    /\ sig[r]
    /\ sig' = [sig EXCEPT ![r] = FALSE]
    /\ Goto(r, "loop")
    /\ UNCHANGED <<pidVars, mode, boot, child, exit, always, hook, event, stale, result>>

BackoffTimer_NotReset(r) ==
    /\ pc[r] = "backoff"
    /\ sig[r]
    /\ Goto(r, "loop")
    /\ UNCHANGED <<pidVars, mode, boot, child, exit, sig, always, hook, event, stale, result>>

(***************************************************************************)
(* The delay after a failure of a command that always restarts.            *)
(***************************************************************************)
BackoffSignal(r) ==
    /\ pc[r] = "backoff"
    /\ sig[r]
    /\ sig' = [sig EXCEPT ![r] = FALSE]
    /\ Return(r, "ok")
    /\ UNCHANGED <<pidVars, mode, boot, child, exit, always, hook, event, stale>>

BackoffRestart(r) ==
    /\ pc[r] = "backoff"
    /\ Goto(r, "loop")
    /\ UNCHANGED <<pidVars, mode, boot, child, exit, sig, always, hook, stale, result>>

BackoffTimer(r) ==
    /\ pc[r] = "backoff"
    /\ Goto(r, "loop")
    /\ UNCHANGED <<pidVars, mode, boot, child, exit, sig, always, hook, event, stale, result>>
-----------------------------------------------------------------------------
(***************************************************************************)
(* File changes.  Events wait in a buffered channel; the goroutine that    *)
(* reads it offers a restart without blocking, so an event that finds the  *)
(* runner in neither select is lost.                                       *)
(***************************************************************************)
FileChange(r) ==
    /\ r \in Watched
    /\ Listening(r)
    /\ event' = [event EXCEPT ![r] = TRUE]
    /\ stale' = [stale EXCEPT ![r] = TRUE]
    /\ UNCHANGED <<pidVars, pc, mode, boot, child, exit, sig, always, hook, result>>

AtSelect(r) == pc[r] \in {"select", "backoff"}

WatchEvent(r) ==
    /\ event[r]
    /\ Listening(r)
    /\ event' = [event EXCEPT ![r] = FALSE]
    /\ \/ OnRestart(r)
       \/ BackoffRestart(r)
       \/ /\ ~AtSelect(r)
          /\ UNCHANGED <<pidVars, pc, mode, boot, child, exit, sig, always, hook, stale, result>>
-----------------------------------------------------------------------------
(***************************************************************************)
(* The environment.  A signal sent to a host reaches every channel that is *)
(* registered in it; before any is, it kills the host, as a crash does.    *)
(* The commands of a dead host are adopted by init.                        *)
(***************************************************************************)
SignalHost(h) ==
    /\ h \in up
    /\ sig' = [r \in Runners |-> sig[r] \/ (HostOf[r] = h /\ Listening(r))]
    /\ UNCHANGED <<pidVars, pc, mode, boot, child, exit, always, hook, event, stale, result>>

HostExit(h) ==
    /\ h \in up
    /\ up' = up \ {h}
    /\ parent' = [p \in Pids |->
                    IF parent[p] \in Runners /\ HostOf[parent[p]] = h THEN Nobody ELSE parent[p]]
    /\ pc' = [r \in Runners |-> IF HostOf[r] = h /\ pc[r] # "done" THEN "gone" ELSE pc[r]]
    /\ exit' = [r \in Runners |-> IF HostOf[r] = h THEN "none" ELSE exit[r]]
    /\ UNCHANGED <<proc, term, pidf, mode, boot, child, sig, always, hook, event, stale, result>>

Process(p) ==
    \/ Exit(p) /\ UNCHANGED runnerVars
    \/ ForeignStart(p) /\ UNCHANGED runnerVars
    \/ InitReaps(p) /\ UNCHANGED runnerVars

\* What the goroutine of Run does once its command line was checked.
Run(r) ==
    \/ NewRunner(r) \/ EnterRun(r) \/ StartCmd(r)
    \/ FirstBootExit(r) \/ FirstBootTimer(r) \/ WriteCheck(r) \/ Write(r)
    \/ OnSignal(r) \/ Drain(r) \/ OnExit(r) \/ BackoffSignal(r) \/ BackoffTimer(r)

Step(r) == Check(r) \/ Run(r) \/ CmdWait(r) \/ WatchEvent(r)

Next ==
    \/ \E r \in Runners : Step(r) \/ FileChange(r)
    \/ \E h \in Hosts : SignalHost(h) \/ HostExit(h)
    \/ \E p \in Pids : Process(p)

Spec == Init /\ [][Next]_vars

\* Processes that received a terminating signal end, the others may.
TerminatedExit(p) == p \in term /\ Exit(p) /\ UNCHANGED runnerVars

(***************************************************************************)
(* The three goroutines of a runner go on when they can, timers fire, and  *)
(* commands end when they are told to.  Go picks at random among the ready *)
(* cases of a select, so a signal that is ready again and again is         *)
(* received: strong fairness.  Nothing is assumed of file changes, signals *)
(* and crashes.                                                            *)
(***************************************************************************)
Fairness ==
    /\ \A r \in Runners :
         /\ WF_vars(Run(r)) /\ WF_vars(CmdWait(r)) /\ WF_vars(WatchEvent(r))
         /\ SF_vars(OnSignal(r) \/ BackoffSignal(r))
    /\ \A p \in Pids : WF_vars(TerminatedExit(p))

FairSpec == Spec /\ Fairness
-----------------------------------------------------------------------------
(***************************************************************************)
(* A runner implements Supervision.                                        *)
(***************************************************************************)
Promise == INSTANCE Supervision WITH
    live <- [r \in Runners |-> LiveChildren(r)],
    over <- {r \in Runners : pc[r] \in Ended}

\* Run never has two commands to reap and starts none after it returned
\* (the loop of Run, its returns and its <-cmdExitChan).
Supervises == Promise!Spec

\* No other runner uses the pid file of r.
Sole(r) == \A q \in Runners \ {r} : PathOf[q] # PathOf[r]

(***************************************************************************)
(* A runner never has two commands that are not reaped: every path back to *)
(* the top of the loop of Run has received from cmdExitChan first.         *)
(***************************************************************************)
OneChild == \A r \in Runners : \A p, q \in LiveChildren(r) : p = q

(***************************************************************************)
(* While a looping runner is past its first boot, its pid file names what  *)
(* server:stop must signal: the current command, across restarts, or the   *)
(* daemon.  (pidFile.Write in Run is skipped when neither firstBoot nor    *)
(* attached; RemovePidFile is called on some of the paths only.)           *)
(***************************************************************************)
Recorded ==
    \A r \in Runners :
        Sole(r) /\ mode[r] # "once" /\ pc[r] \in {"select", "drain"}
            => pidf[PathOf[r]] = RecordedPid(r)

(***************************************************************************)
(* When Run returns nil, the command has ended or was told to: no path     *)
(* that reports success leaves a command nobody will stop.                 *)
(***************************************************************************)
CleanReturn ==
    \A r \in Runners : result[r] = "ok" =>
        \A p \in LiveChildren(r) : proc[p] = "run" => p \in term

(***************************************************************************)
(* The restart of a command that exited cannot be refused by Write because *)
(* of the pid file the runner itself left behind, even if the system gives *)
(* the old pid to another process: OnExit removes the file first.          *)
(***************************************************************************)
RestartNotRefused ==
    \A r \in Runners :
        /\ Sole(r) /\ r \notin Watched /\ mode[r] = "attached"
        /\ ~boot[r] /\ pc[r] = "check"
        => ~WriteRefused(r)

(***************************************************************************)
(* A signal received by a host ends every runner that was in its loop,     *)
(* whatever it was doing, the two selects that ignore signals (first boot  *)
(* and restart) included.                                                  *)
(***************************************************************************)
SignalEndsRun ==
    \A r \in Runners : (sig[r] /\ pc[r] \notin Ended) ~> pc[r] \in Ended

(***************************************************************************)
(* A command with AlwaysRestartOnExit (the PHP server) that is down comes  *)
(* back, or its runner ends.                                               *)
(***************************************************************************)
ComesBack ==
    \A r \in Restart :
        (pc[r] \in {"select", "drain", "backoff"} /\ LiveChildren(r) = {})
            ~> (LiveChildren(r) # {} \/ pc[r] \in Ended)

(***************************************************************************)
(* The comments on RunnerModeLoopAttached and RunnerModeLoopDetached:      *)
(* "restart automatically in case of an error except if the first run      *)
(* failed".                                                                *)
(***************************************************************************)
RestartsAfterError ==
    \A r \in Runners :
        (mode[r] # "once" /\ pc[r] = "select" /\ exit[r] = "err")
            ~> (pc[r] \in {"loop", "gone"} \/ sig[r])

(***************************************************************************)
(* --watch: "Restart command when some change happens".  A change that     *)
(* finds the runner in one of its selects is applied: the command is       *)
(* started again after it, or the run ends.  (restartChan is not buffered: *)
(* a change that finds the runner elsewhere is dropped.)                   *)
(***************************************************************************)
ChangeRestarts ==
    \A r \in Watched :
        (event[r] /\ AtSelect(r)) ~> (~stale[r] \/ pc[r] \in Ended)
-----------------------------------------------------------------------------
(***************************************************************************)
(* The inductive invariant behind the safety properties.                   *)
(***************************************************************************)
\* A process that a runner has to reap is the one its cmd.Wait waits for.
WaitInv ==
    /\ \A p \in Pids : parent[p] \in Runners =>
         /\ proc[p] # "free"
         /\ child[parent[p]] = p
         /\ exit[parent[p]] = "wait"
    /\ \A r \in Runners : exit[r] = "wait" => child[r] \in Pids /\ parent[child[r]] = r

\* Where Run has no command, and where it has one.
ControlInv ==
    \A r \in Runners :
        /\ pc[r] \in {"idle", "new", "run", "loop", "backoff"} => exit[r] = "none"
        /\ pc[r] \in {"check", "write", "boot", "select", "drain"} => child[r] \in Pids
        /\ pc[r] = "boot" => boot[r]
        /\ result[r] # "none" => pc[r] = "done"

\* Only attached runners restart on exit, only watched ones restart on change.
KindInv ==
    \A r \in Runners :
        /\ always[r] \/ hook[r] # "none" \/ pc[r] = "backoff" => mode[r] = "attached"
        /\ event[r] \/ pc[r] = "drain" => r \in Watched

\* What the pid file of a runner that does not share it holds.
FileInv ==
    \A r \in Runners : Sole(r) =>
        /\ mode[r] = "attached" /\ pc[r] \in {"select", "drain"}
             => pidf[PathOf[r]] = child[r]
        /\ mode[r] = "detached" /\ ~boot[r] /\ pc[r] \in {"loop", "select", "drain"}
             => pidf[PathOf[r]] = HostOf[r]
        /\ mode[r] = "detached" /\ pc[r] \in {"select", "drain"} => ~boot[r]
        /\ mode[r] = "attached" /\ r \notin Watched /\ ~boot[r] /\ pc[r] \in {"loop", "check", "backoff"}
             => pidf[PathOf[r]] = NoPid

IInv == WaitInv /\ ControlInv /\ KindInv /\ FileInv /\ CleanReturn
=============================================================================
