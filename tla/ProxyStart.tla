----------------------------- MODULE ProxyStart -----------------------------
(***************************************************************************)
(* proxy:start and proxy:stop (commands/local_proxy_start.go).  There is   *)
(* one pid file for the proxy of a user and no lock on it: what keeps two  *)
(* proxies apart is the port that only one process can listen on.          *)
(***************************************************************************)
CONSTANTS Starts,      \* processes that execute proxy:start past reexec.Background
          Foreground,  \* the ones that stay in the foreground
          Unset

VARIABLES st,       \* Starts -> where the command is
          bind,     \* Starts -> what ListenAndServe did
          pidfile,  \* the process that the file names
          late,     \* processes that went on before ListenAndServe succeeded
          stop      \* [pc, pid] of a proxy:stop

startVars == <<st, bind, pidfile, late, stop>>

Gone == {"idle", "already", "failed", "done"}

Alive(s) == s \in Starts /\ st[s] \notin Gone

StartTypeOK ==
    /\ st \in [Starts -> Gone \cup {"boot", "select", "check", "write", "up", "end", "exit"}]
    /\ bind \in [Starts -> {"no", "bound", "failed"}]
    /\ pidfile \in Starts \cup {Unset} /\ late \subseteq Starts
    /\ stop.pc \in {"idle", "kill", "remove"} /\ stop.pid \in Starts \cup {Unset}

StartInit ==
    /\ st = [s \in Starts |-> "idle"]
    /\ bind = [s \in Starts |-> "no"]
    /\ pidfile = Unset /\ late = {}
    /\ stop = [pc |-> "idle", pid |-> Unset]

At(s, from, to) == st[s] = from /\ st' = [st EXCEPT ![s] = to]

Begin(s) ==
    /\ At(s, "idle", IF Alive(pidfile) THEN "already" ELSE "boot")
    /\ UNCHANGED <<bind, pidfile, late, stop>>

\* The certificate authority, the log file and the configuration.
Boot(s) ==
    /\ \E to \in {"select", "failed"} : At(s, "boot", to)
    /\ UNCHANGED <<bind, pidfile, late, stop>>

\* The goroutine that calls ListenAndServe
Listen(s) ==
    /\ st[s] \in {"select", "check", "write", "up"} /\ bind[s] = "no"
    /\ bind' = [bind EXCEPT ![s] =
         IF \E t \in Starts : Alive(t) /\ bind[t] = "bound" THEN "failed" ELSE "bound"]
    /\ UNCHANGED <<st, pidfile, late, stop>>

OnListenError_Ignored(s) ==
    /\ bind[s] = "failed" /\ At(s, "select", "check")
    /\ UNCHANGED <<bind, pidfile, late, stop>>

OnListenError(s) ==
    /\ bind[s] = "failed" /\ At(s, "select", "failed")
    /\ UNCHANGED <<bind, pidfile, late, stop>>

\* Two seconds without an error count as success.
Timer(s) ==
    /\ At(s, "select", "check")
    /\ late' = IF bind[s] = "bound" THEN late ELSE late \cup {s}
    /\ UNCHANGED <<bind, pidfile, stop>>

WriteChecks(s) ==
    /\ At(s, "check", IF Alive(pidfile) THEN "failed" ELSE "write")
    /\ UNCHANGED <<bind, pidfile, late, stop>>

WriteRecord(s) ==
    /\ At(s, "write", "up") /\ pidfile' = s
    /\ UNCHANGED <<bind, late, stop>>

\* A signal once the handler is set; before that it kills, as kill -9 does.
Shutdown(s) ==
    /\ At(s, "up", "end")
    /\ UNCHANGED <<bind, pidfile, late, stop>>

Killed(s) ==
    /\ Alive(s) /\ st' = [st EXCEPT ![s] = "done"]
    /\ UNCHANGED <<bind, pidfile, late, stop>>

\* The deferred RemovePidFile of a proxy in the foreground
Deferred(s) ==
    /\ At(s, "end", "exit")
    /\ pidfile' = IF s \in Foreground THEN Unset ELSE pidfile
    /\ UNCHANGED <<bind, late, stop>>

ProcessExit(s) ==
    /\ At(s, "exit", "done")
    /\ UNCHANGED <<bind, pidfile, late, stop>>

\* proxy:stop.  The signal that it sends is acted upon by Shutdown or Killed.
StopReads ==
    /\ stop.pc = "idle" /\ Alive(pidfile)
    /\ stop' = [pc |-> "kill", pid |-> pidfile]
    /\ UNCHANGED <<st, bind, pidfile, late>>

StopKills ==
    /\ stop.pc = "kill" /\ stop' = [stop EXCEPT !.pc = "remove"]
    /\ UNCHANGED <<st, bind, pidfile, late>>

StopRemoves ==
    /\ stop.pc = "remove" /\ stop' = [pc |-> "idle", pid |-> Unset]
    /\ pidfile' = Unset
    /\ UNCHANGED <<st, bind, late>>

StartNext ==
    \/ \E s \in Starts :
         \/ Begin(s) \/ Boot(s) \/ Listen(s) \/ OnListenError(s) \/ Timer(s) \/ WriteChecks(s)
         \/ WriteRecord(s) \/ Shutdown(s) \/ Killed(s) \/ Deferred(s) \/ ProcessExit(s)
    \/ StopReads \/ StopKills \/ StopRemoves
-----------------------------------------------------------------------------
(***************************************************************************)
(* Two proxies are never both started, though the check of the pid file    *)
(* and its write are far apart: the second one fails to listen.  Only a    *)
(* proxy that needs more than the two seconds of the timer escapes.        *)
(***************************************************************************)
OneProxy ==
    \A s, t \in Starts : st[s] = "up" /\ st[t] = "up" /\ s # t => late # {}

(***************************************************************************)
(* A proxy in the foreground that ends removes its own record, never the   *)
(* one of a proxy that was started meanwhile: that one waits for the port. *)
(***************************************************************************)
RemovesOwnRecord ==
    [][\A s \in Starts : Deferred(s) /\ s \in Foreground /\ late' = {}
         => pidfile \in {s, Unset}]_startVars
=============================================================================
