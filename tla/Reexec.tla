------------------------------- MODULE Reexec -------------------------------
(***************************************************************************)
(* reexec/reexec.go: a command goes to the background by starting itself   *)
(* again.  The parent (Background) creates a status file, watches it and   *)
(* waits; the child (NotifyForeground) writes its progress to the file and *)
(* removes it once it is up.  The parent then returns to the shell.  When  *)
(* Background fails without an exit status of the child, the command goes  *)
(* on in the parent, in the foreground.                                    *)
(*                                                                         *)
(* The file system may drop or coalesce the events of the file.            *)
(***************************************************************************)
EXTENDS Naturals, Sequences

CONSTANTS Statuses,  \* notifications of the child before it is up
          Buffer     \* capacity of the channel of events

ASSUME ReexecAssumption == Statuses \in Nat \ {0} /\ Buffer \in Nat \ {0}

VARIABLES par,         \* the parent: before, in, or after Background
          ret,         \* what Background returned
          childAlive,  \* the variable of Background
          sigChan,     \* a signal the parent did not handle yet
          file,        \* the status file
          watcherChan, \* its events
          statusCh,    \* the goroutine that waits for the child
          child,       \* the child process
          killed,      \* it was sent SIGKILL
          cpc,         \* what the child does
          sent,        \* notifications it began
          env,         \* REEXEC_* are set in the environment of the parent
          stdio,       \* the parent's standard streams
          fg           \* the parent goes on in the foreground

parentVars == <<par, ret, childAlive, env, stdio, fg>>
childVars == <<child, killed, cpc, sent>>
vars == <<parentVars, childVars, sigChan, file, watcherChan, statusCh>>

Events == {"write", "remove"}

TypeOK ==
    /\ par \in {"start", "wait", "returned"}
    /\ ret \in {"none", "nil", "exit", "error"}
    /\ childAlive \in BOOLEAN
    /\ sigChan \in {"empty", "full"}
    /\ file \in {"absent", "empty", "written"}
    /\ watcherChan \in Seq(Events)
    /\ statusCh \in {"none", "wait", "offer"}
    /\ child \in {"none", "run", "zombie", "reaped"}
    /\ killed \in BOOLEAN
    /\ cpc \in {"none", "notify", "writing", "up"}
    /\ sent \in 0 .. Statuses
    /\ env \in BOOLEAN
    /\ stdio \in {"open", "closed"}
    /\ fg \in {"no", "boot", "up"}

Init ==
    /\ par = "start" /\ ret = "none"
    /\ childAlive = FALSE
    /\ sigChan = "empty"
    /\ file = "absent" /\ watcherChan = <<>>
    /\ statusCh = "none"
    /\ child = "none" /\ killed = FALSE /\ cpc = "none" /\ sent = 0
    /\ env = FALSE
    /\ stdio = "open" /\ fg = "no"
-----------------------------------------------------------------------------
\* The deferred os.Remove; the callers go on in the foreground on an error
\* that is not an exit status.
Return(how) ==
    /\ par' = "returned"
    /\ ret' = how
    /\ fg' = IF how = "error" THEN "boot" ELSE "no"
    /\ file' = "absent"
    /\ UNCHANGED stdio

\* Up to the loop of Background.
Respawn ==
    /\ par = "start"
    /\ par' = "wait"
    /\ file' = "empty"
    /\ env' = TRUE
    /\ child' = "run" /\ cpc' = "notify"
    /\ statusCh' = "wait"
    /\ UNCHANGED <<ret, childAlive, stdio, fg, killed, sent, sigChan, watcherChan>>

\* The file or its watch cannot be made, or the child cannot be started; the
\* environment is set in between.
RespawnError ==
    /\ par = "start"
    /\ env' \in BOOLEAN
    /\ Return("error")
    /\ UNCHANGED <<childAlive, childVars, sigChan, watcherChan, statusCh>>

\* A signal that cannot be sent (the child was waited for) ends Background.
OnSignal ==
    /\ par = "wait"
    /\ sigChan # "empty"
    /\ sigChan' = "empty"
    /\ IF child = "reaped"
       THEN Return("error")
       ELSE UNCHANGED <<par, ret, fg, file, stdio>>
    /\ UNCHANGED <<childAlive, env, childVars, watcherChan, statusCh>>

OnEvent_AnyIsUp ==
    /\ par = "wait"
    /\ watcherChan # <<>>
    /\ watcherChan' = Tail(watcherChan)
    /\ Return("nil")
    /\ UNCHANGED <<childAlive, env, childVars, sigChan, statusCh>>

OnEvent ==
    /\ par = "wait"
    /\ watcherChan # <<>>
    /\ watcherChan' = Tail(watcherChan)
    /\ IF Head(watcherChan) = "remove"
       THEN Return("nil") /\ UNCHANGED childAlive
       ELSE childAlive' = TRUE /\ UNCHANGED <<par, ret, fg, file, stdio>>
    /\ UNCHANGED <<env, childVars, sigChan, statusCh>>

OnStatus ==
    /\ par = "wait"
    /\ statusCh = "offer"
    /\ statusCh' = "none"
    /\ Return("exit")
    /\ UNCHANGED <<childAlive, env, childVars, sigChan, watcherChan>>

OnTick_NoPoll ==
    /\ par = "wait"
    /\ childAlive' = (childAlive \/ file = "written")
    /\ IF ~childAlive'
       THEN Return("error") /\ killed' = (child # "reaped")
       ELSE UNCHANGED <<par, ret, fg, file, stdio, killed>>
    /\ UNCHANGED <<env, child, cpc, sent, sigChan, watcherChan, statusCh>>

OnTick_NoKill ==
    /\ par = "wait"
    /\ childAlive' = (childAlive \/ file = "written")
    /\ \/ file = "absent" /\ Return("nil")
       \/ file # "absent" /\ ~childAlive' /\ Return("error")
       \/ file # "absent" /\ childAlive' /\ UNCHANGED <<par, ret, fg, file, stdio>>
    /\ UNCHANGED <<env, childVars, sigChan, watcherChan, statusCh>>

\* The ticker: the file is polled, and a child that never wrote is killed.
OnTick ==
    /\ par = "wait"
    /\ childAlive' = (childAlive \/ file = "written")
    /\ \/ /\ file = "absent"
          /\ Return("nil") /\ UNCHANGED killed
       \/ /\ file # "absent" /\ ~childAlive'
          /\ Return("error") /\ killed' = (child # "reaped")
       \/ /\ file # "absent" /\ childAlive'
          /\ UNCHANGED <<par, ret, fg, file, stdio, killed>>
    /\ UNCHANGED <<env, child, cpc, sent, sigChan, watcherChan, statusCh>>

\* statusCh <- the result of p.Wait().
WaitChild ==
    /\ statusCh = "wait"
    /\ child = "zombie"
    /\ child' = "reaped"
    /\ statusCh' = "offer"
    /\ UNCHANGED <<parentVars, killed, cpc, sent, sigChan, file, watcherChan>>
-----------------------------------------------------------------------------
\* An event reaches the channel, or is lost: dropped by the system, or
\* because the channel is full.
Emit(e) ==
    \/ Len(watcherChan) < Buffer /\ watcherChan' = Append(watcherChan, e)
    \/ UNCHANGED watcherChan

Active == child = "run" /\ ~killed

(***************************************************************************)
(* NotifyForeground in the child.  os.WriteFile truncates or creates the   *)
(* file, then writes it: two steps.  The last notification is UP.          *)
(***************************************************************************)
NotifyTruncates ==
    /\ Active /\ cpc = "notify" /\ sent < Statuses
    /\ cpc' = "writing"
    /\ sent' = sent + 1
    /\ file' = "empty"
    /\ IF file = "written" THEN Emit("write") ELSE UNCHANGED watcherChan
    /\ UNCHANGED <<parentVars, child, killed, sigChan, statusCh>>

NotifyWrites ==
    /\ Active /\ cpc = "writing"
    /\ cpc' = "notify"
    /\ file' = "written"
    /\ Emit("write")
    /\ UNCHANGED <<parentVars, child, killed, sent, sigChan, statusCh>>

NotifyUp ==
    /\ Active /\ cpc = "notify" /\ sent = Statuses
    /\ cpc' = "up"
    /\ file' = "absent"
    /\ Emit("remove")
    /\ UNCHANGED <<parentVars, child, killed, sent, sigChan, statusCh>>

\* The child may fail, or be terminated, at any point.
ChildExit ==
    /\ child = "run"
    /\ child' = "zombie"
    /\ UNCHANGED <<parentVars, killed, cpc, sent, sigChan, file, watcherChan, statusCh>>

\* Signals other than SIGCHLD, the preemption signals of Go included.
Signal ==
    /\ par = "wait"
    /\ sigChan = "empty"
    /\ sigChan' = "full"
    /\ UNCHANGED <<parentVars, childVars, file, watcherChan, statusCh>>

(***************************************************************************)
(* The parent in the foreground: server:start goes on to the same calls of *)
(* NotifyForeground, and IsChild only looks at the environment.            *)
(***************************************************************************)
ForegroundNotify ==
    /\ fg = "boot"
    /\ env
    /\ file' = "written"
    /\ UNCHANGED <<parentVars, childVars, sigChan, watcherChan, statusCh>>

ForegroundUp ==
    /\ fg = "boot"
    /\ fg' = "up"
    /\ env' = FALSE
    /\ IF env
       THEN stdio' = "closed" /\ file' = "absent"
       ELSE UNCHANGED <<stdio, file>>
    /\ UNCHANGED <<par, ret, childAlive, childVars, sigChan, watcherChan, statusCh>>
-----------------------------------------------------------------------------
Background == Respawn \/ RespawnError \/ OnSignal \/ OnEvent \/ OnStatus \/ OnTick
NotifyForeground == NotifyTruncates \/ NotifyWrites \/ NotifyUp

Next ==
    \/ Background \/ WaitChild \/ NotifyForeground \/ ChildExit \/ Signal
    \/ ForegroundNotify \/ ForegroundUp

Spec == Init /\ [][Next]_vars

(***************************************************************************)
(* The ticker ticks, the goroutine that waits for the child and the select *)
(* go on, and the child, which has finitely many notifications, gets on    *)
(* with them or ends.  Events may all be lost.                             *)
(***************************************************************************)
FairSpec ==
    /\ Spec
    /\ WF_vars(Respawn) /\ WF_vars(OnTick) /\ WF_vars(OnStatus) /\ WF_vars(WaitChild)
    /\ WF_vars(NotifyForeground)

(***************************************************************************)
(* Background returns nil, and the user gets the prompt back, only if the  *)
(* child is up.                                                            *)
(***************************************************************************)
NilMeansUp == ret = "nil" => cpc = "up"

(***************************************************************************)
(* The command never goes on in the parent, or reports a status, while a   *)
(* child it did not kill still runs: there are not two servers.            *)
(***************************************************************************)
NotTwice == ret \in {"exit", "error"} => child # "run" \/ killed

(***************************************************************************)
(* The status file does not survive the handshake: it is gone when         *)
(* Background has returned, whoever wrote last (the deferred Remove).      *)
(***************************************************************************)
FileRemoved == par = "returned" /\ fg # "boot" => file = "absent"

(***************************************************************************)
(* Background returns even if every event of the file is lost (the poll in *)
(* the ticker's case).                                                     *)
(***************************************************************************)
ParentReturns == par = "wait" ~> par = "returned"

(***************************************************************************)
(* "Continue in foreground": the parent keeps its terminal.                *)
(***************************************************************************)
ForegroundKeepsStdio == fg = "up" => stdio = "open"

-----------------------------------------------------------------------------
(***************************************************************************)
(* The inductive invariant.                                                *)
(***************************************************************************)
\* While the parent waits, only UP removes the file or emits its removal.
UpInv ==
    /\ \A i \in 1 .. Len(watcherChan) : watcherChan[i] = "remove" => cpc = "up"
    /\ par = "wait" /\ file = "absent" => cpc = "up"
    /\ cpc = "up" /\ par # "returned" => file = "absent"

\* Who may still touch the file after Background returned.
ChildInv ==
    /\ par = "start" => child = "none" /\ ret = "none" /\ fg = "no" /\ ~killed
    /\ par = "wait" => child # "none" /\ ret = "none" /\ fg = "no" /\ ~killed
    /\ par = "returned" => ret # "none"
    /\ ret = "none" => fg = "no"
    /\ ret # "none" => par = "returned"
    /\ fg # "no" <=> ret = "error"
    /\ fg = "boot" /\ ~env => file = "absent"
    /\ statusCh = "offer" => child = "reaped"
    /\ child = "none" => cpc = "none" /\ statusCh = "none"

IInv == UpInv /\ ChildInv /\ NilMeansUp /\ NotTwice /\ FileRemoved
=============================================================================
