------------------------------- MODULE Tailer -------------------------------
(***************************************************************************)
(* logs.Tailer, which follows the logs of the server, of the workers and   *)
(* of the application.  Goroutines: Watch itself; the dispatcher, which    *)
(* receives pid files on an unbuffered channel and follows each log once;  *)
(* the watcher of the directory of workers, whose channel holds one event  *)
(* (inotify drops the events that do not fit); one watcher per             *)
(* application log.  Workers write their pid files meanwhile: a file       *)
(* exists, and its event is sent, before it has its content.               *)
(***************************************************************************)
EXTENDS Integers, FiniteSets

CONSTANTS
    Workers, AppLogs, NoFile,
    FlagSets    \* which logs the options ask for

\* seenDirs is keyed by path: pid files and application logs are different files.
ASSUME FilesAssumption == AppLogs \intersect (Workers \union {"server", "php"}) = {}

VARIABLES
    tlr,        \* where the goroutines are
    pidFile,    \* pidFile[w]: "none", "empty" or "complete"
    app,        \* app[a]: the channel and the goroutine of application log a
    seen,       \* seenDirs
    follow,     \* follow[f]: how many goroutines tail the log of f
    lost        \* workers whose event was dropped, or read too early

tailVars == <<tlr, pidFile, app, seen, follow, lost>>

\* "php" is the pid file that server:start adds.
LogFiles == Workers \union AppLogs \union {"server", "php"}

TailTypeOK ==
    /\ tlr.watch \in {"off", "server", "watch", "list", "send", "app", "done", "failed"}
    /\ tlr.todo \subseteq Workers /\ tlr.flags \subseteq {"server", "workers", "app"}
    /\ tlr.watcher \in {"wait", "load", "send"} /\ tlr.watching \in BOOLEAN
    /\ {tlr.chan, tlr.event} \subseteq Workers \union {NoFile} /\ tlr.php \in {"new", "sent"}
    /\ pidFile \in [Workers -> {"none", "empty", "complete"}]
    /\ seen \subseteq LogFiles /\ lost \subseteq Workers
    /\ follow \in [LogFiles -> 0 .. 2]
    /\ app \in [AppLogs -> [chan : 0 .. 1, state : {"wait", "store"}, sent : BOOLEAN]]

\* Options leave out the logs of the server, of the workers or of the
\* application; some workers run already.
TailInit(at) ==
    /\ pidFile \in [Workers -> IF at = "off" THEN {"none"} ELSE {"none", "empty", "complete"}]
    /\ \E flags \in IF at = "off" THEN {{}} ELSE FlagSets :
         tlr = [watch |-> at, flags |-> flags, todo |-> {}, watching |-> FALSE, chan |-> NoFile,
                   watcher |-> "wait", event |-> NoFile, php |-> "new"]
    /\ app = [a \in AppLogs |-> [chan |-> 0, state |-> "wait", sent |-> FALSE]]
    /\ seen = {} /\ lost = {}
    /\ follow = [f \in LogFiles |-> 0]

\* A send on pidFileChan, which the dispatcher receives: it starts to follow
\* the log unless it is known.
Dispatch_Always(f) ==
    /\ seen' = seen \union {f}
    /\ follow' = [follow EXCEPT ![f] = IF @ < 2 THEN @ + 1 ELSE @]

Dispatch(f) ==
    /\ seen' = seen \union {f}
    /\ follow' = IF f \in seen THEN follow ELSE [follow EXCEPT ![f] = @ + 1]

SendServer ==
    /\ tlr.watch = "server"
    /\ IF "server" \in tlr.flags THEN Dispatch("server") ELSE UNCHANGED <<seen, follow>>
    /\ tlr' = [tlr EXCEPT !.watch = IF "workers" \in tlr.flags THEN "watch" ELSE "app"]
    /\ UNCHANGED <<pidFile, app, lost>>

\* inotify.Watch, then pid.AllWorkers, which skips the files it cannot read.
\* An error of the directory or of the watch is returned.
WatchWorkers_Never ==
    /\ tlr.watch = "watch"
    /\ tlr' = [tlr EXCEPT !.watch = "list"]
    /\ UNCHANGED <<pidFile, app, seen, follow, lost>>

WatchWorkers ==
    /\ tlr.watch = "watch"
    /\ \/ tlr' = [tlr EXCEPT !.watch = "failed"]
       \/ tlr' = [tlr EXCEPT !.watch = "list", !.watching = TRUE]
    /\ UNCHANGED <<pidFile, app, seen, follow, lost>>

AllWorkers ==
    /\ tlr.watch = "list"
    /\ tlr' = [tlr EXCEPT !.watch = "send", !.todo = {w \in Workers : pidFile[w] = "complete"}]
    /\ lost' = lost \union {w \in Workers : pidFile[w] = "empty"}
    /\ UNCHANGED <<pidFile, app, seen, follow>>

SendWorker(w) ==
    /\ tlr.watch = "send" /\ w \in tlr.todo
    /\ tlr' = [tlr EXCEPT !.todo = @ \ {w}]
    /\ Dispatch(w)
    /\ UNCHANGED <<pidFile, app, lost>>

WorkersSent ==
    /\ tlr.watch = "send" /\ tlr.todo = {}
    /\ tlr' = [tlr EXCEPT !.watch = "app"]
    /\ UNCHANGED <<pidFile, app, seen, follow, lost>>

\* Watch starts the watcher of a log and gives it a first event itself,
\* waiting for room in the channel; it gives up when a path has an error.
SendApp(a) ==
    /\ tlr.watch = "app" /\ "app" \in tlr.flags /\ ~app[a].sent /\ app[a].chan = 0
    /\ \/ app' = [app EXCEPT ![a] = [@ EXCEPT !.chan = 1, !.sent = TRUE]] /\ UNCHANGED tlr
       \/ tlr' = [tlr EXCEPT !.watch = "failed"] /\ UNCHANGED app
    /\ UNCHANGED <<pidFile, seen, follow, lost>>

WatchReturns ==
    /\ tlr.watch = "app" /\ ("app" \in tlr.flags => \A a \in AppLogs : app[a].sent)
    /\ tlr' = [tlr EXCEPT !.watch = "done"]
    /\ UNCHANGED <<pidFile, app, seen, follow, lost>>

\* The log is created again; an event that does not fit is dropped.
AppEvent(a) ==
    /\ app[a].sent /\ app[a].chan = 0
    /\ app' = [app EXCEPT ![a].chan = 1]
    /\ UNCHANGED <<tlr, pidFile, seen, follow, lost>>

\* The goroutine of an application log: seenDirs.Load, then Store.
AppWatcher(a) ==
    /\ \/ /\ app[a].state = "wait" /\ app[a].chan = 1
          /\ app' = [app EXCEPT ![a] = [@ EXCEPT !.chan = 0,
                                        !.state = IF a \in seen THEN "wait" ELSE "store"]]
          /\ UNCHANGED <<seen, follow>>
       \/ /\ app[a].state = "store"
          /\ app' = [app EXCEPT ![a].state = "wait"]
          /\ seen' = seen \union {a} /\ follow' = [follow EXCEPT ![a] = @ + 1]
    /\ UNCHANGED <<tlr, pidFile, lost>>

\* The goroutine of the directory of workers.
Watcher ==
    /\ \/ /\ tlr.watcher = "wait" /\ tlr.chan # NoFile
          /\ tlr' = [tlr EXCEPT !.chan = NoFile, !.event = tlr.chan,
                                !.watcher = IF tlr.chan \in seen THEN "wait" ELSE "load"]
          /\ UNCHANGED <<lost, seen, follow>>
       \/ /\ tlr.watcher = "load"
          /\ IF pidFile[tlr.event] = "complete"
             THEN tlr' = [tlr EXCEPT !.watcher = "send"] /\ UNCHANGED lost
             ELSE tlr' = [tlr EXCEPT !.watcher = "wait"] /\ lost' = lost \union {tlr.event}
          /\ UNCHANGED <<seen, follow>>
       \/ /\ tlr.watcher = "send"
          /\ tlr' = [tlr EXCEPT !.watcher = "wait"] /\ Dispatch(tlr.event)
          /\ UNCHANGED lost
    /\ UNCHANGED <<pidFile, app>>

\* WatchAdditionalPidFile, of another goroutine of server:start.
WatchAdditionalPidFile ==
    /\ tlr.watch # "off" /\ tlr.php = "new"
    /\ tlr' = [tlr EXCEPT !.php = "sent"] /\ Dispatch("php")
    /\ UNCHANGED <<pidFile, app, lost>>

\* A worker creates its pid file, then fills it.
CreatePidFile(w) ==
    /\ pidFile[w] = "none" /\ tlr.watch # "off"
    /\ pidFile' = [pidFile EXCEPT ![w] = "empty"]
    /\ tlr' = IF tlr.watching /\ tlr.chan = NoFile THEN [tlr EXCEPT !.chan = w] ELSE tlr
    /\ lost' = IF tlr.watching /\ tlr.chan # NoFile THEN lost \union {w} ELSE lost
    /\ UNCHANGED <<app, seen, follow>>

FillPidFile(w) ==
    /\ pidFile[w] = "empty"
    /\ pidFile' = [pidFile EXCEPT ![w] = "complete"]
    /\ UNCHANGED <<tlr, app, seen, follow, lost>>

\* The goroutine of Watch.
WatchStep ==
    SendServer \/ WatchWorkers \/ AllWorkers \/ (\E w \in Workers : SendWorker(w)) \/ WorkersSent
    \/ (\E a \in AppLogs : SendApp(a)) \/ WatchReturns

TailNext ==
    \/ WatchStep \/ Watcher \/ WatchAdditionalPidFile
    \/ \E a \in AppLogs : AppEvent(a) \/ AppWatcher(a)
    \/ \E w \in Workers : CreatePidFile(w) \/ FillPidFile(w)

-----------------------------------------------------------------------------
\* A worker that starts while Watch runs is both listed and notified: its
\* log, and that of every other file, is nevertheless followed only once.
FollowedOnce == \A f \in LogFiles : follow[f] <= 1

\* Watch leaves no gap between the workers it lists and those it is told of:
\* every worker with a pid file is followed, unless its event was dropped
\* because the channel was full, its file was read before it was filled, or
\* Watch returned an error.
WorkersFollowed ==
    <>[](\A w \in Workers : pidFile[w] = "complete" /\ "workers" \in tlr.flags =>
            follow[w] = 1 \/ w \in lost \/ tlr.watch = "failed")
=============================================================================
