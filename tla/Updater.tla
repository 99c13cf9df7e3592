------------------------------ MODULE Updater ------------------------------
(***************************************************************************)
(* updater.CheckForNewVersion, called before every command: a goroutine    *)
(* looks for a newer version in the cached manifest or on the network,     *)
(* while the caller waits for its answer or for a timer.  The answer is    *)
(* sent without blocking: it is dropped when the caller does not wait yet. *)
(* The goroutine may stop and restart the timer, which the caller creates  *)
(* after it started the goroutine (a data race: either value is read).     *)
(***************************************************************************)
EXTENDS Integers

VARIABLES
    upd,        \* the two goroutines
    store       \* [silence, manifest, remote]: files of the cache, the last release

updVars == <<upd, store>>

UpdTypeOK ==
    /\ upd.main \in {"off", "start", "timer", "select", "timeout", "received"}
    /\ upd.check \in {"idle", "silence", "manifest", "timer", "reset", "http", "parse", "send", "end"}
    /\ upd.timer \in {"nil", "armed", "stopped", "fired"}
    /\ upd.found \in BOOLEAN
    /\ upd.raise \in BOOLEAN /\ upd.body \in {"none", "new", "same", "broken"}
    /\ store.silence \in {"none", "fresh", "old"}
    /\ store.manifest \in {"none", "broken", "same", "new"}
    /\ store.age \in {"hour", "week", "older"} /\ store.remote \in {"same", "new", "broken"}

UpdInit(at) ==
    /\ upd = [main |-> at, check |-> "idle", timer |-> "nil", found |-> FALSE,
              raise |-> FALSE, body |-> "none"]
    /\ IF at = "off"
       THEN store = [silence |-> "none", manifest |-> "none", age |-> "hour", remote |-> "same"]
       ELSE store \in [silence : {"none", "fresh", "old"}, manifest : {"none", "broken", "same", "new"},
                       age : {"hour", "week", "older"}, remote : {"same", "new", "broken"}]

StartCheck ==
    /\ upd.main = "start"
    /\ upd' = [upd EXCEPT !.main = "timer", !.check = "silence"]
    /\ UNCHANGED store

CreateTimer ==
    /\ upd.main = "timer"
    /\ upd' = [upd EXCEPT !.main = "select", !.timer = "armed"]
    /\ UNCHANGED store

TimerFires ==
    /\ upd.timer = "armed" /\ upd' = [upd EXCEPT !.timer = "fired"]
    /\ UNCHANGED store

Timeout ==
    /\ upd.main = "select" /\ upd.timer = "fired"
    /\ upd' = [upd EXCEPT !.main = "timeout"]
    /\ UNCHANGED store

\* The goroutine: a fresh silence file ends the check.
CheckSilence ==
    /\ upd.check = "silence"
    /\ \E created \in BOOLEAN :        \* createCacheDir
         upd' = [upd EXCEPT !.check = IF created /\ store.silence # "fresh" THEN "manifest" ELSE "send"]
    /\ UNCHANGED store

\* A manifest of less than an hour is used; one of more than a week, or none,
\* gives the check more time.
ReadManifest ==
    LET cached == store.manifest # "none" /\ store.age = "hour" IN
    /\ upd.check = "manifest"
    /\ upd' = [upd EXCEPT !.body = IF cached THEN store.manifest ELSE "none",
                          !.raise = store.manifest = "none" \/ store.age = "older",
                          !.check = "timer"]
    /\ UNCHANGED store

After == IF upd.body = "none" THEN "http" ELSE "parse"

\* timer.Stop, when the caller has created the timer, then timer.Reset.
StopTimer_NoReset ==
    /\ upd.check = "timer"
    /\ upd' = [upd EXCEPT !.check = After,
                          !.timer = IF upd.raise /\ @ # "nil" THEN "stopped" ELSE @]
    /\ UNCHANGED store

StopTimer ==
    /\ upd.check = "timer"
    /\ upd' = IF upd.raise /\ upd.timer # "nil"
              THEN [upd EXCEPT !.timer = "stopped", !.check = "reset"]
              ELSE [upd EXCEPT !.check = After]
    /\ UNCHANGED store

ResetTimer ==
    /\ upd.check = "reset"
    /\ upd' = [upd EXCEPT !.timer = "armed", !.check = After]
    /\ UNCHANGED store

\* The network answers, fails, or never does; the manifest is saved, or cannot be.
Request ==
    /\ upd.check = "http"
    /\ \/ /\ upd' = [upd EXCEPT !.body = store.remote, !.check = "parse"]
          /\ store' = [store EXCEPT !.manifest = store.remote, !.age = "hour"]
       \/ upd' = [upd EXCEPT !.check = "send"] /\ UNCHANGED store

ParseManifest ==
    /\ upd.check = "parse"
    /\ upd' = [upd EXCEPT !.found = upd.body = "new", !.check = "send"]
    /\ UNCHANGED store

silence == [store EXCEPT !.silence = "fresh"]

\* The answer is received only by a caller that waits; a received answer,
\* even "no new version" or a failure, silences the check for a day.
Send ==
    /\ upd.check = "send"
    /\ IF upd.main = "select"
       THEN /\ upd' = [upd EXCEPT !.check = "end", !.main = "received"]
            /\ store' = silence
       ELSE /\ upd' = [upd EXCEPT !.check = "end"]
            /\ UNCHANGED store

UpdMain == StartCheck \/ CreateTimer \/ Timeout
UpdCheck == CheckSilence \/ ReadManifest \/ StopTimer \/ ResetTimer \/ ParseManifest \/ Send
UpdNext == UpdMain \/ UpdCheck \/ TimerFires \/ Request

-----------------------------------------------------------------------------
\* Whatever the network does, and in whichever order the two goroutines touch
\* the timer, the command goes on: the check always ends.
CheckReturns == upd.main = "start" ~> upd.main \in {"timeout", "received"}
=============================================================================
