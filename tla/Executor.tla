------------------------------ MODULE Executor ------------------------------
(***************************************************************************)
(* php.Executor: the commands that run PHP (`symfony php`, `console`,      *)
(* `composer`...).  Config finds the PHP of the project in the cached list *)
(* of versions, reloading it when PHP was upgraded, and links its binaries *)
(* in a temporary directory; Execute starts PHP, forwards signals to it    *)
(* and returns its exit status; the cleanup removes the directory and, in  *)
(* the background, those that other commands left behind.                  *)
(*                                                                         *)
(* PHP is upgraded in place: a version replaces the one before it.         *)
(***************************************************************************)
EXTENDS Integers, FiniteSets

CONSTANTS
    Procs,          \* commands
    Versions,       \* versions of PHP: 1 .. n, each replacing the one before
    Bins,           \* Bins[v]: binaries that come with version v
    BinName         \* BinName[p]: the binary that command p runs

ASSUME VersionsAssumption == Versions \subseteq Nat \ {0} /\ 1 \in Versions

VARIABLES
    disk,       \* the installed version
    cache,      \* the version in php_versions.json, shared by all commands
    exe,        \* commands
    tmp         \* tmp[p]: the temporary directory of p: "none", "new" or "old"

exeVars == <<disk, cache, exe, tmp>>

Outcomes == {"status0", "status2", "killed", "copyError"}

ExeTypeOK ==
    /\ disk \in Versions /\ cache \in Versions
    /\ tmp \in [Procs -> {"none", "new", "old"}]
    /\ \A p \in Procs :
         /\ exe[p].pc \in {"config", "lookup", "stat", "mkdir", "link", "start", "notify",
                           "wait", "cleanup", "scan", "end", "dead"}
         /\ exe[p].try \in 0 .. 2 /\ exe[p].php \in Versions
         /\ exe[p].child \in {"none", "running"} \union Outcomes
         /\ exe[p].signal \in BOOLEAN /\ exe[p].scan \subseteq Procs
         /\ exe[p].why \in {"none", "lookup", "mkdir", "link", "start"}
         /\ exe[p].code \in {-1, 0, 1, 2}

\* On a developer's machine or in the cloud.
ExeInit(at, inCloud) ==
    /\ disk = 1 /\ cache = 1
    /\ exe = [p \in Procs |-> [pc |-> at, try |-> 0, php |-> 1, child |-> "none", scan |-> {},
                               inCloud |-> inCloud, signal |-> FALSE, why |-> "none", code |-> 0]]
    /\ tmp = [p \in Procs |-> "none"]

Set(p, r) == exe' = [exe EXCEPT ![p] = r]
Go(p, pc) == Set(p, [exe[p] EXCEPT !.pc = pc])

\* Execute returns 1, without the cleanup that it defers later.
ConfigFails(p, why) == Set(p, [exe[p] EXCEPT !.pc = "end", !.why = why, !.code = 1])

\* The environment is computed (module Environ); in the cloud, nothing else.
Config(p) ==
    /\ exe[p].pc = "config"
    /\ Go(p, IF exe[p].inCloud THEN "start" ELSE "lookup")
    /\ UNCHANGED <<disk, cache, tmp>>

\* Config calls lookupPHP twice: with the cached versions, then reloading.
LookupError(p, v) ==
    IF exe[p].try < 2 THEN Set(p, [exe[p] EXCEPT !.pc = "lookup", !.php = v, !.try = 2])
    ELSE Set(p, [exe[p] EXCEPT !.pc = "end", !.php = v, !.why = "lookup", !.code = 1])

\* lookupPHP: the best version of the list, which has the binary.
lookupPHP(p) ==
    /\ exe[p].pc = "lookup"
    /\ cache' = IF exe[p].try > 0 THEN disk ELSE cache
    /\ IF BinName[p] \in Bins[cache'] THEN Set(p, [exe[p] EXCEPT !.pc = "stat", !.php = cache'])
                                      ELSE LookupError(p, cache')
    /\ UNCHANGED <<disk, tmp>>

\* The binary may be gone since: lookupPHP calls itself, once, reloading.
StatBinary_NoReload(p) ==
    /\ exe[p].pc = "stat"
    /\ IF exe[p].php = disk THEN Go(p, "mkdir") ELSE ConfigFails(p, "lookup")
    /\ UNCHANGED <<disk, cache, tmp>>

StatBinary(p) ==
    /\ exe[p].pc = "stat"
    /\ IF exe[p].php = disk THEN Go(p, "mkdir")
       ELSE IF exe[p].try = 0 THEN Set(p, [exe[p] EXCEPT !.pc = "lookup", !.try = 1])
       ELSE LookupError(p, exe[p].php)
    /\ UNCHANGED <<disk, cache, tmp>>

\* The directory has a fresh, random name.
MakeTempDir(p) ==
    /\ exe[p].pc = "mkdir"
    /\ \/ tmp' = [tmp EXCEPT ![p] = "new"] /\ Go(p, "link")
       \/ ConfigFails(p, "mkdir") /\ UNCHANGED tmp
    /\ UNCHANGED <<disk, cache>>

Symlinks(p) ==
    /\ exe[p].pc = "link"
    /\ Go(p, "start") \/ ConfigFails(p, "link")
    /\ UNCHANGED <<disk, cache, tmp>>

Start(p) ==
    /\ exe[p].pc = "start"
    /\ \/ Set(p, [exe[p] EXCEPT !.pc = "notify", !.child = "running"])
       \/ Set(p, [exe[p] EXCEPT !.pc = "cleanup", !.why = "start", !.code = 1])
    /\ UNCHANGED <<disk, cache, tmp>>

\* From here on, signals are received on a channel of capacity 1.
Notify(p) == exe[p].pc = "notify" /\ Go(p, "wait") /\ UNCHANGED <<disk, cache, tmp>>

\* The user interrupts the command: before Notify, and after Execute stopped
\* listening, it dies of it.
Interrupt(p) ==
    /\ exe[p].pc \notin {"end", "dead"}
    /\ IF exe[p].pc = "wait" THEN Set(p, [exe[p] EXCEPT !.signal = TRUE]) ELSE Go(p, "dead")
    /\ UNCHANGED <<disk, cache, tmp>>

\* cmd.Process.Signal: PHP may handle the signal, and go on or end by itself.
ForwardSignal(p) ==
    /\ exe[p].pc = "wait" /\ exe[p].signal
    /\ \E c \in {exe[p].child} \union (IF exe[p].child = "running" THEN {"killed"} ELSE {}) :
          Set(p, [exe[p] EXCEPT !.signal = FALSE, !.child = c])
    /\ UNCHANGED <<disk, cache, tmp>>

ChildEnds(p) ==
    /\ exe[p].pc \in {"notify", "wait"} /\ exe[p].child = "running"
    /\ \E o \in Outcomes : Set(p, [exe[p] EXCEPT !.child = o])
    /\ UNCHANGED <<disk, cache, tmp>>

\* An error that is not an exit status counts as a success; one killed by a
\* signal has status -1.
ExitCode(outcome) ==
    CASE outcome = "status2" -> 2
      [] outcome = "killed" -> -1
      [] outcome \in {"status0", "copyError"} -> 0

Wait(p) ==
    /\ exe[p].pc = "wait" /\ exe[p].child \in Outcomes
    /\ Set(p, [exe[p] EXCEPT !.pc = "cleanup", !.code = ExitCode(exe[p].child), !.signal = FALSE])
    /\ UNCHANGED <<disk, cache, tmp>>

\* CleanupTemporaryDirectories: its own directory; meanwhile the background
\* job lists the directory of temporary directories.
Cleanup(p) ==
    /\ exe[p].pc = "cleanup"
    /\ \E seen \in {{q \in Procs : tmp[q] # "none"}, {q \in Procs \ {p} : tmp[q] # "none"}} :
          Set(p, [exe[p] EXCEPT !.pc = "scan", !.scan = seen])
    /\ tmp' = [tmp EXCEPT ![p] = "none"]
    /\ UNCHANGED <<disk, cache>>

\* cleanupStaleTemporaryDirectories removes a listed entry that is old.
RemoveStale(p, q) ==
    /\ exe[p].pc = "scan" /\ q \in exe[p].scan
    /\ tmp' = [tmp EXCEPT ![q] = IF @ = "old" THEN "none" ELSE @]
    /\ Set(p, [exe[p] EXCEPT !.scan = @ \ {q}])
    /\ UNCHANGED <<disk, cache>>

\* The job is done, or 100 ms have passed.
Return(p) == exe[p].pc = "scan" /\ Set(p, [exe[p] EXCEPT !.pc = "end", !.scan = {}]) /\ UNCHANGED <<disk, cache, tmp>>

\* Seven days after the directory of p was made, whether PHP still runs or not.
Age(p) ==
    /\ tmp[p] = "new" /\ exe[p].pc \in {"wait", "end", "dead"}
    /\ tmp' = [tmp EXCEPT ![p] = "old"]
    /\ UNCHANGED <<disk, cache, exe>>

\* PHP is upgraded, while it is of interest to a command.
Upgrade ==
    /\ disk + 1 \in Versions /\ disk' = disk + 1
    /\ \E p \in Procs : exe[p].pc \in {"config", "lookup", "stat"}
    /\ UNCHANGED <<cache, exe, tmp>>

ExeStep(p) ==
    \/ Config(p) \/ lookupPHP(p) \/ StatBinary(p) \/ MakeTempDir(p) \/ Symlinks(p) \/ Start(p)
    \/ Notify(p) \/ ForwardSignal(p) \/ Wait(p) \/ Cleanup(p) \/ Return(p)
    \/ \E q \in Procs : RemoveStale(p, q)

ExeNext ==
    \/ \E p \in Procs : ExeStep(p) \/ Interrupt(p) \/ ChildEnds(p) \/ Age(p)
    \/ Upgrade

-----------------------------------------------------------------------------
\* The three lookups of Config survive two upgrades of PHP that happen
\* meanwhile: the command fails only when the version it found lacks the
\* binary ("if a version does not exist anymore, it probably means that PHP
\* has been updated").
UpgradeTolerated ==
    \A p \in Procs : exe[p].why = "lookup" => BinName[p] \notin Bins[exe[p].php]

\* A command that returns has removed its temporary directory, whether PHP
\* ran, failed to start or was killed, except when Config itself failed.
TempRemoved ==
    \A p \in Procs : exe[p].pc = "end" /\ exe[p].why # "link" => tmp[p] = "none"

\* The status of the command is that of PHP: 0 when PHP ended so (or when
\* only copying its output failed), and never when it failed or was killed.
StatusOfChild ==
    \A p \in Procs : exe[p].pc = "end" =>
        (exe[p].code = 0) = (exe[p].child \in {"status0", "copyError"})

\* A command that runs PHP finds it, cleans up after it and returns its status,
\* whatever is upgraded, interrupted or fails meanwhile.
ExecuteSound == UpgradeTolerated /\ TempRemoved /\ StatusOfChild
=============================================================================
