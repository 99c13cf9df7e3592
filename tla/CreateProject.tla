--------------------------- MODULE CreateProject ---------------------------
(***************************************************************************)
(* new: a project is created with Composer, put under Git, given the packs *)
(* its flags ask for and configured for the cloud.  Every step may fail,   *)
(* and leaves what was done before.                                        *)
(*                                                                         *)
(* The flags are a set of names; the PHP version of --php is "none"        *)
(* without it.  Files are grouped by the step that writes them.            *)
(***************************************************************************)
EXTENDS Integers, FiniteSets

VARIABLES
    newFlags,   \* the flags and the directory
    making,     \* the next step, or how the command ended
    phpUsed,    \* the PHP version: that Composer is forced to, and the project's
    written,    \* the files of the project
    saved       \* the files that are committed

makeVars == <<newFlags, making, phpUsed, written, saved>>

Flag(f) == f \in newFlags.set
WithCloud == Flag("cloud") \/ Flag("upsun")

\* The minor version of the versions a user may ask for.
Minor(v) == IF v \in {"8.3", "8.3.1"} THEN "8.3" ELSE "8.4"

\* Action, its checks, in order.
Refused ==
    \/ newFlags.dir \in {"none", "notEmpty", "noAccess"}
    \/ Flag("book") /\ ~Flag("version")
    \/ /\ ~Flag("book")
       /\ \/ Flag("version") /\ Flag("demo")
          \/ Flag("demo") /\ Flag("skeleton")
          \/ Flag("webapp") /\ Flag("api")
          \/ Flag("service") /\ ~WithCloud
          \/ WithCloud /\ Flag("no-git")

\* Before, and the checks of Action: Git is needed unless --no-git is given;
\* --book goes on in module Book.
CheckFlags ==
    /\ making = "check"
    /\ \/ making' = IF Refused THEN "refused" ELSE IF Flag("book") THEN "book" ELSE "php"
       \/ ~Flag("no-git") /\ making' = "refused"
    /\ UNCHANGED <<newFlags, phpUsed, written, saved>>

\* forcePHPVersion: the one asked for must be installed, and Composer will
\* use it; without one, that of the directory.
forcePHPVersion ==
    /\ making = "php"
    /\ \/ making' = "failed" /\ UNCHANGED phpUsed
       \/ /\ making' = "create"
          /\ phpUsed' = [phpUsed EXCEPT !.forced = newFlags.php,
                             !.minor = IF newFlags.php = "none" THEN "8.4" ELSE Minor(newFlags.php)]
    /\ UNCHANGED <<newFlags, written, saved>>

\* createProjectWithComposer: the version "lts" and others are looked up;
\* a failure may leave part of the files.
createProject ==
    /\ making = "create"
    /\ \/ making' = "versionFile" /\ written' = {"skeleton"}
       \/ making' = "failed" /\ written' \in {{}, {"skeleton"}}
    /\ UNCHANGED <<newFlags, phpUsed, saved>>

\* createPhpVersionFile, for a project that is not for the cloud.
createPhpVersionFile_Always ==
    /\ making = "versionFile"
    /\ IF newFlags.php = "none" THEN making' = "git" /\ UNCHANGED <<phpUsed, written>>
       ELSE /\ making' = "git"
            /\ written' = written \union {"version"}
            /\ phpUsed' = [phpUsed EXCEPT !.file = newFlags.php]
    /\ UNCHANGED <<newFlags, saved>>
createPhpVersionFile ==
    /\ making = "versionFile"
    /\ IF newFlags.php = "none" \/ WithCloud THEN making' = "git" /\ UNCHANGED <<phpUsed, written>>
       ELSE \/ making' = "failed" /\ UNCHANGED <<phpUsed, written>>
            \/ /\ making' = "git"
               /\ written' = written \union {"version"}
               /\ phpUsed' = [phpUsed EXCEPT !.file = newFlags.php]
    /\ UNCHANGED <<newFlags, saved>>

\* git.AddAndCommit of everything; there must be something to commit.
AddAndCommit(next) ==
    \/ written # saved /\ saved' = written /\ making' = next
    \/ making' = "failed" /\ UNCHANGED saved

\* initProjectGit.
initProjectGit ==
    /\ making = "git"
    /\ IF Flag("no-git") THEN making' = "webapp" /\ UNCHANGED saved
       ELSE AddAndCommit("webapp")
    /\ UNCHANGED <<newFlags, phpUsed, written>>

\* runComposer: a pack is required, or the command fails.
Require(pack, next) ==
    \/ written' = written \union {pack} /\ making' = next
    \/ written' \in {written, written \union {pack}} /\ making' = "failed"

AddWebapp ==
    /\ making = "webapp"
    /\ IF Flag("webapp") THEN Require("webapp", IF Flag("no-git") THEN "api" ELSE "commitWebapp")
       ELSE making' = "api" /\ UNCHANGED written
    /\ UNCHANGED <<newFlags, phpUsed, saved>>
CommitWebapp ==
    /\ making = "commitWebapp" /\ AddAndCommit("api")
    /\ UNCHANGED <<newFlags, phpUsed, written>>

\* The api pack is not committed by itself.
AddApi ==
    /\ making = "api"
    /\ IF Flag("api") THEN Require("api", "cloud") ELSE making' = "cloud" /\ UNCHANGED written
    /\ UNCHANGED <<newFlags, phpUsed, saved>>

AddCloud ==
    /\ making = "cloud"
    /\ IF WithCloud THEN Require("platformsh", IF Flag("no-git") THEN "config" ELSE "commitCloud")
       ELSE making' = "ready" /\ UNCHANGED written
    /\ UNCHANGED <<newFlags, phpUsed, saved>>
CommitCloud ==
    /\ making = "commitCloud" /\ AddAndCommit("config")
    /\ UNCHANGED <<newFlags, phpUsed, written>>

\* initCloud: the configuration (module CloudConfig) and its commit.
initCloud ==
    /\ making = "config"
    /\ \/ /\ written' = written \union {"config"}
          /\ making' = IF Flag("no-git") THEN "ready" ELSE "commitConfig"
          /\ phpUsed' = [phpUsed EXCEPT !.config = phpUsed.minor]
       \/ written' \in {written, written \union {"config"}} /\ making' = "failed" /\ UNCHANGED phpUsed
    /\ UNCHANGED <<newFlags, saved>>
CommitConfig ==
    /\ making = "commitConfig" /\ AddAndCommit("ready")
    /\ UNCHANGED <<newFlags, phpUsed, written>>

MakeInit(f, at) ==
    /\ newFlags = f /\ making = at
    /\ phpUsed = [forced |-> "none", minor |-> "none", file |-> "none", config |-> "none"]
    /\ written = {} /\ saved = {}

MakeNext ==
    \/ CheckFlags \/ forcePHPVersion \/ createProject \/ createPhpVersionFile \/ initProjectGit
    \/ AddWebapp \/ CommitWebapp \/ AddApi \/ AddCloud \/ CommitCloud \/ initCloud \/ CommitConfig

-----------------------------------------------------------------------------

MakeTypeOK ==
    /\ making \in {"off", "check", "book", "php", "create", "versionFile", "git", "webapp", "commitWebapp",
                   "api", "cloud", "commitCloud", "config", "commitConfig", "ready", "failed", "refused"}
    /\ written \subseteq {"skeleton", "version", "webapp", "api", "platformsh", "config"}
    /\ saved \subseteq written

\* A project that is ready has everything committed, whatever its flags,
\* except the api pack of a project that is not for the cloud.
ReadyCommitted ==
    making = "ready" /\ ~Flag("no-git") =>
        saved = IF WithCloud THEN written ELSE written \ {"api"}

\* The configuration for the cloud, which is deployed by pushing commits, is
\* only ever written in a project with a history.
CloudHasHistory == "config" \in written => "skeleton" \in saved

\* The PHP version asked for is the one Composer runs with, and the project
\* records it in one place: .php-version, or the configuration for the cloud.
VersionRecordedOnce ==
    making = "ready" /\ newFlags.php # "none" =>
        /\ phpUsed.forced = newFlags.php
        /\ IF WithCloud THEN phpUsed.file = "none" /\ phpUsed.config = Minor(newFlags.php)
           ELSE phpUsed.file = newFlags.php /\ phpUsed.config = "none"

\* What `new` leaves is consistent, for all flags and after every failure.
NewSound == ReadyCommitted /\ CloudHasHistory /\ VersionRecordedOnce
=============================================================================
