--------------------------- MODULE CommandsProofs ---------------------------
(***************************************************************************)
(* The commands that run PHP, `new` and `book:checkout`, for any number of *)
(* commands and versions, all flags, and whichever of their steps fails,   *)
(* and the settings of server:start, for any number of files.              *)
(***************************************************************************)
EXTENDS Executor, CreateProject, Book, ProjectConfig, TLAPS

-----------------------------------------------------------------------------
(* new.                                                                    *)

MakeSpec == (\E f : MakeInit(f, "check")) /\ [][MakeNext]_makeVars

AfterGit == {"webapp", "commitWebapp", "api", "cloud", "commitCloud", "config", "commitConfig", "ready"}

\* A project for the cloud is under Git, the skeleton is committed first, and
\* what is not committed is known at every step.
CommitInv ==
    /\ saved \subseteq written /\ CloudHasHistory
    /\ making \in {"check", "book", "php", "create", "refused"} => written = {} /\ saved = {}
    /\ making = "versionFile" => written = {"skeleton"} /\ saved = {}
    /\ making = "git" => written \subseteq {"skeleton", "version"} /\ "skeleton" \in written /\ saved = {}
    /\ making \in {"webapp", "commitWebapp", "api"} => "api" \notin written
    /\ making \in {"commitCloud", "config", "commitConfig"} => WithCloud
    /\ making \notin {"check", "refused", "book"} => ~(WithCloud /\ Flag("no-git"))
    /\ ~Flag("no-git") =>
         /\ making \in AfterGit => "skeleton" \in saved
         /\ making \in {"webapp", "api", "config"} => saved = written
         /\ making = "cloud" => saved = written \ {"api"}
         /\ making = "ready" => saved = IF WithCloud THEN written ELSE written \ {"api"}

\* Where the PHP version is recorded so far.
VersionInv ==
    /\ DOMAIN phpUsed = {"forced", "minor", "file", "config"}
    /\ making \in {"create", "versionFile", "git"} \union AfterGit =>
         /\ phpUsed.forced = newFlags.php
         /\ newFlags.php # "none" => phpUsed.minor = Minor(newFlags.php)
    /\ making \in {"check", "php", "create", "versionFile"} => phpUsed.file = "none"
    /\ making \in {"git"} \union AfterGit =>
         phpUsed.file = IF newFlags.php = "none" \/ WithCloud THEN "none" ELSE newFlags.php
    /\ making \in {"check", "php", "create", "versionFile", "git"} \union (AfterGit \ {"commitConfig", "ready"}) =>
         phpUsed.config = "none"
    /\ making = "commitConfig" => phpUsed.config = phpUsed.minor
    /\ making = "ready" => phpUsed.config = IF WithCloud THEN phpUsed.minor ELSE "none"

MakeInv == CommitInv /\ VersionInv

LEMMA CommitStep ==
    ASSUME CommitInv, MakeNext
    PROVE  CommitInv'
<1> USE DEF CommitInv, CloudHasHistory, AfterGit
<1>0. UNCHANGED newFlags
  BY DEF MakeNext, CheckFlags, forcePHPVersion, createProject, createPhpVersionFile, initProjectGit,
         AddWebapp, CommitWebapp, AddApi, AddCloud, CommitCloud, initCloud, CommitConfig
<1>00. WithCloud' = WithCloud /\ \A f : Flag(f)' = Flag(f)
  BY <1>0 DEF WithCloud, Flag
<1>1. CASE CheckFlags
  BY <1>00, <1>1 DEF CheckFlags, Refused
<1>2. CASE forcePHPVersion
  BY <1>00, <1>2 DEF forcePHPVersion
<1>3. CASE createProject
  BY <1>00, <1>3 DEF createProject
<1>4. CASE createPhpVersionFile
  BY <1>00, <1>4 DEF createPhpVersionFile
<1>5. CASE initProjectGit
  BY <1>00, <1>5 DEF initProjectGit, AddAndCommit
<1>6. CASE AddWebapp \/ AddApi \/ AddCloud
  BY <1>00, <1>6 DEF AddWebapp, AddApi, AddCloud, Require
<1>7. CASE CommitWebapp \/ CommitCloud \/ CommitConfig
  BY <1>00, <1>7 DEF CommitWebapp, CommitCloud, CommitConfig, AddAndCommit
<1>8. CASE initCloud
  BY <1>00, <1>8, SMTT(30) DEF initCloud
<1> QED
  BY <1>1, <1>2, <1>3, <1>4, <1>5, <1>6, <1>7, <1>8 DEF MakeNext

LEMMA VersionStep ==
    ASSUME CommitInv, VersionInv, MakeNext
    PROVE  VersionInv'
<1> USE DEF VersionInv, AfterGit
<1>0. UNCHANGED newFlags
  BY DEF MakeNext, CheckFlags, forcePHPVersion, createProject, createPhpVersionFile, initProjectGit,
         AddWebapp, CommitWebapp, AddApi, AddCloud, CommitCloud, initCloud, CommitConfig
<1>00. WithCloud' = WithCloud
  BY <1>0 DEF WithCloud, Flag
<1>1. CASE CheckFlags \/ createProject
  BY <1>0, <1>00, <1>1 DEF CheckFlags, createProject
<1>2. CASE forcePHPVersion
  BY <1>0, <1>00, <1>2, Zenon DEF forcePHPVersion
<1>3. CASE createPhpVersionFile
  BY <1>0, <1>00, <1>3 DEF createPhpVersionFile
<1>4. CASE initProjectGit \/ CommitWebapp \/ CommitCloud
  BY <1>0, <1>00, <1>4 DEF initProjectGit, CommitWebapp, CommitCloud, AddAndCommit
<1>5. CASE AddWebapp \/ AddApi \/ AddCloud
  BY <1>0, <1>00, <1>5 DEF AddWebapp, AddApi, AddCloud, Require
<1>6. CASE initCloud
  BY <1>0, <1>00, <1>6 DEF initCloud, CommitInv
<1>7. CASE CommitConfig
  BY <1>0, <1>00, <1>7 DEF CommitConfig, AddAndCommit, CommitInv
<1> QED
  BY <1>1, <1>2, <1>3, <1>4, <1>5, <1>6, <1>7 DEF MakeNext

(***************************************************************************)
(* Whatever the flags of `new`, and wherever it fails: a project that is   *)
(* ready is committed, but for the api pack outside of the cloud, the      *)
(* configuration for the cloud has a history, and the PHP version asked    *)
(* for is recorded once.                                                   *)
(***************************************************************************)
THEOREM NewSoundAlways == MakeSpec => []NewSound
<1>1. (\E f : MakeInit(f, "check")) => MakeInv
  BY DEF MakeInit, MakeInv, CommitInv, VersionInv, CloudHasHistory, AfterGit
<1>2. MakeInv /\ [MakeNext]_makeVars => MakeInv'
  <2> SUFFICES ASSUME MakeInv, [MakeNext]_makeVars PROVE MakeInv'
    OBVIOUS
  <2>1. CASE UNCHANGED makeVars
    BY <2>1 DEF makeVars, MakeInv, CommitInv, VersionInv, CloudHasHistory, WithCloud, Flag
  <2> QED
    BY <2>1, CommitStep, VersionStep DEF MakeInv
<1>3. MakeInv => NewSound
  BY DEF MakeInv, CommitInv, VersionInv, AfterGit, NewSound, ReadyCommitted, VersionRecordedOnce
<1> QED
  BY <1>1, <1>2, <1>3, PTL DEF MakeSpec

-----------------------------------------------------------------------------
(* book:checkout.                                                          *)

BookSpec == BookInit /\ [][BookNext]_bookVars

\* What is to be removed was agreed to; containers are those of a step that
\* has a Compose file, so that the checkout of another step stops them.
BookInv ==
    /\ bookAt \in 0 .. 21 /\ DOMAIN book = {"step", "end", "hasDocker"}
    /\ DOMAIN running = {"containers", "server", "spa"}
    /\ work \subseteq {"changes", "untracked", "ignored"}
    /\ repoAt = "none" => bookAt = 0 /\ work = {} /\ running.containers = "none"
    /\ bookAt > 0 => book.step # "none" /\ book.end = "none"
    /\ bookAt \in 1 .. 3 => work \subseteq agreed
    /\ running.containers # "none" => "compose" \in Features[repoAt]
    /\ bookAt \in 1 .. 5 /\ "compose" \in Features[repoAt] => book.hasDocker
    /\ bookAt \in 6 .. 8 => running.containers = "none"
    /\ bookAt > 8 => repoAt = book.step /\ running.containers \in {"none", book.step}
    /\ FreshContainers

\* The commands that matter here, and their places.
LEMMA CommandsLemma ==
    /\ Len(Commands) = 21
    /\ \A i \in 1 .. 21 :
         /\ Commands[i].name = "clean" <=> i = 1
         /\ Commands[i].name = "restore" <=> i = 3
         /\ Commands[i].name = "reset" <=> i = 2
         /\ Commands[i].name = "up" => i = 12
         /\ Commands[i].name = "down" <=> i = 5
         /\ Commands[i].name = "checkout" <=> i = 8
    /\ Commands[5].feature = "compose" /\ Commands[5].fatal
    /\ Commands[8].feature = "none" /\ Commands[8].fatal
BY DEF Commands, CleanUp, SetUp, Command

LEMMA WorksLemma ==
    ASSUME BookInv, NEW name, Works(name)
    PROVE  /\ DOMAIN running' = DOMAIN running
           /\ work' \subseteq work \union {"ignored"}
           /\ name = "clean" => work \ work' \subseteq {"untracked", "ignored"}
           /\ name = "restore" => work \ work' \subseteq {"changes"}
           /\ name \notin {"clean", "restore"} => work \subseteq work'
           /\ repoAt' = IF name = "checkout" THEN book.step ELSE repoAt
           /\ name = "down" => running'.containers = "none"
           /\ name = "up" => running'.containers = IF running.containers = "none" THEN repoAt
                                                   ELSE running.containers
           /\ name \notin {"down", "up"} => running'.containers = running.containers
<1>0. DOMAIN running = {"containers", "server", "spa"}
  BY DEF BookInv
<1>1. CASE name \in {"clean", "restore", "checkout", "composer", "env", "npm", "encore", "spaNpm", "spaEncore"}
  BY <1>0, <1>1 DEF Works
<1>2. CASE name \in {"down", "up"}
  BY <1>0, <1>2 DEF Works
<1>3. CASE name \in {"server:stop", "server:start", "spaStop", "spaStart"}
  BY <1>0, <1>3 DEF Works
<1>4. CASE name \notin {"clean", "restore", "checkout", "composer", "env", "npm", "encore", "spaNpm", "spaEncore",
                        "down", "up", "server:stop", "server:start", "spaStop", "spaStart"}
  BY <1>0, <1>4 DEF Works
<1> QED
  BY <1>1, <1>2, <1>3, <1>4

\* A command that is skipped, works or fails.
LEMMA BookCommand ==
    ASSUME BookInv, executeCommand
    PROVE  BookInv' /\ work \ work' \subseteq agreed
<1> DEFINE c == Commands[bookAt]
<1>0. /\ bookAt \in 1 .. 21 /\ agreed' = agreed /\ book.end = "none" /\ book.step # "none"
      /\ repoAt # "none"
  BY DEF executeCommand, BookInv
<1>1. /\ DOMAIN book' = DOMAIN book /\ book'.step = book.step /\ book'.hasDocker = book.hasDocker
      /\ \/ bookAt' = bookAt + 1 /\ bookAt < 21 /\ book'.end = "none"
         \/ bookAt' = 0 /\ book'.end = "failed"
         \/ bookAt' = 0 /\ bookAt = 21 /\ book'.end = "done"
  BY <1>0, CommandsLemma DEF executeCommand, BookInv
<1>2. CASE UNCHANGED <<repoAt, work, running>>
  <2>1. bookAt = 5 /\ bookAt' = 6 => ~book.hasDocker \/ running.containers = "none"
    <3> SUFFICES ASSUME bookAt = 5, bookAt' = 6, book.hasDocker PROVE running.containers = "none"
      OBVIOUS
    <3>1. Works("down")
      BY <1>0, <1>1, CommandsLemma, SMTT(30) DEF executeCommand, HasFeature, Fatal
    <3> QED
      BY <1>2, <3>1, WorksLemma
  <2>2. bookAt = 8 => bookAt' = 0 \/ repoAt = book.step
    BY <1>0, <1>1, <1>2, CommandsLemma DEF executeCommand, HasFeature, CanWork, Works, Fatal
  <2> QED
    BY <1>0, <1>1, <1>2, <2>1, <2>2 DEF BookInv, FreshContainers
<1>3. CASE HasFeature(c.feature) /\ CanWork(c.name) /\ Works(c.name)
  <2>1. bookAt = 12 => "compose" \in Features[repoAt] \/ c.name # "up"
    BY <1>3 DEF CanWork
  <2>2. /\ c.name = "clean" <=> bookAt = 1
        /\ c.name = "restore" <=> bookAt = 3
        /\ c.name = "reset" <=> bookAt = 2
        /\ c.name = "up" => bookAt = 12
        /\ c.name = "down" <=> bookAt = 5
        /\ c.name = "checkout" <=> bookAt = 8
    BY <1>0, CommandsLemma
  <2> HIDE DEF c
  <2>3. /\ DOMAIN running' = DOMAIN running
        /\ work' \subseteq work \union {"ignored"}
        /\ bookAt \notin {1, 3} => work \subseteq work'
        /\ repoAt' = IF bookAt = 8 THEN book.step ELSE repoAt
        /\ bookAt = 5 => running'.containers = "none"
        /\ bookAt # 5 => running'.containers = running.containers
                         \/ (bookAt = 12 /\ c.name = "up" /\ running'.containers = repoAt)
    BY <1>3, <2>2, WorksLemma
  <2>4. bookAt \in 1 .. 3 => work' \subseteq work
    BY <1>0, <1>3, <2>2 DEF Works
  <2>5. work \ work' \subseteq agreed
    BY <1>0, <2>3 DEF BookInv
  <2> QED
    BY <1>0, <1>1, <2>1, <2>3, <2>4, <2>5 DEF BookInv, FreshContainers
<1> QED
  BY <1>2, <1>3 DEF executeCommand

\* The checkout that starts.
LEMMA CheckoutLemma ==
    ASSUME NEW step, NEW force, NEW auto, Checkout(step, force, auto)
    PROVE  /\ bookAt' = 1 /\ DOMAIN book' = {"step", "end", "hasDocker"}
           /\ book'.step = step /\ book'.end = "none"
           /\ "compose" \in Features[repoAt'] => book'.hasDocker
<1>1. bookAt' = 1 /\ book' = [step |-> step, end |-> "none", hasDocker |-> "compose" \in Features[repoAt']]
  BY DEF Checkout
<1>2. DOMAIN book' = {"step", "end", "hasDocker"} /\ book'.step = step /\ book'.end = "none"
  BY <1>1
<1>3. book'.hasDocker = ("compose" \in Features[repoAt'])
  BY <1>1, Zenon
<1> QED
  BY <1>1, <1>2, <1>3, Zenon

\* The steps of book:checkout and of its reader keep the invariant, and
\* remove only what was agreed to.
LEMMA BookStep ==
    ASSUME BookInv, BookNext
    PROVE  BookInv' /\ work \ work' \subseteq agreed
<1>1. CASE executeCommand
  BY <1>1, BookCommand
<1>2. CASE Clone
  <2>1. repoAt = "none" /\ repoAt' = "main" /\ UNCHANGED <<work, running>> /\ Checkout("3", FALSE, TRUE)
    BY <1>2, Zenon DEF Clone
  <2>2. /\ bookAt' = 1 /\ DOMAIN book' = {"step", "end", "hasDocker"}
        /\ book'.step = "3" /\ book'.end = "none"
        /\ "compose" \in Features[repoAt'] => book'.hasDocker
    BY <2>1, CheckoutLemma, Zenon
  <2> QED
    BY <2>1, <2>2 DEF BookInv, FreshContainers
<1>3. ASSUME NEW step \in Steps, NEW force \in BOOLEAN, BookCheckout(step, force)
      PROVE  BookInv' /\ work \ work' \subseteq agreed
  <2>1. work \subseteq agreed' /\ step # "none"
    BY <1>3, StepsAssumption DEF BookCheckout, Checkout, Questions, BookInv
  <2>2. repoAt # "none" /\ UNCHANGED <<repoAt, work, running>> /\ Checkout(step, force, FALSE)
    BY <1>3, Zenon DEF BookCheckout
  <2>3. /\ bookAt' = 1 /\ DOMAIN book' = {"step", "end", "hasDocker"}
        /\ book'.step = step /\ book'.end = "none"
        /\ "compose" \in Features[repoAt'] => book'.hasDocker
    BY <2>2, CheckoutLemma, Zenon
  <2> QED
    BY <2>1, <2>2, <2>3 DEF BookInv, FreshContainers
<1>4. ASSUME NEW kind \in {"changes", "untracked"}, Edit(kind)
      PROVE  BookInv' /\ work \ work' \subseteq agreed
  BY <1>4 DEF Edit, BookInv, FreshContainers
<1> QED
  BY <1>1, <1>2, <1>3, <1>4 DEF BookNext

LEMMA BookInvariant == BookSpec => []BookInv
<1>1. BookInit => BookInv
  BY DEF BookInit, BookInv, FreshContainers
<1>2. BookInv /\ [BookNext]_bookVars => BookInv'
  <2> SUFFICES ASSUME BookInv, [BookNext]_bookVars PROVE BookInv'
    OBVIOUS
  <2>1. CASE UNCHANGED bookVars
    BY <2>1 DEF bookVars, BookInv, FreshContainers
  <2> QED
    BY <2>1, BookStep
<1> QED
  BY <1>1, <1>2, PTL DEF BookSpec

(***************************************************************************)
(* The containers after a checkout that ends well are its own, whatever    *)
(* the steps of the book have, and however many checkouts failed before.   *)
(***************************************************************************)
THEOREM FreshContainersAlways == BookSpec => []FreshContainers
<1>1. BookInv => FreshContainers
  BY DEF BookInv
<1> QED
  BY <1>1, BookInvariant, PTL

(***************************************************************************)
(* Checkout removes no file that its questions were not about.             *)
(***************************************************************************)
THEOREM AskedFirstAlways == BookSpec => AskedFirst
<1>1. BookInv /\ [BookNext]_bookVars => [work \ work' \subseteq agreed]_bookVars
  BY BookStep
<1> QED
  BY <1>1, BookInvariant, PTL DEF BookSpec, AskedFirst

-----------------------------------------------------------------------------
(* The commands that run PHP.                                              *)

\* Leaves that need arithmetic or fields of records cite SMT.
USE Zenon

ExeSpec == (\E c \in BOOLEAN : ExeInit("config", c)) /\ [][ExeNext]_exeVars

ExeShared ==
    /\ disk \in Versions /\ cache \in Versions /\ cache <= disk
    /\ DOMAIN exe = Procs /\ tmp \in [Procs -> {"none", "new", "old"}]

ExeShape(p) ==
    /\ DOMAIN exe[p] = {"pc", "try", "php", "child", "scan", "inCloud", "signal", "why", "code"}
    /\ exe[p].pc \in {"config", "lookup", "stat", "mkdir", "link", "start", "notify",
                      "wait", "cleanup", "scan", "end", "dead"}
    /\ exe[p].try \in {0, 1, 2} /\ exe[p].php \in Versions /\ exe[p].php <= disk
    /\ exe[p].code \in Int /\ (exe[p].pc = "config" => exe[p].try = 0)

\* No directory before Config makes it, none after the cleanup.
TmpInv(p) ==
    exe[p].pc \in {"config", "lookup", "stat", "mkdir", "scan"}
    \/ (exe[p].pc = "end" /\ exe[p].why # "link") => tmp[p] = "none"

\* The status is 0 exactly for a child that ended so.
StatusInv(p) ==
    /\ exe[p].pc \in {"config", "lookup", "stat", "mkdir", "link", "start"} => exe[p].child = "none"
    /\ exe[p].pc \in {"notify", "wait"} => exe[p].child \in {"running"} \union Outcomes
    /\ exe[p].pc \in {"cleanup", "scan", "end"} =>
         (exe[p].code = 0 <=> exe[p].child \in {"status0", "copyError"})

\* Each lookup after the first was made because of an upgrade: while there
\* were no more than two of them, the last lookup finds the last version.  A
\* command whose first version had no such binary has one lookup less.
LookupInv(p) ==
    disk <= 3 /\ BinName[p] \in Bins[1] =>
        /\ exe[p].why = "lookup" => exe[p].pc = "end" /\ BinName[p] \notin Bins[exe[p].php]
        /\ exe[p].pc = "lookup" =>
             /\ exe[p].try = 1 => disk >= 2
             /\ exe[p].try = 2 => disk = 3 \/ (disk = 2 /\ BinName[p] \notin Bins[2])
        /\ exe[p].pc = "stat" => BinName[p] \in Bins[exe[p].php] /\ exe[p].php > exe[p].try

CommandInv(p) == ExeShape(p) /\ TmpInv(p) /\ StatusInv(p) /\ LookupInv(p)

ExeInv == ExeShared /\ \A p \in Procs : CommandInv(p)

\* The fields of a command after its step, and the other commands.
Becomes(p, pc, try, php, child, why, code) ==
    /\ DOMAIN exe' = Procs /\ \A q \in Procs \ {p} : exe'[q] = exe[q]
    /\ DOMAIN exe'[p] = DOMAIN exe[p]
    /\ exe'[p].pc = pc /\ exe'[p].try = try /\ exe'[p].php = php
    /\ exe'[p].child = child /\ exe'[p].why = why /\ exe'[p].code = code

\* A step of one command that keeps its own part of the invariant keeps the
\* invariant, if it does no more to the directories of the others than to
\* remove them.
LEMMA OneCommand ==
    ASSUME ExeInv, NEW p \in Procs, disk' = disk,
           NEW pc, NEW try, NEW php, NEW child, NEW why, NEW code,
           Becomes(p, pc, try, php, child, why, code),
           cache' \in Versions, cache' <= disk, tmp' \in [Procs -> {"none", "new", "old"}],
           \A q \in Procs \ {p} : tmp'[q] \in {tmp[q], "none"},
           CommandInv(p)'
    PROVE  ExeInv'
<1>1. ExeShared'
  BY DEF ExeInv, ExeShared, Becomes
<1>2. ASSUME NEW q \in Procs \ {p} PROVE CommandInv(q)'
  <2>1. exe'[q] = exe[q] /\ CommandInv(q) /\ tmp'[q] \in {tmp[q], "none"}
    BY DEF ExeInv, Becomes
  <2>2. ExeShape(q)' /\ StatusInv(q)' /\ LookupInv(q)'
    BY <2>1, ZenonT(60) DEF CommandInv, ExeShape, StatusInv, LookupInv
  <2>3. TmpInv(q)'
    BY <2>1 DEF CommandInv, TmpInv
  <2> QED
    BY <2>2, <2>3 DEF CommandInv
<1> QED
  BY <1>1, <1>2 DEF ExeInv

\* A command that goes on, returns early or fails to start.
LEMMA MoveOn ==
    ASSUME ExeInv, NEW p \in Procs, NEW pc, NEW why, NEW code \in Int, UNCHANGED <<disk, cache>>,
           Becomes(p, pc, exe[p].try, exe[p].php, exe[p].child, why, code),
           tmp' \in [Procs -> {"none", "new", "old"}],
           \A q \in Procs \ {p} : tmp'[q] \in {tmp[q], "none"},
           \/ /\ why = exe[p].why /\ code = exe[p].code
              /\ \/ exe[p].pc = "config" /\ pc \in {"lookup", "start"} /\ UNCHANGED tmp
                 \/ exe[p].pc = "stat" /\ pc = "mkdir" /\ UNCHANGED tmp
                 \/ exe[p].pc = "mkdir" /\ pc = "link"
                 \/ exe[p].pc = "link" /\ pc = "start"
                 \/ exe[p].pc = "notify" /\ pc = "wait"
                 \/ exe[p].pc = "cleanup" /\ pc = "scan" /\ tmp'[p] = "none"
                 \/ exe[p].pc = "scan" /\ pc \in {"scan", "end"} /\ tmp'[p] \in {tmp[p], "none"}
                 \/ exe[p].pc # "end" /\ pc = "dead"
           \/ /\ code = 1 /\ UNCHANGED tmp
              /\ \/ exe[p].pc = "mkdir" /\ pc = "end" /\ why = "mkdir"
                 \/ exe[p].pc = "link" /\ pc = "end" /\ why = "link"
                 \/ exe[p].pc = "start" /\ pc = "cleanup" /\ why = "start"
    PROVE  ExeInv'
<1>1. CommandInv(p) /\ ExeShared
  BY DEF ExeInv
<1>2. ExeShape(p)'
  BY <1>1 DEF Becomes, CommandInv, ExeShape
<1>3. TmpInv(p)'
  BY <1>1 DEF Becomes, CommandInv, TmpInv
<1>4. StatusInv(p)'
  BY <1>1, SMT DEF Becomes, CommandInv, StatusInv
<1>5. LookupInv(p)'
  BY <1>1, SMT DEF Becomes, CommandInv, LookupInv, ExeShape
<1> QED
  BY <1>1, <1>2, <1>3, <1>4, <1>5, OneCommand DEF CommandInv, ExeShared

\* The child starts, ends, or is waited for.
LEMMA ChildStep ==
    ASSUME ExeInv, NEW p \in Procs, NEW pc, NEW child, NEW code \in Int, UNCHANGED <<disk, cache, tmp>>,
           Becomes(p, pc, exe[p].try, exe[p].php, child, exe[p].why, code),
           \/ exe[p].pc = "start" /\ pc = "notify" /\ child = "running"
           \/ /\ exe[p].pc \in {"notify", "wait"} /\ pc = exe[p].pc
              /\ child \in {"running"} \union Outcomes
           \/ /\ exe[p].pc = "wait" /\ pc = "cleanup" /\ child = exe[p].child
              /\ child \in Outcomes /\ code = ExitCode(child)
    PROVE  ExeInv'
<1>1. CommandInv(p) /\ ExeShared
  BY DEF ExeInv
<1>2. ExeShape(p)'
  BY <1>1 DEF Becomes, CommandInv, ExeShape
<1>3. TmpInv(p)' /\ LookupInv(p)'
  BY <1>1 DEF Becomes, CommandInv, TmpInv, LookupInv
<1>4. StatusInv(p)'
  BY <1>1, SMT DEF Becomes, CommandInv, ExeShape, StatusInv, ExitCode, Outcomes
<1> QED
  BY <1>1, <1>2, <1>3, <1>4, OneCommand DEF CommandInv, ExeShared

\* A lookup, of the cached versions or of the installed one.
LEMMA LookupStep ==
    ASSUME ExeInv, NEW p \in Procs, NEW pc, NEW try, NEW php, NEW why, NEW code \in Int,
           UNCHANGED <<disk, tmp>>, cache' \in {cache, disk},
           Becomes(p, pc, try, php, exe[p].child, why, code),
           exe[p].pc \in {"lookup", "stat"},
           \/ pc \in {"lookup", "stat"} /\ why = exe[p].why
           \/ pc = "end" /\ why = "lookup" /\ code = 1,
           try \in {0, 1, 2}, php \in {exe[p].php, cache'}, LookupInv(p)'
    PROVE  ExeInv'
<1>1. CommandInv(p) /\ ExeShared /\ Versions \subseteq Nat
  BY VersionsAssumption DEF ExeInv
<1>2. ExeShape(p)'
  BY <1>1, SMT DEF Becomes, CommandInv, ExeShape, ExeShared
<1>3. TmpInv(p)'
  BY <1>1 DEF Becomes, CommandInv, TmpInv
<1>4. StatusInv(p)'
  BY <1>1, SMT DEF Becomes, CommandInv, ExeShape, StatusInv
<1>5. cache' \in Versions /\ cache' <= disk
  BY <1>1, SMT DEF ExeShared
<1> QED
  BY <1>1, <1>2, <1>3, <1>4, <1>5, OneCommand DEF CommandInv, ExeShared

\* The steps of a command before its child runs.
LEMMA ConfigStep ==
    ASSUME ExeInv, NEW p \in Procs,
           Config(p) \/ MakeTempDir(p) \/ Symlinks(p) \/ Notify(p) \/ Start(p)
    PROVE  ExeInv'
<1>1. CommandInv(p) /\ ExeShared
  BY DEF ExeInv
<1>2. exe[p].code \in Int
  BY <1>1 DEF CommandInv, ExeShape
<1>3. ASSUME NEW pc, Go(p, pc)
      PROVE  Becomes(p, pc, exe[p].try, exe[p].php, exe[p].child, exe[p].why, exe[p].code)
  BY <1>1, <1>3 DEF Go, Set, Becomes, ExeShared, CommandInv, ExeShape
<1>4. ASSUME NEW pc, NEW why, Set(p, [exe[p] EXCEPT !.pc = pc, !.why = why, !.code = 1])
      PROVE  Becomes(p, pc, exe[p].try, exe[p].php, exe[p].child, why, 1)
  BY <1>1, <1>4 DEF Set, Becomes, ExeShared, CommandInv, ExeShape
<1>5. CASE Config(p)
  BY <1>1, <1>2, <1>3, <1>5, MoveOn DEF Config, ExeShared
<1>6. CASE MakeTempDir(p)
  <2>1. CASE Go(p, "link") /\ tmp' = [tmp EXCEPT ![p] = "new"]
    BY <1>1, <1>2, <1>3, <1>6, <2>1, MoveOn DEF MakeTempDir, ExeShared
  <2>2. CASE ConfigFails(p, "mkdir") /\ UNCHANGED tmp
    <3>1. Becomes(p, "end", exe[p].try, exe[p].php, exe[p].child, "mkdir", 1)
      BY <1>4, <2>2 DEF ConfigFails
    <3> QED
      BY <1>1, <1>6, <2>2, <3>1, MoveOn, SMT DEF MakeTempDir, ExeShared
  <2> QED
    BY <1>6, <2>1, <2>2 DEF MakeTempDir
<1>7. CASE Symlinks(p)
  <2>1. CASE Go(p, "start")
    BY <1>1, <1>2, <1>3, <1>7, <2>1, MoveOn DEF Symlinks, ExeShared
  <2>2. CASE ConfigFails(p, "link")
    <3>1. Becomes(p, "end", exe[p].try, exe[p].php, exe[p].child, "link", 1)
      BY <1>4, <2>2 DEF ConfigFails
    <3> QED
      BY <1>1, <1>7, <3>1, MoveOn, SMT DEF Symlinks, ExeShared
  <2> QED
    BY <1>7, <2>1, <2>2 DEF Symlinks
<1>8. CASE Notify(p)
  BY <1>1, <1>2, <1>3, <1>8, MoveOn DEF Notify, ExeShared
<1>9. CASE Start(p)
  <2>1. CASE Set(p, [exe[p] EXCEPT !.pc = "notify", !.child = "running"])
    <3>1. Becomes(p, "notify", exe[p].try, exe[p].php, "running", exe[p].why, exe[p].code)
      BY <1>1, <2>1 DEF Set, Becomes, ExeShared, CommandInv, ExeShape
    <3> QED
      BY <1>2, <1>9, <3>1, ChildStep DEF Start
  <2>2. CASE Set(p, [exe[p] EXCEPT !.pc = "cleanup", !.why = "start", !.code = 1])
    <3>1. Becomes(p, "cleanup", exe[p].try, exe[p].php, exe[p].child, "start", 1)
      BY <1>4, <2>2
    <3> QED
      BY <1>1, <1>9, <3>1, MoveOn, SMT DEF Start, ExeShared
  <2> QED
    BY <1>9, <2>1, <2>2 DEF Start
<1> QED
  BY <1>5, <1>6, <1>7, <1>8, <1>9

\* The steps while the child runs, and the cleanup.
LEMMA RunStep ==
    ASSUME ExeInv, NEW p \in Procs,
           \/ Interrupt(p) \/ ForwardSignal(p) \/ ChildEnds(p) \/ Wait(p)
           \/ Cleanup(p) \/ Return(p) \/ \E q \in Procs : RemoveStale(p, q)
    PROVE  ExeInv'
<1>1. CommandInv(p) /\ ExeShared
  BY DEF ExeInv
<1>2. exe[p].code \in Int
  BY <1>1 DEF CommandInv, ExeShape
<1> USE DEF Set, Becomes, ExeShared, CommandInv, ExeShape
<1>3. CASE Interrupt(p)
  <2>1. CASE exe[p].pc = "wait"
    <3>1. Becomes(p, "wait", exe[p].try, exe[p].php, exe[p].child, exe[p].why, exe[p].code)
      BY <1>1, <1>3, <2>1, SMT DEF Interrupt
    <3>2. exe[p].child \in {"running"} \union Outcomes
      BY <1>1, <2>1 DEF StatusInv
    <3> HIDE DEF Becomes
    <3> QED
      BY <1>2, <1>3, <2>1, <3>1, <3>2, ChildStep DEF Interrupt
  <2>2. CASE exe[p].pc # "wait"
    <3>1. Becomes(p, "dead", exe[p].try, exe[p].php, exe[p].child, exe[p].why, exe[p].code)
      BY <1>1, <1>3, <2>2, SMT DEF Interrupt, Go
    <3> HIDE DEF Becomes
    <3> QED
      BY <1>1, <1>2, <1>3, <3>1, MoveOn DEF Interrupt
  <2> QED
    BY <2>1, <2>2
<1>4. CASE ForwardSignal(p)
  <2>1. PICK c \in {exe[p].child} \union (IF exe[p].child = "running" THEN {"killed"} ELSE {}) :
            Set(p, [exe[p] EXCEPT !.signal = FALSE, !.child = c])
    BY <1>4 DEF ForwardSignal
  <2>2. Becomes(p, "wait", exe[p].try, exe[p].php, c, exe[p].why, exe[p].code)
    BY <1>1, <1>4, <2>1 DEF ForwardSignal
  <2>3. c \in {"running"} \union Outcomes
    BY <1>1, <1>4 DEF ForwardSignal, StatusInv, Outcomes
  <2> HIDE DEF Becomes
  <2> QED
    BY <1>2, <1>4, <2>2, <2>3, ChildStep DEF ForwardSignal
<1>5. CASE ChildEnds(p)
  <2>1. PICK o \in Outcomes : Set(p, [exe[p] EXCEPT !.child = o])
    BY <1>5 DEF ChildEnds
  <2>2. Becomes(p, exe[p].pc, exe[p].try, exe[p].php, o, exe[p].why, exe[p].code)
    BY <1>1, <2>1
  <2> HIDE DEF Becomes
  <2> QED
    BY <1>2, <1>5, <2>2, ChildStep DEF ChildEnds
<1>6. CASE Wait(p)
  <2>1. Becomes(p, "cleanup", exe[p].try, exe[p].php, exe[p].child, exe[p].why, ExitCode(exe[p].child))
    BY <1>1, <1>6 DEF Wait
  <2>2. ExitCode(exe[p].child) \in Int
    BY <1>6, SMT DEF Wait, ExitCode, Outcomes
  <2> HIDE DEF Becomes
  <2> QED
    BY <1>6, <2>1, <2>2, ChildStep DEF Wait
<1>7. CASE Cleanup(p)
  <2>1. Becomes(p, "scan", exe[p].try, exe[p].php, exe[p].child, exe[p].why, exe[p].code)
    BY <1>1, <1>7, SMT DEF Cleanup
  <2>2. tmp' \in [Procs -> {"none", "new", "old"}] /\ tmp'[p] = "none"
        /\ \A q \in Procs \ {p} : tmp'[q] \in {tmp[q], "none"}
    BY <1>1, <1>7 DEF Cleanup
  <2> HIDE DEF Becomes
  <2> QED
    BY <1>2, <1>7, <2>1, <2>2, MoveOn DEF Cleanup
<1>8. CASE Return(p)
  <2>1. Becomes(p, "end", exe[p].try, exe[p].php, exe[p].child, exe[p].why, exe[p].code)
    BY <1>1, <1>8 DEF Return
  <2> HIDE DEF Becomes
  <2> QED
    BY <1>1, <1>2, <1>8, <2>1, MoveOn DEF Return
<1>9. ASSUME NEW q \in Procs, RemoveStale(p, q) PROVE ExeInv'
  <2>1. Becomes(p, "scan", exe[p].try, exe[p].php, exe[p].child, exe[p].why, exe[p].code)
    BY <1>1, <1>9 DEF RemoveStale
  <2>2. /\ tmp' \in [Procs -> {"none", "new", "old"}]
        /\ \A o \in Procs : tmp'[o] \in {tmp[o], "none"}
    BY <1>1, <1>9 DEF RemoveStale
  <2> HIDE DEF Becomes
  <2> QED
    BY <1>2, <1>9, <2>1, <2>2, MoveOn DEF RemoveStale
<1> QED
  BY <1>3, <1>4, <1>5, <1>6, <1>7, <1>8, <1>9

\* The three lookups of Config.
LEMMA LookupsStep ==
    ASSUME ExeInv, NEW p \in Procs, lookupPHP(p) \/ StatBinary(p)
    PROVE  ExeInv'
<1>1. CommandInv(p) /\ ExeShared
  BY DEF ExeInv
<1>2. /\ disk \in Nat /\ disk >= 1 /\ cache \in Nat /\ cache >= 1 /\ cache <= disk
      /\ exe[p].php \in Nat /\ exe[p].php >= 1 /\ exe[p].php <= disk
      /\ exe[p].try \in {0, 1, 2} /\ exe[p].code \in Int
  <2>1. \A v \in Versions : v \in Nat /\ v >= 1
    BY VersionsAssumption, SMT
  <2> QED
    BY <1>1, <2>1 DEF CommandInv, ExeShape, ExeShared
<1>3. ASSUME NEW v, LookupError(p, v), exe[p].pc \in {"lookup", "stat"}, UNCHANGED <<disk, tmp>>,
             cache' \in {cache, disk}, v \in {exe[p].php, cache'},
             disk <= 3 /\ BinName[p] \in Bins[1] =>
                IF exe[p].try < 2 THEN disk = 3 \/ (disk = 2 /\ BinName[p] \notin Bins[2])
                ELSE BinName[p] \notin Bins[v]
      PROVE  ExeInv'
  <2>1. CASE exe[p].try < 2
    <3>1. Becomes(p, "lookup", 2, v, exe[p].child, exe[p].why, exe[p].code)
      <4>1. Set(p, [exe[p] EXCEPT !.pc = "lookup", !.php = v, !.try = 2])
        BY <1>3, <2>1 DEF LookupError
      <4> QED
        BY <1>1, <4>1 DEF Set, Becomes, ExeShared, CommandInv, ExeShape
    <3>2. LookupInv(p)'
      BY <1>1, <1>3, <2>1, <3>1 DEF Becomes, LookupInv, CommandInv
    <3> QED
      BY <1>2, <1>3, <3>1, <3>2, LookupStep
  <2>2. CASE ~(exe[p].try < 2)
    <3>1. Becomes(p, "end", exe[p].try, v, exe[p].child, "lookup", 1)
      <4>1. Set(p, [exe[p] EXCEPT !.pc = "end", !.php = v, !.why = "lookup", !.code = 1])
        BY <1>3, <2>2 DEF LookupError
      <4> QED
        BY <1>1, <4>1 DEF Set, Becomes, ExeShared, CommandInv, ExeShape
    <3>2. LookupInv(p)'
      BY <1>3, <2>2, <3>1 DEF Becomes, LookupInv
    <3> QED
      BY <1>2, <1>3, <3>1, <3>2, LookupStep, SMTT(30)
  <2> QED
    BY <2>1, <2>2
<1>4. CASE lookupPHP(p)
  <2>1. /\ exe[p].pc = "lookup" /\ UNCHANGED <<disk, tmp>>
        /\ cache' = IF exe[p].try > 0 THEN disk ELSE cache
    BY <1>4 DEF lookupPHP
  <2>2. cache' \in {cache, disk} /\ cache' \in Nat /\ cache' >= 1 /\ cache' <= disk
    BY <1>2, <2>1, SMT
  <2>3. CASE BinName[p] \in Bins[cache']
    <3>1. Becomes(p, "stat", exe[p].try, cache', exe[p].child, exe[p].why, exe[p].code)
      <4>1. Set(p, [exe[p] EXCEPT !.pc = "stat", !.php = cache'])
        BY <1>4, <2>3, ZenonT(60) DEF lookupPHP
      <4> QED
        BY <1>1, <4>1 DEF Set, Becomes, ExeShared, CommandInv, ExeShape
    <3>2. LookupInv(p)'
      BY <1>1, <1>2, <2>1, <2>2, <2>3, <3>1, SMT DEF Becomes, LookupInv, CommandInv
    <3> QED
      BY <1>2, <2>1, <2>2, <3>1, <3>2, LookupStep
  <2>4. CASE BinName[p] \notin Bins[cache']
    <3>1. LookupError(p, cache')
      BY <1>4, <2>4 DEF lookupPHP
    <3>2. disk <= 3 /\ BinName[p] \in Bins[1] => disk = 3 \/ (disk = 2 /\ BinName[p] \notin Bins[2])
      BY <1>2, <2>2, <2>4, SMT
    <3> QED
      BY <1>3, <2>1, <2>2, <2>4, <3>1, <3>2
  <2> QED
    BY <2>3, <2>4
<1>5. CASE StatBinary(p)
  <2>1. exe[p].pc = "stat" /\ UNCHANGED <<disk, cache, tmp>>
    BY <1>5 DEF StatBinary
  <2>2. disk <= 3 /\ BinName[p] \in Bins[1] => BinName[p] \in Bins[exe[p].php] /\ exe[p].php > exe[p].try
    BY <1>1, <2>1 DEF CommandInv, LookupInv
  <2>3. CASE exe[p].php = disk
    <3>1. Becomes(p, "mkdir", exe[p].try, exe[p].php, exe[p].child, exe[p].why, exe[p].code)
      BY <1>1, <1>5, <2>3, SMT DEF StatBinary, Go, Set, Becomes, ExeShared, CommandInv, ExeShape
    <3> QED
      BY <1>1, <1>2, <2>1, <3>1, MoveOn DEF ExeShared
  <2>4. CASE exe[p].php # disk /\ exe[p].try = 0
    <3>1. Becomes(p, "lookup", 1, exe[p].php, exe[p].child, exe[p].why, exe[p].code)
      <4>1. Set(p, [exe[p] EXCEPT !.pc = "lookup", !.try = 1])
        BY <1>5, <2>4 DEF StatBinary
      <4> QED
        BY <1>1, <4>1 DEF Set, Becomes, ExeShared, CommandInv, ExeShape
    <3>2. LookupInv(p)'
      BY <1>1, <1>2, <2>1, <2>4, <3>1, SMT DEF Becomes, LookupInv, CommandInv
    <3> QED
      BY <1>2, <2>1, <3>1, <3>2, LookupStep
  <2>5. CASE exe[p].php # disk /\ exe[p].try # 0
    <3>1. LookupError(p, exe[p].php)
      BY <1>5, <2>5 DEF StatBinary
    <3>2. disk <= 3 /\ BinName[p] \in Bins[1] => disk = 3 /\ exe[p].try < 2
      BY <1>2, <2>2, <2>5, SMT
    <3> QED
      BY <1>3, <2>1, <3>1, <3>2
  <2> QED
    BY <2>3, <2>4, <2>5
<1> QED
  BY <1>4, <1>5

\* A directory gets old, and PHP is upgraded.
LEMMA WorldStep ==
    ASSUME ExeInv, Upgrade \/ \E p \in Procs : Age(p)
    PROVE  ExeInv'
<1>1. CASE Upgrade
  <2>1. ASSUME NEW p \in Procs PROVE CommandInv(p)'
    <3>1. /\ CommandInv(p) /\ exe' = exe /\ tmp' = tmp /\ disk' = disk + 1 /\ disk \in Nat
          /\ exe[p].php \in Nat
      BY <1>1, VersionsAssumption DEF Upgrade, ExeInv, ExeShared, CommandInv, ExeShape
    <3>2. ExeShape(p)'
      BY <3>1, SMT DEF CommandInv, ExeShape
    <3>3. TmpInv(p)' /\ StatusInv(p)'
      BY <3>1 DEF CommandInv, TmpInv, StatusInv
    <3>4. LookupInv(p)'
      BY <3>1, SMT DEF CommandInv, ExeShape, LookupInv
    <3> QED
      BY <3>2, <3>3, <3>4 DEF CommandInv
  <2>2. ExeShared'
    <3>1. /\ ExeShared /\ disk + 1 \in Versions /\ disk' = disk + 1
          /\ cache' = cache /\ exe' = exe /\ tmp' = tmp
      BY <1>1, Zenon DEF Upgrade, ExeInv
    <3>2. disk \in Nat /\ cache \in Nat /\ cache <= disk
      BY <3>1, VersionsAssumption, Zenon DEF ExeShared
    <3>3. cache <= disk + 1
      BY <3>2, SMT
    <3> QED
      BY <3>1, <3>3, Zenon DEF ExeShared
  <2> QED
    BY <2>1, <2>2 DEF ExeInv
<1>2. ASSUME NEW p \in Procs, Age(p) PROVE ExeInv'
  <2>1. ExeShared'
    BY <1>2 DEF Age, ExeInv, ExeShared
  <2>2. ASSUME NEW q \in Procs PROVE CommandInv(q)'
    <3>1. CommandInv(q) /\ UNCHANGED <<disk, exe>> /\ (tmp[q] = "none" => tmp'[q] = "none")
      BY <1>2 DEF Age, ExeInv, ExeShared
    <3> QED
      BY <3>1, ZenonT(60) DEF CommandInv, ExeShape, TmpInv, StatusInv, LookupInv
  <2> QED
    BY <2>1, <2>2 DEF ExeInv
<1> QED
  BY <1>1, <1>2

\* The invariant holds first, and every step keeps it.
LEMMA ExeInvariant == ExeSpec => []ExeInv
<1>1. (\E c \in BOOLEAN : ExeInit("config", c)) => ExeInv
  <2> SUFFICES ASSUME NEW c, ExeInit("config", c) PROVE ExeInv
    OBVIOUS
  <2>1. ExeShared
    <3>1. 1 \in Versions /\ 1 <= 1
      BY VersionsAssumption, SMT
    <3>2. disk = 1 /\ cache = 1 /\ DOMAIN exe = Procs /\ tmp = [p \in Procs |-> "none"]
      BY Zenon DEF ExeInit
    <3> QED
      BY <3>1, <3>2 DEF ExeShared
  <2>2. ASSUME NEW p \in Procs PROVE CommandInv(p)
    <3>1. exe[p] = [pc |-> "config", try |-> 0, php |-> 1, child |-> "none", scan |-> {},
                    inCloud |-> c, signal |-> FALSE, why |-> "none", code |-> 0]
          /\ tmp[p] = "none" /\ disk = 1 /\ 1 \in Versions
      BY VersionsAssumption DEF ExeInit
    <3>2. /\ exe[p].pc = "config" /\ exe[p].try = 0 /\ exe[p].php = 1 /\ exe[p].child = "none"
          /\ exe[p].why = "none" /\ exe[p].code = 0
      BY <3>1, SMT
    <3>6. DOMAIN exe[p] = {"pc", "try", "php", "child", "scan", "inCloud", "signal", "why", "code"}
      BY <3>1
    <3>3. tmp[p] = "none" /\ disk = 1 /\ 1 \in Versions
      BY <3>1
    <3>4. ExeShape(p)
      BY <3>2, <3>3, <3>6, SMT DEF ExeShape
    <3>5. TmpInv(p) /\ StatusInv(p) /\ LookupInv(p)
      BY <3>2, <3>3 DEF TmpInv, StatusInv, LookupInv
    <3> QED
      BY <3>4, <3>5 DEF CommandInv
  <2> QED
    BY <2>1, <2>2 DEF ExeInv
<1>2. ExeInv /\ [ExeNext]_exeVars => ExeInv'
  <2> SUFFICES ASSUME ExeInv, [ExeNext]_exeVars PROVE ExeInv'
    OBVIOUS
  <2>1. CASE UNCHANGED exeVars
    BY <2>1, SMT DEF exeVars, ExeInv, ExeShared, CommandInv, ExeShape, TmpInv, StatusInv, LookupInv
  <2>2. CASE ExeNext
    BY <2>2, ConfigStep, RunStep, LookupsStep, WorldStep DEF ExeNext, ExeStep
  <2> QED
    BY <2>1, <2>2
<1> QED
  BY <1>1, <1>2, PTL DEF ExeSpec

\* A command that returns has removed its temporary directory, unless Config
\* failed at the links in it.
THEOREM TempRemovedAlways == ExeSpec => []TempRemoved
<1>1. ExeInv => TempRemoved
  BY DEF ExeInv, CommandInv, TmpInv, TempRemoved
<1> QED
  BY <1>1, ExeInvariant, PTL

\* The status of a command is 0 exactly when its PHP ended so.
THEOREM StatusOfChildAlways == ExeSpec => []StatusOfChild
<1>1. ExeInv => StatusOfChild
  BY SMT DEF ExeInv, CommandInv, StatusInv, StatusOfChild
<1> QED
  BY <1>1, ExeInvariant, PTL

\* Config finds PHP in spite of two upgrades, at any of the points between its
\* lookups, by any number of commands that share the list of versions; but
\* only for a binary that the first version had: a list without the binary
\* costs one of the three lookups.
THEOREM ExecuteSoundAlways ==
    Versions \subseteq 1 .. 3 /\ (\A p \in Procs : BinName[p] \in Bins[1]) =>
        (ExeSpec => []ExecuteSound)
<1> SUFFICES ASSUME Versions \subseteq 1 .. 3, \A p \in Procs : BinName[p] \in Bins[1]
             PROVE  ExeSpec => []ExecuteSound
  OBVIOUS
<1>1. ExeInv => ExecuteSound
  <2> SUFFICES ASSUME ExeInv PROVE ExecuteSound
    OBVIOUS
  <2>1. TempRemoved /\ StatusOfChild
    BY SMT DEF ExeInv, CommandInv, TmpInv, StatusInv, TempRemoved, StatusOfChild
  <2>2. disk <= 3
    BY SMT DEF ExeInv, ExeShared
  <2>3. UpgradeTolerated
    BY <2>2 DEF ExeInv, CommandInv, LookupInv, UpgradeTolerated
  <2> QED
    BY <2>1, <2>3 DEF ExecuteSound
<1> QED
  BY <1>1, ExeInvariant, PTL

-----------------------------------------------------------------------------
(* The settings of the server.                                             *)

IsFile(f) == f \in {NoFile, BadFile} \/ DOMAIN f = {"keys", "deprecated", "workers"}

SettingsSpec ==
    /\ \E F, flags, dir : \E files \in Seq(F) : ConfInit(files, flags, dir, "files")
    /\ \A i \in DOMAIN given.files : IsFile(given.files[i])
    /\ [][ConfNext]_confVars

\* The files read so far, those that say a key, remove a worker or give it a
\* command.
ReadFiles == {i \in 1 .. (fileNo - 1) : given.files[i] \notin {NoFile, BadFile}}
Saying(k) == {i \in ReadFiles : k \in DOMAIN given.files[i].keys \union DOMAIN given.files[i].deprecated}
Removing(n) == {i \in ReadFiles : WorkerOf(n, i) = Null}
Giving(n) == {i \in ReadFiles : "cmd" \in DOMAIN WorkerOf(n, i)}

IsLast(i, S) == i \in S /\ \A j \in S : j <= i

FilesShape ==
    /\ Len(given.files) \in Nat /\ DOMAIN given.files = 1 .. Len(given.files)
    /\ fileNo \in 1 .. Len(given.files) + 1
    /\ \A i \in DOMAIN given.files : IsFile(given.files[i])
    /\ DOMAIN config = {"keys", "workers"} /\ DOMAIN project = {"kind", "root", "script"}
    /\ loading \in {"files", "flags", "new", "ready", "failed"}
    /\ loading \in {"flags", "new", "ready"} => fileNo = Len(given.files) + 1

\* A key has the value of the last file that says it.
KeysInv ==
    loading \in {"files", "flags"} =>
        \A k : IF Saying(k) = {} THEN k \notin DOMAIN config.keys
               ELSE /\ k \in DOMAIN config.keys
                    /\ \E i \in Saying(k) :
                         /\ IsLast(i, Saying(k))
                         /\ config.keys[k] = Over(given.files[i].deprecated, given.files[i].keys)[k]

\* A command is that of the last file that gives one, after the last that
\* removes the worker.
WorkersInv ==
    /\ \A n : Removing(n) = {} \/ \E i \in Removing(n) : IsLast(i, Removing(n))
    /\ \A n \in DOMAIN config.workers : "cmd" \in DOMAIN config.workers[n] =>
         \E i \in Giving(n) :
            /\ IsLast(i, Giving(n)) /\ \A j \in Removing(n) : j < i
            /\ config.workers[n].cmd = WorkerOf(n, i).cmd
    /\ loading \in {"flags", "new", "ready"} =>
         \A n \in DOMAIN config.workers : "cmd" \in DOMAIN config.workers[n]

ScriptInv == PhpHasScript /\ (project.kind = "php" => loading = "ready")

SettingsInv == FilesShape /\ KeysInv /\ WorkersInv /\ LastWord /\ ScriptInv

\* The file that is read is added to the ones read, unless there is none.
LEMMA ReadLemma ==
    ASSUME FilesShape, ReadFile
    PROVE  /\ fileNo \in 1 .. Len(given.files) /\ fileNo' = fileNo + 1 /\ given' = given /\ project' = project
           /\ given.files[fileNo] \in {NoFile, BadFile} => ReadFiles' = ReadFiles /\ config' = config
           /\ given.files[fileNo] \notin {NoFile, BadFile} =>
                ReadFiles' = ReadFiles \union {fileNo} /\ loading' = "files"
           /\ \A i \in ReadFiles : i < fileNo /\ i \in 1 .. Len(given.files)
           /\ \A n, i : WorkerOf(n, i)' = WorkerOf(n, i)
<1>1. fileNo \in 1 .. Len(given.files) /\ fileNo' = fileNo + 1 /\ given' = given /\ project' = project
  BY SMTT(30) DEF FilesShape, ReadFile
<1>2. \A i \in ReadFiles : i < fileNo /\ i \in 1 .. Len(given.files)
  BY <1>1, SMTT(30) DEF ReadFiles, FilesShape
<1>3. ReadFiles' = {i \in 1 .. fileNo : given.files[i] \notin {NoFile, BadFile}}
  BY <1>1, SMTT(30) DEF ReadFiles
<1>4. given.files[fileNo] \in {NoFile, BadFile} => ReadFiles' = ReadFiles /\ config' = config
  BY <1>1, <1>3, SMTT(30) DEF ReadFiles, ReadFile
<1>5. given.files[fileNo] \notin {NoFile, BadFile} => ReadFiles' = ReadFiles \union {fileNo} /\ loading' = "files"
  BY <1>1, <1>3, SMTT(30) DEF ReadFiles, ReadFile
<1>6. \A n, i : WorkerOf(n, i)' = WorkerOf(n, i)
  BY <1>1 DEF WorkerOf
<1> QED
  BY <1>1, <1>2, <1>4, <1>5, <1>6, ZenonT(60)

\* mergeWorkers drops the workers that are null, and merges the others.
LEMMA MergeLemma ==
    ASSUME NEW old, NEW new
    PROVE  /\ DOMAIN mergeWorkers(old, new) =
                {n \in DOMAIN old : n \in DOMAIN new => new[n] # Null} \union {n \in DOMAIN new : new[n] # Null}
           /\ \A n \in DOMAIN new : new[n] # Null =>
                mergeWorkers(old, new)[n] = Over(new[n], IF n \in DOMAIN old THEN old[n] ELSE Nothing)
           /\ \A n \in DOMAIN old \ DOMAIN new : mergeWorkers(old, new)[n] = old[n]
<1> DEFINE kept == {n \in DOMAIN old : n \in DOMAIN new => new[n] # Null}
           left == [n \in kept |-> old[n]]
           all == kept \union {n \in DOMAIN new : new[n] # Null}
<1>1. DOMAIN left = kept
  OBVIOUS
<1>2. mergeWorkers(old, new) =
        [n \in all |-> IF n \in DOMAIN new /\ new[n] # Null
                       THEN Over(new[n], IF n \in kept THEN left[n] ELSE Nothing) ELSE left[n]]
  BY <1>1 DEF mergeWorkers, mergeWorkers_Keeps
<1>3. \A n \in DOMAIN new : new[n] # Null => (n \in kept <=> n \in DOMAIN old)
  OBVIOUS
<1>4. \A n \in kept : left[n] = old[n]
  OBVIOUS
<1>5. DOMAIN mergeWorkers(old, new) = all
  BY <1>2
<1>6. ASSUME NEW n \in DOMAIN new, new[n] # Null
      PROVE  mergeWorkers(old, new)[n] = Over(new[n], IF n \in DOMAIN old THEN old[n] ELSE Nothing)
  <2> HIDE DEF kept, left
  <2>1. n \in all
    BY <1>6
  <2>2. (IF n \in kept THEN left[n] ELSE Nothing) = (IF n \in DOMAIN old THEN old[n] ELSE Nothing)
    BY <1>3, <1>4, <1>6
  <2> QED
    BY <1>2, <1>6, <2>1, <2>2
<1>7. ASSUME NEW n \in DOMAIN old \ DOMAIN new
      PROVE  mergeWorkers(old, new)[n] = old[n]
  <2>1. n \in kept
    OBVIOUS
  <2> QED
    BY <1>2, <1>4, <2>1
<1> QED
  BY <1>5, <1>6, <1>7

\* What a file that was read makes of the settings.
LEMMA MergedLemma ==
    ASSUME FilesShape, ReadFile, given.files[fileNo] \notin {NoFile, BadFile}
    PROVE  /\ DOMAIN config' = {"keys", "workers"}
           /\ config'.keys = Over(Over(given.files[fileNo].deprecated, given.files[fileNo].keys), config.keys)
           /\ config'.workers = mergeWorkers(config.workers, parseWorkers(given.files[fileNo].workers))
<1> DEFINE f == given.files[fileNo]
<1>1. DOMAIN f = {"keys", "deprecated", "workers"}
  BY SMT DEF FilesShape, IsFile, ReadFile
<1>2. config' = mergeWithFileConfig(config, newConfigFromFile(f))
  BY DEF ReadFile
<1> HIDE DEF f
<1>3. /\ newConfigFromFile(f).keys = f.keys /\ newConfigFromFile(f).deprecated = f.deprecated
      /\ newConfigFromFile(f).workers = parseWorkers(f.workers)
  BY <1>1 DEF newConfigFromFile
<1>4. DOMAIN config = {"keys", "workers"}
  BY DEF FilesShape
<1> QED
  BY <1>2, <1>3, <1>4 DEF mergeWithFileConfig, f

LEMMA NullLemma ==
    /\ "cmd" \notin DOMAIN Null /\ "cmd" \notin DOMAIN Nothing /\ DOMAIN Nothing = {}
    /\ Nothing # Null
<1>1. DOMAIN Null = {"null"}
  BY DEF Null
<1>2. DOMAIN Nothing = {}
  BY SMT DEF Nothing
<1> QED
  BY <1>1, <1>2

LEMMA KeysStep ==
    ASSUME FilesShape, KeysInv, ReadFile
    PROVE  KeysInv'
<1> USE DEF IsLast
<1>1. loading = "files" /\ fileNo \in Nat
  BY SMT DEF ReadFile, FilesShape
<1>2. CASE given.files[fileNo] \in {NoFile, BadFile}
  <2>1. given' = given /\ config' = config /\ \A k : Saying(k)' = Saying(k)
    BY <1>2, ReadLemma DEF Saying
  <2> QED
    BY <1>1, <2>1 DEF KeysInv
<1>3. CASE given.files[fileNo] \notin {NoFile, BadFile}
  <2> DEFINE f == given.files[fileNo]
             new == Over(f.deprecated, f.keys)
  <2>1. given' = given /\ loading' = "files" /\ config'.keys = Over(new, config.keys)
    BY <1>3, ReadLemma, MergedLemma
  <2>2. DOMAIN new = DOMAIN f.keys \union DOMAIN f.deprecated
    BY DEF Over
  <2> HIDE DEF new
  <2>3. /\ DOMAIN config'.keys = DOMAIN new \union DOMAIN config.keys
        /\ \A k \in DOMAIN new : config'.keys[k] = new[k]
        /\ \A k \in DOMAIN config.keys \ DOMAIN new : config'.keys[k] = config.keys[k]
    BY <2>1 DEF Over
  <2>4. \A k : /\ k \in DOMAIN new => Saying(k)' = Saying(k) \union {fileNo}
               /\ k \notin DOMAIN new => Saying(k)' = Saying(k)
    BY <1>3, <2>2, ReadLemma, ZenonT(60) DEF Saying
  <2>5. \A k : \A i \in Saying(k) : i \in Nat /\ i < fileNo
    BY <1>3, ReadLemma, SMTT(30) DEF Saying
  <2>6. ASSUME NEW k
        PROVE  IF Saying(k)' = {} THEN k \notin DOMAIN config'.keys
               ELSE /\ k \in DOMAIN config'.keys
                    /\ \E i \in Saying(k)' :
                         /\ IsLast(i, Saying(k)')
                         /\ config'.keys[k] = Over(given.files[i].deprecated, given.files[i].keys)[k]
    <3>1. CASE k \in DOMAIN new
      <4>1. IsLast(fileNo, Saying(k)') /\ fileNo \in Saying(k)'
        BY <1>1, <2>4, <2>5, <3>1, SMTT(30)
      <4>2. config'.keys[k] = Over(given.files[fileNo].deprecated, given.files[fileNo].keys)[k]
        BY <2>3, <3>1 DEF new
      <4> QED
        BY <2>3, <3>1, <4>1, <4>2
    <3>2. CASE k \notin DOMAIN new
      BY <1>1, <2>3, <2>4, <3>2, ZenonT(60) DEF KeysInv
    <3> QED
      BY <3>1, <3>2
  <2> QED
    BY <2>1, <2>6 DEF KeysInv
<1> QED
  BY <1>2, <1>3

LEMMA WorkersStep ==
    ASSUME FilesShape, WorkersInv, ReadFile
    PROVE  WorkersInv'
<1> USE DEF IsLast
<1>1. loading = "files" /\ loading' \notin {"flags", "new", "ready"} /\ fileNo \in Nat
  BY SMT DEF ReadFile, FilesShape
<1>2. CASE given.files[fileNo] \in {NoFile, BadFile}
  <2>1. /\ given' = given /\ config' = config /\ \A n, i : WorkerOf(n, i)' = WorkerOf(n, i)
        /\ \A n : Removing(n)' = Removing(n) /\ Giving(n)' = Giving(n)
    BY <1>2, ReadLemma DEF Removing, Giving
  <2> QED
    BY <1>1, <2>1 DEF WorkersInv
<1>3. CASE given.files[fileNo] \notin {NoFile, BadFile}
  <2> DEFINE new == parseWorkers(given.files[fileNo].workers)
             old == config.workers
  <2>1. given' = given /\ loading' = "files" /\ config'.workers = mergeWorkers(old, new)
    BY <1>3, ReadLemma, MergedLemma
  <2>2. \A n, i : WorkerOf(n, i)' = WorkerOf(n, i)
    BY ReadLemma
  <2>3. \A n : /\ n \in DOMAIN new => WorkerOf(n, fileNo) = new[n]
               /\ n \notin DOMAIN new => WorkerOf(n, fileNo) = Nothing
    BY DEF WorkerOf, parseWorkers
  <2> HIDE DEF new, old
  <2>4. /\ DOMAIN mergeWorkers(old, new) =
             {n \in DOMAIN old : n \in DOMAIN new => new[n] # Null} \union {n \in DOMAIN new : new[n] # Null}
        /\ \A n \in DOMAIN new : new[n] # Null =>
             mergeWorkers(old, new)[n] = Over(new[n], IF n \in DOMAIN old THEN old[n] ELSE Nothing)
        /\ \A n \in DOMAIN old \ DOMAIN new : mergeWorkers(old, new)[n] = old[n]
    BY MergeLemma
  <2>5. ReadFiles' = ReadFiles \union {fileNo} /\ \A i \in ReadFiles : i \in Nat /\ i < fileNo
    BY <1>3, ReadLemma, SMTT(30)
  <2>6. \A n : /\ WorkerOf(n, fileNo) = Null => Removing(n)' = Removing(n) \union {fileNo}
               /\ WorkerOf(n, fileNo) # Null => Removing(n)' = Removing(n)
               /\ "cmd" \in DOMAIN WorkerOf(n, fileNo) => Giving(n)' = Giving(n) \union {fileNo}
               /\ "cmd" \notin DOMAIN WorkerOf(n, fileNo) => Giving(n)' = Giving(n)
    BY <2>2, <2>5 DEF Removing, Giving
  <2>7. \A n : \A i \in Removing(n) \union Giving(n) : i \in Nat /\ i < fileNo
    BY <2>5, ZenonT(60) DEF Removing, Giving
  <2>8. ASSUME NEW n
        PROVE  Removing(n)' = {} \/ \E i \in Removing(n)' : IsLast(i, Removing(n)')
    BY <1>1, <2>6, <2>7, SMTT(30) DEF WorkersInv
  <2>9. ASSUME NEW n \in DOMAIN config'.workers, "cmd" \in DOMAIN config'.workers[n]
        PROVE  \E i \in Giving(n)' :
                  /\ IsLast(i, Giving(n)') /\ \A j \in Removing(n)' : j < i
                  /\ config'.workers[n].cmd = WorkerOf(n, i).cmd
    <3>1. CASE n \in DOMAIN new /\ "cmd" \in DOMAIN new[n]
      <4>1. WorkerOf(n, fileNo) = new[n] /\ new[n] # Null
        BY <2>3, <3>1, NullLemma
      <4>2. config'.workers[n].cmd = new[n].cmd
        BY <2>1, <2>4, <3>1, <4>1, ZenonT(60) DEF Over
      <4>3. fileNo \in Giving(n)' /\ IsLast(fileNo, Giving(n)') /\ \A j \in Removing(n)' : j < fileNo
        BY <1>1, <2>6, <2>7, <3>1, <4>1, SMT
      <4> QED
        BY <4>1, <4>2, <4>3, ZenonT(60)
    <3>2. CASE ~ (n \in DOMAIN new /\ "cmd" \in DOMAIN new[n])
      <4>1. "cmd" \notin DOMAIN WorkerOf(n, fileNo)
        BY <2>3, <3>2, NullLemma
      <4>2. WorkerOf(n, fileNo) # Null
        BY <2>1, <2>3, <2>4, <2>9, NullLemma, ZenonT(60)
      <4>3. n \in DOMAIN old /\ "cmd" \in DOMAIN old[n] /\ config'.workers[n].cmd = old[n].cmd
        <5>1. CASE n \in DOMAIN new
          <6>1. new[n] # Null
            BY <2>3, <4>2, <5>1
          <6>2. config'.workers[n] = Over(new[n], IF n \in DOMAIN old THEN old[n] ELSE Nothing)
            BY <2>1, <2>4, <5>1, <6>1, ZenonT(60)
          <6>3. n \in DOMAIN old
            BY <2>9, <3>2, <5>1, <6>2, NullLemma, ZenonT(60) DEF Over
          <6>4. config'.workers[n] = Over(new[n], old[n])
            BY <6>2, <6>3
          <6> QED
            BY <2>9, <3>2, <5>1, <6>3, <6>4, ZenonT(60) DEF Over
        <5>2. CASE n \notin DOMAIN new
          <6>1. n \in DOMAIN old /\ config'.workers[n] = old[n]
            BY <2>1, <2>4, <2>9, <5>2
          <6> QED
            BY <2>9, <6>1
        <5> QED
          BY <5>1, <5>2
      <4>4. \E i \in Giving(n) : /\ IsLast(i, Giving(n)) /\ \A j \in Removing(n) : j < i
                                 /\ old[n].cmd = WorkerOf(n, i).cmd
        BY <4>3 DEF WorkersInv, old
      <4> QED
        BY <2>6, <4>1, <4>2, <4>3, <4>4, ZenonT(60)
    <3> QED
      BY <3>1, <3>2
  <2> QED
    BY <2>1, <2>2, <2>8, <2>9, ZenonT(60) DEF WorkersInv
<1> QED
  BY <1>2, <1>3

LEMMA LastOfLemma ==
    ASSUME NEW S \in SUBSET Nat
    PROVE  /\ S = {} => LastOf(S) = 0
           /\ \A j \in S : IsLast(j, S) => LastOf(S) = j
<1>1. ASSUME NEW j \in S, IsLast(j, S)
      PROVE  LastOf(S) = j
  <2>1. \A i \in S : (\A l \in S : l <= i) => i = j
    BY <1>1, SMTT(30) DEF IsLast
  <2> QED
    BY <1>1, <2>1 DEF IsLast, LastOf
<1> QED
  BY <1>1 DEF LastOf

\* Once all files are read, the last file that says a key, removes a worker
\* or gives it a command is that of the specification.
LEMMA AllReadLemma ==
    ASSUME FilesShape, fileNo = Len(given.files) + 1
    PROVE  /\ ReadFiles = Settings /\ Settings \subseteq Nat \ {0}
           /\ \A k : {j \in Settings : k \in DOMAIN given.files[j].keys \union DOMAIN given.files[j].deprecated}
                       = Saying(k)
           /\ \A n : /\ {i \in Settings : WorkerOf(n, i) = Null} = Removing(n)
                     /\ {i \in Settings : "cmd" \in DOMAIN WorkerOf(n, i)} = Giving(n)
<1>1. ReadFiles = Settings
  BY SMTT(30) DEF ReadFiles, Settings, FilesShape
<1>2. Settings \subseteq Nat \ {0}
  BY SMT DEF Settings, FilesShape
<1> QED
  BY <1>1, <1>2 DEF Saying, Removing, Giving

LEMMA FlagsStep ==
    ASSUME FilesShape, KeysInv, MergeFlags
    PROVE  /\ LastWord' /\ config'.workers = config.workers /\ DOMAIN config' = {"keys", "workers"}
<1> DEFINE flags == given.flags
           read == {k \in DOMAIN FlagOf : FlagOf[k] \in DOMAIN flags}
           byFlag == [k \in read |-> flags[FlagOf[k]]]
           set == Over(byFlag, config.keys)
<1>1. /\ loading = "flags" /\ loading' = "new" /\ given' = given
      /\ fileNo = Len(given.files) + 1 /\ DOMAIN config = {"keys", "workers"}
  BY DEF MergeFlags, FilesShape
<1>2. PICK ip, preferred :
        /\ DOMAIN preferred \subseteq {"preferred_port"}
        /\ config' = [config EXCEPT !.keys = Over([listen_ip |-> ip], Over(preferred, set))]
  <2> DEFINE anIp == IF "allow-all-ip" \in DOMAIN flags THEN "any"
                     ELSE IF "listen-ip" \in DOMAIN flags THEN flags["listen-ip"] ELSE "127.0.0.1"
             aPort == IF "port" \in DOMAIN set /\ set.port # 0 THEN Nothing ELSE [preferred_port |-> 8000]
  <2>1. config' = [config EXCEPT !.keys = Over([listen_ip |-> anIp], Over(aPort, set))]
    BY SMTT(30) DEF MergeFlags, mergeWithContext
  <2>2. DOMAIN aPort \subseteq {"preferred_port"}
    BY NullLemma
  <2> HIDE DEF anIp, aPort, set
  <2> QED
    BY <2>1, <2>2
<1>3. "listen_ip" \notin DOMAIN FlagOf /\ "preferred_port" \notin DOMAIN FlagOf
  BY DEF FlagOf
<1> HIDE DEF set
<1>4. /\ config'.keys = Over([listen_ip |-> ip], Over(preferred, set))
      /\ config'.workers = config.workers /\ DOMAIN config' = {"keys", "workers"}
  BY <1>1, <1>2
<1>5. \A k \in DOMAIN FlagOf : /\ k \in DOMAIN config'.keys <=> k \in DOMAIN set
                               /\ k \in DOMAIN set => config'.keys[k] = set[k]
  BY <1>2, <1>3, <1>4 DEF Over
<1>6. \A k \in DOMAIN FlagOf :
        /\ k \in DOMAIN set <=> (FlagOf[k] \in DOMAIN flags \/ k \in DOMAIN config.keys)
        /\ FlagOf[k] \in DOMAIN flags => set[k] = flags[FlagOf[k]]
        /\ FlagOf[k] \notin DOMAIN flags /\ k \in DOMAIN config.keys => set[k] = config.keys[k]
  BY DEF set, Over
<1>7. ASSUME NEW k \in DOMAIN FlagOf, NEW i, i = LastOf(Saying(k))
      PROVE  /\ k \in DOMAIN config.keys <=> i # 0
             /\ i # 0 => config.keys[k] = Over(given.files[i].deprecated, given.files[i].keys)[k]
  <2>1. Saying(k) \subseteq Nat \ {0}
    BY <1>1, AllReadLemma DEF Saying
  <2>2. /\ Saying(k) = {} => i = 0
        /\ \A j \in Saying(k) : IsLast(j, Saying(k)) => i = j /\ j # 0
    BY <1>7, <2>1, LastOfLemma
  <2> QED
    BY <1>1, <2>2 DEF KeysInv
<1>8. \A k : {j \in Settings : k \in DOMAIN given.files[j].keys \union DOMAIN given.files[j].deprecated} = Saying(k)
  BY <1>1, AllReadLemma
<1>9. Settings' = Settings
  BY <1>1 DEF Settings
<1>10. LastWord'
  <2> SUFFICES ASSUME NEW k \in DOMAIN FlagOf, NEW i, i = LastOf(Saying(k))
               PROVE  LET f == given.files[i]
                          flag == FlagOf[k] \in DOMAIN flags
                      IN  /\ k \in DOMAIN config'.keys <=> (flag \/ i # 0)
                          /\ flag => config'.keys[k] = flags[FlagOf[k]]
                          /\ ~flag /\ i # 0 => config'.keys[k] = Over(f.deprecated, f.keys)[k]
    BY <1>1, <1>8, <1>9 DEF LastWord
  <2> QED
    BY <1>5, <1>6, <1>7
<1> QED
  BY <1>4, <1>10

LEMMA ScriptStep ==
    ASSUME FilesShape, ScriptInv, New
    PROVE  ScriptInv'
<1> DEFINE root == realDocumentRoot(given.dir, KeyOr("document_root", "none"))
           files == FilesUnder(given.dir, root)
           passthru == KeyOr("passthru", "none")
           script == realPassthru(files, passthru)
           kind == CASE script = "none" -> "files"
                     [] script # "none" /\ passthru = "index.html" -> "html"
                     [] OTHER -> "php"
<1>1. given' = given /\ config' = config /\ passthru' = passthru /\ loading = "new"
  BY DEF New, KeyOr
<1>2. \/ project' = [kind |-> kind, root |-> root, script |-> script] /\ loading' = "ready"
      \/ project' = project
  BY DEF New
<1>3. script = "none" \/ script \in files
  BY DEF realPassthru
<1> HIDE DEF root, passthru, script
<1>4. kind = "php" => script # "none" /\ passthru # "index.html"
  OBVIOUS
<1>5. CASE project' = [kind |-> kind, root |-> root, script |-> script] /\ loading' = "ready"
  <2>1. project'.kind = kind /\ project'.root = root /\ project'.script = script
    BY <1>5
  <2> HIDE DEF kind
  <2> QED
    BY <1>1, <1>3, <1>4, <1>5, <2>1 DEF ScriptInv, PhpHasScript, passthru, FilesUnder
<1>6. CASE project' = project
  BY <1>1, <1>6 DEF ScriptInv, PhpHasScript
<1> QED
  BY <1>2, <1>5, <1>6

LEMMA SettingsStep ==
    ASSUME SettingsInv, [ConfNext]_confVars
    PROVE  SettingsInv'
<1>0. FilesShape /\ KeysInv /\ WorkersInv /\ LastWord /\ ScriptInv
  BY DEF SettingsInv
<1>1. CASE ReadFile
  <2>1. KeysInv' /\ WorkersInv'
    BY <1>0, <1>1, KeysStep, WorkersStep
  <2>2. given' = given /\ project' = project /\ fileNo' = fileNo + 1 /\ fileNo \in 1 .. Len(given.files)
    BY <1>0, <1>1, ReadLemma, ZenonT(60)
  <2>3. DOMAIN config' = {"keys", "workers"}
    BY <1>0, <1>1, ReadLemma, MergedLemma, ZenonT(60) DEF FilesShape
  <2>4. loading = "files" /\ loading' \in {"files", "failed"}
    BY <1>1 DEF ReadFile
  <2>5. FilesShape'
    BY <1>0, <2>2, <2>3, <2>4, SMTT(30) DEF FilesShape
  <2>6. LastWord' /\ ScriptInv'
    BY <1>0, <2>2, <2>4 DEF LastWord, ScriptInv, PhpHasScript
  <2> QED
    BY <2>1, <2>5, <2>6 DEF SettingsInv
<1>2. CASE CheckWorkers
  <2>1. /\ given' = given /\ fileNo' = fileNo /\ config' = config /\ project' = project
        /\ loading = "files" /\ loading' \in {"flags", "failed"} /\ fileNo > Len(given.files)
        /\ loading' = "flags" => \A n \in DOMAIN config.workers : "cmd" \in DOMAIN config.workers[n]
    BY <1>2 DEF CheckWorkers
  <2>2. FilesShape'
    BY <1>0, <2>1, SMTT(30) DEF FilesShape
  <2>3. /\ \A n, i : WorkerOf(n, i)' = WorkerOf(n, i)
        /\ \A n : Saying(n)' = Saying(n) /\ Removing(n)' = Removing(n) /\ Giving(n)' = Giving(n)
    BY <2>1 DEF WorkerOf, Saying, Removing, Giving, ReadFiles
  <2>4. KeysInv'
    BY <1>0, <2>1, <2>3 DEF KeysInv
  <2>5. WorkersInv'
    BY <1>0, <2>1, <2>3 DEF WorkersInv
  <2>6. LastWord' /\ ScriptInv'
    BY <1>0, <2>1 DEF LastWord, ScriptInv, PhpHasScript
  <2> QED
    BY <2>2, <2>4, <2>5, <2>6 DEF SettingsInv
<1>3. CASE MergeFlags
  <2>1. LastWord' /\ config'.workers = config.workers /\ DOMAIN config' = {"keys", "workers"}
    BY <1>0, <1>3, FlagsStep
  <2>2. given' = given /\ fileNo' = fileNo /\ project' = project /\ loading = "flags" /\ loading' = "new"
    BY <1>3 DEF MergeFlags
  <2>3. FilesShape'
    BY <1>0, <2>1, <2>2 DEF FilesShape
  <2>4. /\ \A n, i : WorkerOf(n, i)' = WorkerOf(n, i)
        /\ \A n : Removing(n)' = Removing(n) /\ Giving(n)' = Giving(n)
    BY <2>2 DEF WorkerOf, Removing, Giving, ReadFiles
  <2>5. WorkersInv'
    BY <1>0, <2>1, <2>2, <2>4 DEF WorkersInv
  <2>6. KeysInv' /\ ScriptInv'
    BY <1>0, <2>2 DEF KeysInv, ScriptInv, PhpHasScript
  <2> QED
    BY <2>1, <2>3, <2>5, <2>6 DEF SettingsInv
<1>4. CASE New
  <2>1. given' = given /\ fileNo' = fileNo /\ config' = config /\ loading = "new" /\ loading' \in {"ready", "failed"}
    BY <1>4 DEF New
  <2>2. ScriptInv'
    BY <1>0, <1>4, ScriptStep
  <2>3. DOMAIN project' = {"kind", "root", "script"}
    BY <1>0, <1>4 DEF New, FilesShape
  <2>4. FilesShape'
    BY <1>0, <2>1, <2>3 DEF FilesShape
  <2>5. /\ \A n, i : WorkerOf(n, i)' = WorkerOf(n, i)
        /\ \A n : Removing(n)' = Removing(n) /\ Giving(n)' = Giving(n)
    BY <2>1 DEF WorkerOf, Removing, Giving, ReadFiles
  <2>6. KeysInv' /\ WorkersInv'
    BY <1>0, <2>1, <2>5 DEF KeysInv, WorkersInv
  <2>7. LastWord'
    BY <1>0, <2>1, ZenonT(60) DEF LastWord, Settings
  <2> QED
    BY <2>2, <2>4, <2>6, <2>7 DEF SettingsInv
<1>5. CASE UNCHANGED confVars
  <2>1. given' = given /\ fileNo' = fileNo /\ config' = config /\ loading' = loading /\ project' = project
    BY <1>5 DEF confVars
  <2>2. /\ \A n, i : WorkerOf(n, i)' = WorkerOf(n, i)
        /\ \A n : Saying(n)' = Saying(n) /\ Removing(n)' = Removing(n) /\ Giving(n)' = Giving(n)
    BY <2>1 DEF WorkerOf, Saying, Removing, Giving, ReadFiles
  <2>3. FilesShape' /\ LastWord' /\ ScriptInv'
    BY <1>0, <2>1, ZenonT(60) DEF FilesShape, LastWord, Settings, ScriptInv, PhpHasScript, KeyOr
  <2>4. KeysInv' /\ WorkersInv'
    BY <1>0, <2>1, <2>2 DEF KeysInv, WorkersInv
  <2> QED
    BY <2>3, <2>4 DEF SettingsInv
<1> QED
  BY <1>1, <1>2, <1>3, <1>4, <1>5, ZenonT(60) DEF ConfNext

LEMMA SettingsImplied ==
    ASSUME SettingsInv
    PROVE  SettingsSound
<1>1. ASSUME loading \in {"new", "ready"}, NEW n \in DOMAIN config.workers
      PROVE  LET gone == LastOf({i \in Settings : WorkerOf(n, i) = Null})
                 from == LastOf({i \in Settings : "cmd" \in DOMAIN WorkerOf(n, i)})
             IN  gone < from /\ config.workers[n].cmd = WorkerOf(n, from).cmd
  <2>1. FilesShape /\ WorkersInv /\ fileNo = Len(given.files) + 1
    BY <1>1 DEF SettingsInv, FilesShape
  <2>2. /\ {i \in Settings : WorkerOf(n, i) = Null} = Removing(n)
        /\ {i \in Settings : "cmd" \in DOMAIN WorkerOf(n, i)} = Giving(n)
        /\ Removing(n) \subseteq Nat \ {0} /\ Giving(n) \subseteq Nat \ {0}
    BY <2>1, AllReadLemma DEF Removing, Giving
  <2>3. PICK i \in Giving(n) : /\ IsLast(i, Giving(n)) /\ \A j \in Removing(n) : j < i
                               /\ config.workers[n].cmd = WorkerOf(n, i).cmd
    BY <1>1, <2>1 DEF WorkersInv
  <2>4. LastOf(Giving(n)) = i
    BY <2>2, <2>3, LastOfLemma, ZenonT(60)
  <2>5. LastOf(Removing(n)) < i
    BY <2>1, <2>2, <2>3, LastOfLemma, SMTT(30) DEF WorkersInv
  <2> QED
    BY <2>2, <2>3, <2>4, <2>5
<1> QED
  BY <1>1 DEF SettingsInv, SettingsSound, RemovedStaysRemoved, ScriptInv

\* For any number of files and any flags: a setting has the value of the flag,
\* or of the last file that gives it one (mergeWithFileConfig,
\* mergeWithContext), no worker runs a command that a later file removed
\* (parseWorkers and the merge of the workers), and PHP is only started for a
\* front controller that exists (New).
THEOREM SettingsSoundAlways == SettingsSpec => []SettingsSound
<1>1. ASSUME \E F, flags, dir : \E files \in Seq(F) : ConfInit(files, flags, dir, "files"),
             \A i \in DOMAIN given.files : IsFile(given.files[i])
      PROVE  SettingsInv
  <2>1. PICK F, flags, dir : \E files \in Seq(F) : ConfInit(files, flags, dir, "files")
    BY <1>1
  <2>2. PICK files \in Seq(F) : ConfInit(files, flags, dir, "files")
    BY <2>1
  <2>3. /\ given.files = files /\ loading = "files" /\ fileNo = 1
        /\ DOMAIN config = {"keys", "workers"} /\ config.keys = Nothing /\ config.workers = Nothing
        /\ DOMAIN project = {"kind", "root", "script"} /\ project.kind = "none"
    BY <2>2 DEF ConfInit
  <2>4. Len(given.files) \in Nat /\ DOMAIN given.files = 1 .. Len(given.files)
    BY <2>3, SMTT(30)
  <2>5. ReadFiles = {}
    BY <2>3, SMTT(30) DEF ReadFiles
  <2>6. \A n : Saying(n) = {} /\ Removing(n) = {}
    BY <2>5 DEF Saying, Removing
  <2>7. FilesShape
    BY <1>1, <2>3, <2>4, SMTT(30) DEF FilesShape
  <2> QED
    BY <2>3, <2>6, <2>7, NullLemma DEF SettingsInv, KeysInv, WorkersInv, LastWord, ScriptInv, PhpHasScript
<1>2. SettingsInv /\ [ConfNext]_confVars => SettingsInv'
  BY SettingsStep
<1>3. SettingsInv => SettingsSound
  BY SettingsImplied
<1> QED
  BY <1>1, <1>2, <1>3, PTL DEF SettingsSpec

=============================================================================
