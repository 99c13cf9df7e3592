------------------------------ MODULE PhpTools ------------------------------
(***************************************************************************)
(* Which program a command runs: what main() makes of the arguments, where *)
(* the console, Composer and PIE are found, and the copies of Composer and *)
(* PIE that concurrent commands download when there are none.              *)
(*                                                                         *)
(* A machine m describes the files of the working directory and those      *)
(* above (m.dirs), the directory of PHP (m.phpDir) and the PATH (m.path):  *)
(* each maps the names of its files to what they are.                      *)
(***************************************************************************)
EXTENDS Integers, Sequences, FiniteSets

CONSTANTS Users     \* concurrent commands

ASSUME UsersAssumption == Users # {}

VARIABLES
    machine,    \* the machine
    dl,         \* dl[u]: the download of command u
    setup,      \* composer-setup.php: "none", "partial", "good" or "bad"
    phar,       \* composer.phar and pie.phar
    trouble     \* the network or the disk failed

toolVars == <<machine, dl, setup, phar, trouble>>

PhpBinaries == {"php", "pecl", "pear", "php-fpm", "php-cgi", "php-config", "phpdbg", "phpize"}

\* main: the first argument selects a tool, or a command of the application.
Dispatch(m, args) ==
    LET hasConsole == \E i \in DOMAIN m.dirs : "bin/console" \in DOMAIN m.dirs[i] IN
    CASE args # <<>> /\ args[1] \in PhpBinaries -> "php"
      [] args # <<>> /\ args[1] \in {"composer", "pie"} -> args[1]
      [] args # <<>> /\ args[1] = "console" /\ hasConsole -> "console"
      [] OTHER -> "application"

-----------------------------------------------------------------------------
(* The script that PHP runs.  An argument is the script, a word, or an      *)
(* option: "-f" and "-d" take a value, "-d." has it attached, "-v" has none.*)
(* Options are the ones that do not name the script, as they are spelled.   *)

Arguments == {"script", "word", "--", "-f", "-d", "-d.", "-v"}
Options == {<<o>> : o \in {"-v", "-d."}} \union {<<"-d", v>> : v \in Arguments}

skipNext(args) ==
    LET skip[i \in 0 .. Len(args)] == IF i = 0 THEN FALSE ELSE args[i] = "-d" /\ ~skip[i - 1] IN skip

detectScriptDir(args) ==
    LET stop == {i \in DOMAIN args :
                   ~skipNext(args)[i - 1] /\ args[i] \in {"-f", "--", "word", "script"}}
    IN  IF stop = {} THEN "cwd"
        ELSE LET i == CHOOSE k \in stop : \A n \in stop : k <= n
             IN  IF args[i] = "-f" THEN args[i + 1] ELSE IF args[i] = "--" THEN "cwd" ELSE args[i]

-----------------------------------------------------------------------------
(* Where Composer and PIE are.                                              *)

FirstOf(names, files) ==
    LET found == {i \in DOMAIN names : names[i] \in DOMAIN files}
    IN  IF found = {} THEN "none" ELSE files[names[CHOOSE i \in found : \A j \in found : i <= j]]

\* The directory of the PHP of the project, for executable files, then the PATH.
LookPath(m, name) ==
    IF ~m.inCloud /\ name \in DOMAIN m.phpDir /\ m.phpDir[name] # "plain"
    THEN m.phpDir[name] ELSE FirstOf(<<name>>, m.path)

composerVersion(m) == IF m.lock = "1." THEN "composer1" ELSE "composer2"

findComposer(m) ==
    LET bin == composerVersion(m)
        here == FirstOf(<<bin, "composer.phar", "composer">>, m.dirs[1])
        there == SelectSeq(<<bin, "composer", "composer.phar">>, LAMBDA n : LookPath(m, n) # "none")
    IN  IF here # "none" THEN here
        ELSE IF m.nixPhar THEN "script"
        ELSE IF there = <<>> THEN "none" ELSE LookPath(m, there[1])

findPie(m) ==
    LET here == FirstOf(<<"pie.phar", "pie">>, m.dirs[1])
        there == SelectSeq(<<"pie", "pie.phar">>, LAMBDA n : LookPath(m, n) # "none")
    IN  IF here # "none" THEN here ELSE IF there = <<>> THEN "none" ELSE LookPath(m, there[1])

\* How the tool is run: by itself, by PHP, or from a downloaded copy.
Runs(m, tool) ==
    LET found == IF tool = "composer" THEN findComposer(m) ELSE findPie(m)
    IN  CASE m.toolPath \/ found = "nix" -> "itself"
          [] ~m.toolPath /\ found = "script" -> "php"
          [] OTHER -> "download"

-----------------------------------------------------------------------------
(* The downloads.                                                           *)

ToolTypeOK ==
    /\ setup \in {"none", "partial", "good", "bad"}
    /\ \A t \in {"composer", "pie"} : phar[t] \in {"none", "partial", "good", "bad"}
    /\ trouble \in BOOLEAN
    /\ \A u \in Users : /\ dl[u].tool \in {"composer", "pie"}
                        /\ dl[u].pc \in {"off", "find", "stat", "get", "check", "write", "close",
                                         "setup", "chmod", "remove", "run", "failed", "done"}

ToolInit(m, at) ==
    /\ machine = m
    /\ dl \in [Users -> [pc : {at}, tool : IF at = "off" THEN {"pie"} ELSE {"composer", "pie"},
                         got : {"none"}, ran : {"none"}]]
    /\ setup = "none" /\ phar = [composer |-> "none", pie |-> "none"]
    /\ trouble = FALSE

To(u, pc) == dl' = [dl EXCEPT ![u].pc = pc]

Find(u) ==
    /\ dl[u].pc = "find"
    /\ To(u, IF Runs(machine, dl[u].tool) = "download" THEN "stat" ELSE "done")
    /\ UNCHANGED <<machine, setup, phar, trouble>>

\* A copy that exists is used as it is.
StatPhar(u) ==
    /\ dl[u].pc = "stat"
    /\ To(u, IF phar[dl[u].tool] # "none" THEN "run" ELSE "get")
    /\ UNCHANGED <<machine, setup, phar, trouble>>

\* http.Get: the status of the answer is not looked at.
Get(u) ==
    /\ dl[u].pc = "get"
    /\ \/ To(u, "failed") /\ trouble' = TRUE
       \/ \E got \in {"good", "bad"} :
            /\ dl' = [dl EXCEPT ![u].got = got,
                                ![u].pc = IF dl[u].tool = "composer" THEN "check" ELSE "write"]
            /\ trouble' = (trouble \/ got = "bad")
    /\ UNCHANGED <<machine, setup, phar>>

\* The hash of the installer is compared with the published one.
Check(u) ==
    /\ dl[u].pc = "check"
    /\ To(u, IF dl[u].got = "good" THEN "write" ELSE "failed")
    /\ UNCHANGED <<machine, setup, phar, trouble>>

Store(u, content) ==
    IF dl[u].tool = "composer" THEN setup' = content /\ UNCHANGED phar
                               ELSE phar' = [phar EXCEPT !.pie = content] /\ UNCHANGED setup

\* os.WriteFile truncates the file, then fills it.  Its error is ignored for
\* the installer of Composer.
WriteFile(u) ==
    /\ dl[u].pc = "write"
    /\ \/ To(u, "close") /\ Store(u, "partial") /\ UNCHANGED trouble
       \/ /\ To(u, IF dl[u].tool = "composer" THEN "setup" ELSE "failed")
          /\ trouble' = TRUE /\ UNCHANGED <<setup, phar>>
    /\ UNCHANGED machine

CloseFile(u) ==
    /\ dl[u].pc = "close"
    /\ To(u, IF dl[u].tool = "composer" THEN "setup" ELSE "run")
    /\ Store(u, dl[u].got)
    /\ UNCHANGED <<machine, trouble>>

\* PHP runs the installer that is there: a missing file is status 1; half an
\* installer does nothing, or fails with another status.
RunSetup(u) ==
    /\ dl[u].pc = "setup"
    /\ dl' = [dl EXCEPT ![u].ran = setup,
                        ![u].pc = IF setup = "none" THEN "failed" ELSE "chmod"]
    /\ phar' = IF setup \in {"good", "bad"} THEN [phar EXCEPT !.composer = setup] ELSE phar
    /\ UNCHANGED <<machine, setup, trouble>>

\* os.Chmod fails without the file, and so does os.Remove.
Chmod_Ignored(u) ==
    /\ dl[u].pc = "chmod" /\ To(u, "remove")
    /\ UNCHANGED <<machine, setup, phar, trouble>>

Chmod(u) ==
    /\ dl[u].pc = "chmod"
    /\ To(u, IF phar.composer = "none" THEN "failed" ELSE "remove")
    /\ UNCHANGED <<machine, setup, phar, trouble>>

RemoveSetup(u) ==
    /\ dl[u].pc = "remove"
    /\ To(u, IF setup = "none" THEN "failed" ELSE "run") /\ setup' = "none"
    /\ UNCHANGED <<machine, phar, trouble>>

Run(u) ==
    /\ dl[u].pc = "run"
    /\ dl' = [dl EXCEPT ![u].pc = "done", ![u].ran = phar[dl[u].tool]]
    /\ UNCHANGED <<machine, setup, phar, trouble>>

ToolNext ==
    \E u \in Users : Find(u) \/ StatPhar(u) \/ Get(u) \/ Check(u) \/ WriteFile(u) \/ CloseFile(u)
                     \/ RunSetup(u) \/ Chmod(u) \/ RemoveSetup(u) \/ Run(u)

-----------------------------------------------------------------------------
\* Whatever the interleaving of the commands that download Composer, none
\* runs an installer whose hash was not checked, nor a Composer built by one.
OnlyVerified == \A u \in Users : dl[u].tool = "composer" => dl[u].ran # "bad"

\* Concurrent downloads of Composer may fail each other (they share the name
\* of the installer), but not all of them: when no download and no write
\* failed, the last one to end leaves a Composer for the next command.
SomeoneSucceeds ==
    ~trouble /\ (\A u \in Users : dl[u].tool = "composer" /\ dl[u].pc \in {"failed", "done"})
        /\ Runs(machine, "composer") = "download" => phar.composer = "good"

\* The arguments of a list of options.
Concat(s) ==
    LET first[n \in 0 .. Len(s)] == IF n = 0 THEN <<>> ELSE first[n - 1] \o s[n] IN first[Len(s)]

\* Where the script is the first argument that neither is an option nor the
\* value of one, detectScriptDir finds it, whatever options come before, and
\* whatever their values look like.
ScriptFound ==
    LET opts == Concat(machine.opts) IN
    /\ detectScriptDir(opts \o <<"script", "word">>) = "script"
    /\ detectScriptDir(opts \o <<"-f", "script">>) = "script"
    /\ detectScriptDir(opts \o <<"--", "script">>) = "cwd"

\* Composer and PIE of the project win over those of the machine, and what is
\* found is run only when it is a PHP script or wraps one.
OwnToolFirst ==
    \A t \in {"composer", "pie"} :
        LET here == {"composer1", "composer2", "composer.phar", "composer"}
            used == IF t = "pie" THEN {"pie", "pie.phar"}
                    ELSE here \ ({"composer1", "composer2"} \ {composerVersion(machine)})
            own == {machine.dirs[1][n] : n \in used \intersect DOMAIN machine.dirs[1]}
        IN  ~machine.toolPath /\ own # {} =>
                Runs(machine, t) \in {CASE k = "nix" -> "itself" [] k = "script" -> "php"
                                        [] OTHER -> "download" : k \in own}

\* The script, Composer or PIE that a command runs is the right one, and a
\* downloaded one is verified and there, whoever downloads it meanwhile.
ToolSound == ScriptFound /\ OwnToolFirst /\ OnlyVerified /\ SomeoneSucceeds
=============================================================================
