---------------------------- MODULE UpsunInstall ----------------------------
(***************************************************************************)
(* The cloud's own command line tool, which concurrent commands download   *)
(* and update: the binary and, beside it, the version it has and when a    *)
(* newer one was last looked for.                                          *)
(*                                                                         *)
(* The binary is written over the one that is there, it is not truncated:  *)
(* its two halves have the version that was written last, 0 for none.      *)
(***************************************************************************)
EXTENDS Integers

CONSTANTS
    Installers,     \* concurrent commands
    MaxRelease      \* releases of the tool

VARIABLES
    release,    \* the latest version on GitHub
    bin,        \* the versions of the two halves of the binary
    check,      \* the version check file: "none", "broken" or "valid", its version and age
    inst,       \* inst[p]: what command p does
    overlap     \* two commands have written the binary at the same time

instVars == <<release, bin, check, inst, overlap>>

NoBin == [half \in {1, 2} |-> 0]
Idle == [pc |-> "idle", asset |-> 0, known |-> 0]
Becomes(p, pc, asset, known) ==
    inst' = [inst EXCEPT ![p] = [pc |-> pc, asset |-> asset, known |-> known]]
GoTo(p, pc) == Becomes(p, pc, inst[p].asset, inst[p].known)

\* Install, its start: is there a binary, and what is known of it?  A check
\* file that cannot be decoded is removed.
StatBin(p) ==
    /\ inst[p].pc = "start"
    /\ IF bin = NoBin THEN GoTo(p, "latest") /\ UNCHANGED check
       ELSE IF check.state # "valid" THEN
            /\ GoTo(p, "latest")
            /\ check' = [check EXCEPT !.state = "none"]
       ELSE /\ Becomes(p, IF check.recent THEN "run" ELSE "touch", inst[p].asset, check.version)
            /\ UNCHANGED check
    /\ UNCHANGED <<release, bin, overlap>>

\* versionCheck.store: the file is truncated and written, or it stays as it is.
WriteCheck(version) ==
    \/ check' = [state |-> "valid", version |-> version, recent |-> TRUE]
    \/ check' = [check EXCEPT !.state = "broken"]
    \/ UNCHANGED check

\* Install: "don't check for the next 24 hours", with the version it read.
Touch_Latest(p) ==
    /\ inst[p].pc = "touch"
    /\ GoTo(p, "compare")
    /\ check' = [state |-> "valid", version |-> release, recent |-> TRUE]
    /\ UNCHANGED <<release, bin, overlap>>
Touch(p) ==
    /\ inst[p].pc = "touch"
    /\ GoTo(p, "compare")
    /\ WriteCheck(inst[p].known)     \* its error is ignored
    /\ UNCHANGED <<release, bin, overlap>>

\* Install: the first look at the latest version, whose failure is ignored.
Compare(p) ==
    /\ inst[p].pc = "compare"
    /\ \/ GoTo(p, IF release = inst[p].known THEN "run" ELSE "latest")
       \/ GoTo(p, "latest")
    /\ UNCHANGED <<release, bin, check, overlap>>

\* Install: the version to download; without one the binary is used as it is.
\* getPath runs the binary even after an error.
getLatestVersion(p) ==
    /\ inst[p].pc = "latest"
    /\ \/ Becomes(p, "first", release, inst[p].known)
       \/ GoTo(p, "run")
    /\ UNCHANGED <<release, bin, check, overlap>>

Writing(p) == inst[p].pc \in {"first", "second", "store"}

\* downloadAndExtract: the binary is written as it is received; a download
\* that stops leaves the half it wrote.
WriteHalf(p, pc, half, next) ==
    /\ inst[p].pc = pc
    /\ \/ GoTo(p, next) /\ bin' = [bin EXCEPT ![half] = inst[p].asset]
       \/ GoTo(p, "run") /\ UNCHANGED bin
    /\ overlap' = (overlap \/ \E q \in Installers \ {p} : Writing(q))
    /\ UNCHANGED <<release, check>>
ExtractFirst(p) == WriteHalf(p, "first", 1, "second")
ExtractSecond(p) == WriteHalf(p, "second", 2, "store")

\* Install, its end: the version that was downloaded is recorded.
StoreVersion(p) ==
    /\ inst[p].pc = "store"
    /\ GoTo(p, "run")
    /\ WriteCheck(inst[p].asset)
    /\ UNCHANGED <<release, bin, overlap>>

\* CLI.getPath, in a new process: then the command runs and ends.
getPath(p) ==
    \/ inst[p] = Idle /\ GoTo(p, "start") /\ UNCHANGED <<release, bin, check, overlap>>
    \/ /\ inst[p].pc = "run"
       /\ inst' = [inst EXCEPT ![p] = Idle]
       /\ UNCHANGED <<release, bin, check, overlap>>

\* The user interrupts a command.
Cancel(p) ==
    /\ inst[p].pc \notin {"idle", "run"}
    /\ inst' = [inst EXCEPT ![p] = Idle]
    /\ UNCHANGED <<release, bin, check, overlap>>

\* 24 hours go by; a version is released.
DayPasses ==
    /\ check.recent
    /\ check' = [check EXCEPT !.recent = FALSE]
    /\ UNCHANGED <<release, bin, inst, overlap>>
Release ==
    /\ release < MaxRelease
    /\ release' = release + 1
    /\ UNCHANGED <<bin, check, inst, overlap>>

InstInit ==
    /\ release = 1
    /\ bin = NoBin
    /\ check = [state |-> "none", version |-> 0, recent |-> FALSE]
    /\ inst = [p \in Installers |-> Idle]
    /\ overlap = FALSE

InstNext ==
    \/ \E p \in Installers :
          \/ getPath(p) \/ StatBin(p) \/ Touch(p) \/ Compare(p) \/ getLatestVersion(p)
          \/ ExtractFirst(p) \/ ExtractSecond(p) \/ StoreVersion(p) \/ Cancel(p)
    \/ DayPasses \/ Release

-----------------------------------------------------------------------------

InstTypeOK ==
    /\ release \in 1 .. MaxRelease
    /\ bin \in [{1, 2} -> 0 .. MaxRelease]
    /\ check \in [state : {"none", "broken", "valid"}, version : 0 .. MaxRelease, recent : BOOLEAN]
    /\ \A p \in Installers :
          inst[p].pc \in {"idle", "start", "touch", "compare", "latest", "first", "second", "store", "run"}

\* The version on record is never newer than any part of the binary, unless
\* two commands wrote it at the same time: "it will never be updated!"
\* otherwise, as Install says where the record is missing.  Downloads that
\* stop half way, commands that are interrupted anywhere and records that
\* cannot be written do not change this.
RecordNotNewer ==
    check.state = "valid" /\ ~overlap => check.version <= bin[1] /\ check.version <= bin[2]
=============================================================================
