--------------------------- MODULE ProjectConfig ---------------------------
(***************************************************************************)
(* The settings of a project's server: .symfony.local.dist.yaml, .yaml and *)
(* .override.yaml, merged in this order, then the flags of the command;    *)
(* and the server that is made of them.                                    *)
(*                                                                         *)
(* Settings are a function from the names that were given a value: a name  *)
(* outside of its domain has Go's zero value.  A file is NoFile, BadFile,  *)
(* or its settings, its deprecated ones (http.daemon, http.no_workers) and *)
(* its workers, where Null stands for "name: ~".                           *)
(***************************************************************************)
EXTENDS Integers, Sequences, TLC

CONSTANTS NoFile, BadFile   \* a file that is not there, or cannot be read

VARIABLES
    given,      \* the files, the flags and the directory of the project
    loading,    \* what comes next: the files, the flags, the server
    fileNo,     \* the file to read next
    config,     \* what was merged so far
    project     \* the server made of it

confVars == <<given, loading, fileNo, config, project>>

Null == [null |-> TRUE]
Nothing == <<>>

\* The settings of new, and those of old that new does not have.
Over(new, old) ==
    [k \in DOMAIN new \union DOMAIN old |-> IF k \in DOMAIN new THEN new[k] ELSE old[k]]

\* fileConfig.parseWorkers: the three workers that need no definition.
BuiltInWorkers ==
    "docker_compose" :> [cmd |-> "docker compose up", watch |-> "compose files"]
    @@ "yarn_encore_watch" :> [cmd |-> "yarn encore dev --watch"]
    @@ "messenger_consume_async" :> [cmd |-> "messenger:consume async", watch |-> "config src"]
parseWorkers(w) ==
    [n \in DOMAIN w |-> IF w[n] = Null /\ n \in DOMAIN BuiltInWorkers THEN BuiltInWorkers[n]
                        ELSE w[n]]

\* The workers of a file: one that is null is removed, the others are merged.
mergeWorkers_Keeps(old, new) ==
    [n \in DOMAIN old \union {k \in DOMAIN new : new[k] # Null} |->
        IF n \in DOMAIN new /\ new[n] # Null
        THEN Over(new[n], IF n \in DOMAIN old THEN old[n] ELSE Nothing)
        ELSE old[n]]
mergeWorkers(old, new) ==
    LET kept == {n \in DOMAIN old : n \in DOMAIN new => new[n] # Null} IN
    mergeWorkers_Keeps([n \in kept |-> old[n]], new)

\* mergeWithFileConfig: the deprecated settings of a file come last.
mergeWithFileConfig(c, f) ==
    [c EXCEPT !.keys = Over(Over(f.deprecated, f.keys), @),
              !.workers = mergeWorkers(@, f.workers)]

newConfigFromFile(f) == [f EXCEPT !.workers = parseWorkers(@)]

\* NewConfigFromDirectory, one file.
ReadFile ==
    /\ loading = "files" /\ fileNo <= Len(given.files)
    /\ fileNo' = fileNo + 1
    /\ LET f == given.files[fileNo] IN
       /\ loading' = IF f = BadFile THEN "failed" ELSE loading
       /\ config' = IF f \in {NoFile, BadFile} THEN config
                    ELSE mergeWithFileConfig(config, newConfigFromFile(f))
    /\ UNCHANGED <<given, project>>

\* NewConfigFromDirectory, its end: every worker needs a command.
CheckWorkers ==
    /\ loading = "files" /\ fileNo > Len(given.files)
    /\ loading' = IF \A n \in DOMAIN config.workers :
                        "cmd" \in DOMAIN config.workers[n] /\ config.workers[n].cmd # "none"
                  THEN "flags" ELSE "failed"
    /\ UNCHANGED <<given, fileNo, config, project>>

\* mergeWithContext: the flags that are set, under the name each is read by,
\* the address, and the preferred port, whatever the files say of it.
FlagOf ==
    [document_root |-> "document-root", passthru |-> "passthru", port |-> "port",
     allow_cors |-> "allow-cors", allow_http |-> "allow-http", p12 |-> "p12", no_tls |-> "no-tls",
     tls_key_log_file |-> "tls-key-log-suffix", use_gzip |-> "use-gzip", daemon |-> "daemon",
     no_workers |-> "no-workers"]
mergeWithContext(c, flags) ==
    LET read == {k \in DOMAIN FlagOf : FlagOf[k] \in DOMAIN flags}
        set == Over([k \in read |-> flags[FlagOf[k]]], c.keys)
        ip == IF "allow-all-ip" \in DOMAIN flags THEN "any"
              ELSE IF "listen-ip" \in DOMAIN flags THEN flags["listen-ip"] ELSE "127.0.0.1"
        fixed == "port" \in DOMAIN set /\ set.port # 0
        preferred == IF fixed THEN Nothing ELSE [preferred_port |-> 8000]
    IN  [c EXCEPT !.keys = Over([listen_ip |-> ip], Over(preferred, set))]
MergeFlags ==
    /\ loading = "flags"
    /\ loading' = "new"
    /\ config' = mergeWithContext(config, given.flags)
    /\ UNCHANGED <<given, fileNo, project>>

-----------------------------------------------------------------------------
(* project.New.  given.dir has the public-dir of composer.json, the         *)
(* directories of the project and their files.                              *)

KeyOr(key, default) == IF key \in DOMAIN config.keys THEN config.keys[key] ELSE default
FirstIn(names, S, default) ==
    LET hits == SelectSeq(names, LAMBDA n : n \in S) IN IF hits = <<>> THEN default ELSE hits[1]

realDocumentRoot(dir, root) ==
    IF root # "none" THEN root
    ELSE IF dir.publicDir # "none" THEN dir.publicDir
    ELSE FirstIn(<<"public", "web", "docroot">>, DOMAIN dir.files, ".")

guessPassthru(S) == FirstIn(<<"index_dev.php", "index.php", "app_dev.php", "app.php">>, S, "index.php")

\* realPassthru: the front controller, "none" when there is no such file.
realPassthru(S, passthru) ==
    LET script == IF passthru = "none" THEN guessPassthru(S) ELSE passthru
    IN  IF script \in S THEN script ELSE "none"

FilesUnder(dir, root) == IF root \in DOMAIN dir.files THEN dir.files[root] ELSE {}

New ==
    /\ loading = "new"
    /\ LET root == realDocumentRoot(given.dir, KeyOr("document_root", "none"))
           script == realPassthru(FilesUnder(given.dir, root), KeyOr("passthru", "none"))
           kind == CASE script = "none" -> "files"
                     [] script # "none" /\ KeyOr("passthru", "none") = "index.html" -> "html"
                     [] OTHER -> "php"
       IN  \/ /\ project' = [kind |-> kind, root |-> root, script |-> script]
              /\ loading' = "ready"
           \/ /\ kind = "php"       \* php.NewServer finds no PHP
              /\ loading' = "failed" /\ UNCHANGED project
    /\ UNCHANGED <<given, fileNo, config>>

ConfInit(files, flags, dir, at) ==
    /\ given = [files |-> files, flags |-> flags, dir |-> dir]
    /\ loading = at /\ fileNo = 1
    /\ config = [keys |-> Nothing, workers |-> Nothing]
    /\ project = [kind |-> "none", root |-> "none", script |-> "none"]

ConfNext == ReadFile \/ CheckWorkers \/ MergeFlags \/ New

-----------------------------------------------------------------------------

ConfTypeOK ==
    /\ loading \in {"files", "flags", "new", "ready", "failed", "off"}
    /\ fileNo \in 1 .. Len(given.files) + 1
    /\ DOMAIN config = {"keys", "workers"}
    /\ project.kind \in {"none", "php", "html", "files"}

\* The last of some files, 0 when there is none.
Settings == {i \in DOMAIN given.files : given.files[i] \notin {NoFile, BadFile}}
LastOf(S) == IF S = {} THEN 0 ELSE CHOOSE i \in S : \A j \in S : j <= i

\* The flags win over the files, a later file over an earlier one whichever
\* of the two spellings of "daemon" and "no_workers" each uses, and within a
\* file the deprecated spelling wins.
LastWord ==
    loading \in {"new", "ready"} =>
        \A k \in DOMAIN FlagOf :
            LET i == LastOf({j \in Settings :
                               k \in DOMAIN given.files[j].keys \union DOMAIN given.files[j].deprecated})
                f == given.files[i]
                flag == FlagOf[k] \in DOMAIN given.flags
            IN  /\ k \in DOMAIN config.keys <=> (flag \/ i # 0)
                /\ flag => config.keys[k] = given.flags[FlagOf[k]]
                /\ ~flag /\ i # 0 => config.keys[k] = Over(f.deprecated, f.keys)[k]

\* What file i says of worker n.
WorkerOf(n, i) ==
    LET w == given.files[i].workers IN IF n \in DOMAIN w THEN parseWorkers(w)[n] ELSE Nothing

\* What a worker runs was written after the last file that removes it: a
\* worker that is removed and then given other files to watch is refused,
\* it does not run the command that was removed (a built-in worker is never
\* removed, a null one runs its default command).
RemovedStaysRemoved ==
    loading \in {"new", "ready"} =>
        \A n \in DOMAIN config.workers :
            LET gone == LastOf({i \in Settings : WorkerOf(n, i) = Null})
                from == LastOf({i \in Settings : "cmd" \in DOMAIN WorkerOf(n, i)})
            IN  gone < from /\ config.workers[n].cmd = WorkerOf(n, from).cmd

\* PHP is only started for a front controller that is there, and not at all
\* for a project of static files behind index.html.
PhpHasScript ==
    project.kind = "php" =>
        /\ project.script \in FilesUnder(given.dir, project.root)
        /\ KeyOr("passthru", "none") # "index.html"

\* The flag for the TLS key log, and its environment variable, give the
\* destination of the log: "If 'SSLKEYLOGFILE' environment variable is set,
\* uses this as a destination of TLS key log." (flags.go).
KeyLogFlagCounts ==
    loading \in {"new", "ready"} /\ "tls-key-log-file" \in DOMAIN given.flags =>
        KeyOr("tls_key_log_file", "none") = given.flags["tls-key-log-file"]

\* The settings, workers and kind of server are those of the last source that
\* has a say in them.
SettingsSound == LastWord /\ RemovedStaysRemoved /\ PhpHasScript
=============================================================================
