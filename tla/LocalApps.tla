----------------------------- MODULE LocalApps -----------------------------
(***************************************************************************)
(* The cloud project that a directory belongs to: the root of its          *)
(* repository, the product (Upsun or Platform.sh) its configuration tells, *)
(* the id of the project and the application that the directory is in.     *)
(*                                                                         *)
(* A path is the sequence of its names.  The file system fs has the paths  *)
(* with a .git (fs.roots) and the configuration files (fs.files), which    *)
(* map to the applications they declare, or to Garbled.                    *)
(***************************************************************************)
EXTENDS Integers, Sequences, FiniteSets, FiniteSetsExt

CONSTANT Garbled    \* a file that cannot be read or decoded

VARIABLES
    fs,         \* the file system and the directory asked about
    asked,      \* "start", "parse", "select" or "done"
    unparsed,   \* configuration files to parse
    apps,       \* applications found so far, in the order of the parser
    app         \* the application of the directory

appVars == <<fs, asked, unparsed, apps, app>>

\* Base and Dir of filepath, HasPrefix and HasSuffix of strings.
Base(path) == path[Len(path)]
Dir(path) == SubSeq(path, 1, Len(path) - 1)
HasPrefix(path, dir) == Len(dir) <= Len(path) /\ SubSeq(path, 1, Len(dir)) = dir
HasSuffix(path, end) ==
    Len(end) <= Len(path) /\ SubSeq(path, Len(path) - Len(end) + 1, Len(path)) = end

\* repositoryRootDir: the number of names of the nearest directory with a
\* .git, -1 if there is none.
repositoryRoot ==
    LET up == {n \in 0 .. Len(fs.dir) : SubSeq(fs.dir, 1, n) \in fs.roots} IN
    IF up = {} THEN -1 ELSE CHOOSE n \in up : \A k \in up : k <= n

RootDir == SubSeq(fs.dir, 1, repositoryRoot)
Inside == {f \in DOMAIN fs.files : HasPrefix(f, RootDir)}
Rel(f) == SubSeq(f, repositoryRoot + 1, Len(f))

\* GuessProductFromDirectory: .upsun is looked for before .platform.
GuessProduct ==
    LET Has(d) == \E f \in Inside : Rel(f)[1] = d IN
    IF Has(".upsun") THEN "flex" ELSE IF Has(".platform") THEN "fixed" ELSE "none"

\* getProjectID: from the file of the product, else from two Git remotes.
getProjectID ==
    LET ids == {i \in DOMAIN fs.ids : fs.ids[i] # "none"} IN
    IF GuessProduct = "none" \/ ids = {} THEN "none" ELSE fs.ids[Min(ids)]

skippedDirectories ==
    {".git", "vendor", "node_modules", "bundles", "cache", "config", "public", "tests",
     "templates", "assets", "images", "fonts", "js", "src", "var", "web"}
MaxDepth == 3

\* findAppConfigFiles: .upsun/*.yaml, or the files of two names that are not
\* too deep down the tree.
findAppConfigFiles ==
    IF GuessProduct = "flex" THEN {f \in Inside : Rel(f)[1] = ".upsun" /\ Len(Rel(f)) = 2}
    ELSE {f \in Inside :
            /\ Base(f) \in {"applications.yaml", ".platform.app.yaml"}
            /\ \A i \in 1 .. Len(Rel(f)) - 1 : Rel(f)[i] \notin skippedDirectories /\ i <= MaxDepth}

\* ProjectFromDir, until the applications are looked for.
ProjectFromDir ==
    /\ asked = "start"
    /\ IF repositoryRoot = -1 \/ getProjectID = "none" \/ fs.branch = "none"
       THEN asked' = "done" /\ UNCHANGED unparsed
       ELSE asked' = "parse" /\ unparsed' = findAppConfigFiles
    /\ UNCHANGED <<fs, apps, app>>

\* The applications of a file: one that is alone in its file is rooted
\* beside it.
Declares(f) ==
    LET listed == GuessProduct = "flex" \/ HasSuffix(f, <<".platform", "applications.yaml">>)
        Local(a) == [name |-> a.name, root |-> IF listed THEN RootDir \o a.source ELSE Dir(f)]
    IN  IF fs.files[f] = Garbled THEN {} ELSE {Local(a) : a \in fs.files[f]}

\* FindLocalApplications, the parser: the applications of a file come in the
\* order of a Go map, which is any.
ParseFile ==
    /\ asked = "parse"
    /\ \E f \in unparsed :
        /\ unparsed' = unparsed \ {f}
        /\ \E s \in Bijection(1 .. Cardinality(Declares(f)), Declares(f)) : apps' = apps \o s
    /\ UNCHANGED <<fs, asked, app>>

\* LocalApplications.Sort, by name; fs.alphabet has the names in order.  The
\* sort is not stable: applications of one name come in any order.
Rank(name) == CHOOSE i \in DOMAIN fs.alphabet : fs.alphabet[i] = name

byName_Unsorted(s) == {s}
byName(s) ==
    {t \in {[i \in DOMAIN s |-> s[p[i]]] : p \in Bijection(DOMAIN s, DOMAIN s)} :
        \A i, j \in DOMAIN s : i < j => Rank(t[i].name) <= Rank(t[j].name)}

\* FindLocalApplications, its end.
SortApps ==
    /\ asked = "parse" /\ unparsed = {}
    /\ asked' = "select" /\ apps' \in byName(apps)
    /\ UNCHANGED <<fs, unparsed, app>>

\* GuessSelectedAppByDirectory: the only one, or the first one around the
\* directory.
GuessSelectedApp ==
    /\ asked = "select"
    /\ asked' = "done"
    /\ app' = LET around == {i \in DOMAIN apps : HasPrefix(fs.dir, apps[i].root)} IN
              IF Len(apps) = 1 THEN apps[1].name
              ELSE IF around = {} THEN "none" ELSE apps[Min(around)].name
    /\ UNCHANGED <<fs, unparsed, apps>>

AppInit(w, pc) == fs = w /\ asked = pc /\ unparsed = {} /\ apps = <<>> /\ app = "none"

AppNext == ProjectFromDir \/ ParseFile \/ SortApps \/ GuessSelectedApp

-----------------------------------------------------------------------------

AppTypeOK ==
    /\ asked \in {"off", "start", "parse", "select", "done"}
    /\ unparsed \subseteq DOMAIN fs.files
    /\ \A i \in DOMAIN apps : DOMAIN apps[i] = {"name", "root"}
    /\ app \in {fs.alphabet[i] : i \in DOMAIN fs.alphabet} \union {"none"}

\* The application of a directory does not depend on the order in which the
\* configuration is read, though Go hands the applications of a file over in
\* any order: of all that the files declare, it is the only one, or the first
\* by name of those around the directory.
SameApp ==
    asked = "done" /\ apps # <<>> =>
        LET declared == UNION {Declares(f) : f \in findAppConfigFiles}
            names == {a.name : a \in {a \in declared : Len(apps) = 1 \/ HasPrefix(fs.dir, a.root)}}
        IN  IF names = {} THEN app = "none"
            ELSE app \in names /\ \A n \in names : Rank(app) <= Rank(n)
=============================================================================
