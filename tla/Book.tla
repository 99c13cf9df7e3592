-------------------------------- MODULE Book --------------------------------
(***************************************************************************)
(* book:checkout and new --book: the repository of the book is brought to  *)
(* one of its steps.  Code, data and containers of the step before are     *)
(* removed, then those of the new step are installed and started, by some  *)
(* twenty commands of which any may fail.                                  *)
(*                                                                         *)
(* Features[t] says what step t has: "compose", "consumer", "migrations",  *)
(* "fixtures", "package" and "spa".                                        *)
(***************************************************************************)
EXTENDS Integers, Sequences, FiniteSets

CONSTANTS
    Steps,      \* steps of the book
    Features    \* what each has

ASSUME StepsAssumption == "none" \notin Steps

VARIABLES
    book,       \* the checkout: its step, its flags, how it ended
    bookAt,     \* the number of its next command, 0 for none
    repoAt,     \* the step that is checked out, "none" before the clone
    work,       \* uncommitted changes, untracked and ignored files
    running,    \* of which step the containers and the two web servers are
    agreed      \* what the user agreed to lose in this checkout

bookVars == <<book, bookAt, repoAt, work, running, agreed>>

\* Checkout, its commands in order: the feature that each is skipped
\* without, and whether its failure ends the checkout.  "compose" is looked
\* for before the step is checked out, the other features after.
Command(name, feature, fatal) == [name |-> name, feature |-> feature, fatal |-> fatal]
CleanUp ==
    <<Command("clean", "none", TRUE), Command("reset", "none", TRUE), Command("restore", "none", TRUE),
      Command("env", "none", TRUE), Command("down", "compose", TRUE), Command("server:stop", "none", FALSE),
      Command("tunnel:close", "none", FALSE), Command("checkout", "none", TRUE),
      Command("spaStop", "spa", FALSE)>>
SetUp ==
    <<Command("composer", "none", TRUE), Command("env", "none", TRUE), Command("up", "compose", TRUE),
      Command("migrate", "migrations", TRUE), Command("fixtures", "fixtures", TRUE),
      Command("npm", "package", TRUE), Command("encore", "package", TRUE),
      Command("server:start", "none", TRUE), Command("consume", "consumer", TRUE),
      Command("spaNpm", "spa", TRUE), Command("spaEncore", "spa", TRUE),
      Command("spaStart", "spa", TRUE)>>
Commands == CleanUp \o SetUp

HasFeature(feature) ==
    CASE feature = "none" -> TRUE
      [] feature = "compose" -> book.hasDocker
      [] OTHER -> feature \in Features[repoAt]

\* What a command that succeeds does.
Works(name) ==
    CASE name = "clean" -> work' = work \ {"untracked", "ignored"} /\ UNCHANGED <<repoAt, running>>
      [] name = "restore" -> work' = work \ {"changes"} /\ UNCHANGED <<repoAt, running>>
      [] name = "down" -> running' = [running EXCEPT !.containers = "none"] /\ UNCHANGED <<repoAt, work>>
      [] name = "server:stop" -> running' = [running EXCEPT !.server = "none"] /\ UNCHANGED <<repoAt, work>>
      [] name = "checkout" -> repoAt' = book.step /\ UNCHANGED <<work, running>>
      [] name \in {"composer", "env", "npm", "encore", "spaNpm", "spaEncore"} ->
            work' = work \union {"ignored"} /\ UNCHANGED <<repoAt, running>>
      [] name = "up" ->
            /\ running' = [running EXCEPT !.containers = IF @ = "none" THEN repoAt ELSE @]
            /\ UNCHANGED <<repoAt, work>>
      [] name = "server:start" ->
            /\ running' = [running EXCEPT !.server = IF @ = "none" THEN repoAt ELSE @]
            /\ UNCHANGED <<repoAt, work>>
      [] name = "spaStop" -> running' = [running EXCEPT !.spa = "none"] /\ UNCHANGED <<repoAt, work>>
      [] name = "spaStart" ->
            running' = [running EXCEPT !.spa = IF @ = "none" THEN repoAt ELSE @] /\ UNCHANGED <<repoAt, work>>
      [] OTHER -> UNCHANGED <<repoAt, work, running>>

\* What a command needs: Compose needs its file, the database its container.
CanWork(name) ==
    CASE name = "up" -> "compose" \in Features[repoAt]
      [] name \in {"migrate", "fixtures"} -> "compose" \in Features[repoAt] => running.containers # "none"
      [] OTHER -> TRUE

\* executeCommand, skipErrors: whether the failure of a command is one of the
\* checkout.
Fatal_NotDown(c) == c.fatal /\ c.name # "down"
Fatal(c) == c.fatal

\* executeCommand: the next command is skipped, works or fails.
executeCommand ==
    /\ bookAt > 0
    /\ LET c == Commands[bookAt]
           over == bookAt = Len(Commands)
           Continue(end) == /\ bookAt' = IF over \/ end = "failed" THEN 0 ELSE bookAt + 1
                      /\ book' = [book EXCEPT !.end = IF over \/ end = "failed" THEN end ELSE @]
       IN  \/ ~HasFeature(c.feature) /\ Continue("done") /\ UNCHANGED <<repoAt, work, running>>
           \/ HasFeature(c.feature) /\ CanWork(c.name) /\ Continue("done") /\ Works(c.name)
           \/ /\ HasFeature(c.feature)
              /\ Continue(IF Fatal(c) THEN "failed" ELSE "done")
              /\ UNCHANGED <<repoAt, work, running>>
    /\ UNCHANGED agreed

\* Checkout, its questions: about changes, about untracked files, and about
\* everything else unless the repository was just cloned.
Questions_ChangesOnly(force, auto) ==
    IF force THEN {} ELSE (work \intersect {"changes"}) \union (IF auto THEN {} ELSE {"ignored"})
Questions(force, auto) ==
    IF force THEN {}
    ELSE (work \intersect {"changes", "untracked"}) \union (IF auto THEN {} ELSE {"ignored"})

Checkout(step, force, auto) ==
    /\ bookAt' = 1
    /\ agreed' = IF force THEN {"changes", "untracked", "ignored"} ELSE Questions(force, auto)
    /\ book' = [step |-> step, end |-> "none", hasDocker |-> "compose" \in Features[repoAt']]

\* book:checkout: in a clone of the book, when the user answers every
\* question with yes.
BookCheckout(step, force) ==
    /\ bookAt = 0 /\ repoAt # "none"
    /\ UNCHANGED <<repoAt, work, running>>
    /\ Checkout(step, force, FALSE)

\* Clone: into a new directory, then to the first step without the last
\* question; nothing is done when the requirements are not met.
Clone ==
    /\ repoAt = "none"
    /\ repoAt' = "main"
    /\ UNCHANGED <<work, running>>
    /\ Checkout("3", FALSE, TRUE)

\* The reader works on the book between two checkouts.
Edit(kind) ==
    /\ bookAt = 0 /\ repoAt # "none" /\ work' = work \union {kind}
    /\ UNCHANGED <<book, bookAt, repoAt, running, agreed>>

BookInit ==
    /\ book = [step |-> "none", end |-> "none", hasDocker |-> FALSE]
    /\ bookAt = 0 /\ repoAt = "none" /\ work = {} /\ agreed = {}
    /\ running = [containers |-> "none", server |-> "none", spa |-> "none"]

BookNext ==
    \/ Clone \/ executeCommand
    \/ \E step \in Steps, force \in BOOLEAN : BookCheckout(step, force)
    \/ \E kind \in {"changes", "untracked"} : Edit(kind)

-----------------------------------------------------------------------------

BookTypeOK ==
    /\ bookAt \in 0 .. Len(Commands)
    /\ repoAt \in Steps \union {"none", "main"} /\ book.step \in Steps \union {"none"}
    /\ work \subseteq {"changes", "untracked", "ignored"} /\ agreed \subseteq {"changes", "untracked", "ignored"}
    /\ \A k \in DOMAIN running : running[k] \in Steps \union {"none"}

\* A checkout removes no work that the user was not asked about: a clone is
\* checked out without asking because there is nothing in it yet, and a
\* checkout that failed leaves the next one with all of its questions.
AskedFirst == [][work \ work' \subseteq agreed]_bookVars

\* The containers after a checkout that ends well were started by it, from
\* an empty database: none of an earlier step is left, even when checkouts
\* in between have failed.
FreshContainers == book.end = "done" => running.containers \in {"none", book.step}
=============================================================================
