------------------------------ MODULE MCRunner ------------------------------
(***************************************************************************)
(* The kinds of runners of the program, each in a process of its own and   *)
(* with a pid file of its own.                                             *)
(***************************************************************************)
EXTENDS Runner

CONSTANTS Once, Detached

MCHosts == {<<"host", r>> : r \in Runners}
MCHostOf == [r \in Runners |-> <<"host", r>>]
MCPaths == Runners
MCPathOf == [r \in Runners |-> r]
MCMode == [r \in Runners |-> IF r \in Once THEN "once"
                             ELSE IF r \in Detached THEN "detached" ELSE "attached"]

\* One runner per behaviour: the kinds are compared, not multiplied.  (Nothing
\* makes a runner leave "idle" but the command of a user.)
OneAtATime ==
    \E r \in Runners : \A q \in Runners \ {r} : pc[q] = "idle" /\ pidf[PathOf[q]] = NoPid
=============================================================================
