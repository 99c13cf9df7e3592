------------------------------ MODULE Listener ------------------------------
(***************************************************************************)
(* process.CreateListener: servers that start at the same time look for a   *)
(* port.  Each tests 127.0.0.1, closes the test, and listens on its own     *)
(* address, from its preferred port on.  The ports are Linux's: a socket    *)
(* on all addresses and one on 127.0.0.1 exclude each other.                *)
(***************************************************************************)
EXTENDS Integers, FiniteSets

CONSTANTS
    Servers,
    Preferred,  \* the port all of them prefer (8000)
    MaxTries,   \* 50
    Fixed       \* the servers started with --port

ASSUME TriesAssumption ==
    {Preferred, MaxTries} \subseteq Nat \ {0} /\ Fixed \subseteq Servers

ASSUME ServersAssumption == IsFiniteSet(Servers)

VARIABLES
    lst,        \* lst[s]: [pc, port, max] of CreateListener
    bound,      \* bound[s]: the port of the socket that s has, or 0
    foreign     \* the ports of other programs

listenVars == <<lst, bound, foreign>>

Ports == Preferred .. Preferred + MaxTries

ListenTypeOK ==
    /\ lst \in [Servers -> [pc : {"off", "test", "close", "listen", "ok", "error"},
                            port : Ports, max : 0 .. MaxTries]]
    /\ bound \in [Servers -> Ports \union {0}] /\ foreign \subseteq Ports

ListenInit(at, others) ==
    /\ lst = [s \in Servers |-> [pc |-> at, port |-> Preferred,
                                 max |-> IF s \in Fixed THEN 1 ELSE MaxTries]]
    /\ bound = [s \in Servers |-> 0] /\ foreign = others

Taken(p) == p \in foreign \/ \E s \in Servers : bound[s] = p

\* After a failure: an error for --port or after the last try, else the next port.
NextPort_Same(s) ==
    lst' = [lst EXCEPT ![s] =
              IF s \in Fixed \/ lst[s].max = 1
              THEN [pc |-> "error", port |-> lst[s].port, max |-> lst[s].max - 1]
              ELSE [pc |-> "test", port |-> lst[s].port, max |-> lst[s].max - 1]]

NextPort(s) ==
    lst' = [lst EXCEPT ![s] =
              IF s \in Fixed \/ lst[s].max = 1
              THEN [pc |-> "error", port |-> lst[s].port, max |-> lst[s].max - 1]
              ELSE [pc |-> "test", port |-> lst[s].port + 1, max |-> lst[s].max - 1]]

Test(s) ==
    /\ lst[s].pc = "test"
    /\ IF Taken(lst[s].port)
       THEN NextPort(s) /\ UNCHANGED bound
       ELSE lst' = [lst EXCEPT ![s].pc = "close"] /\ bound' = [bound EXCEPT ![s] = lst[s].port]
    /\ UNCHANGED foreign

CloseTest(s) ==
    /\ lst[s].pc = "close"
    /\ lst' = [lst EXCEPT ![s].pc = "listen"] /\ bound' = [bound EXCEPT ![s] = 0]
    /\ UNCHANGED foreign

ListenOn(s) ==
    /\ lst[s].pc = "listen"
    /\ IF Taken(lst[s].port)
       THEN NextPort(s) /\ UNCHANGED bound
       ELSE lst' = [lst EXCEPT ![s].pc = "ok"] /\ bound' = [bound EXCEPT ![s] = lst[s].port]
    /\ UNCHANGED foreign

ListenNext == \E s \in Servers : Test(s) \/ CloseTest(s) \/ ListenOn(s)

-----------------------------------------------------------------------------
\* Although the test is closed before the real socket is opened, every server
\* without --port that finds no port met, on each of the ports it tried, a
\* foreign program or another server: with more tries than ports in use and
\* other servers, none of them fails.
EveryoneListens ==
    \A s \in Servers \ Fixed :
        lst[s].pc = "error" => MaxTries <= Cardinality(foreign) + Cardinality(Servers) - 1

\* The port CreateListener returns is the one its socket has, and no other
\* server has it.
OwnPort ==
    \A s \in Servers : lst[s].pc = "ok" =>
        bound[s] = lst[s].port /\ \A o \in Servers \ {s} : bound[o] # bound[s]
=============================================================================
