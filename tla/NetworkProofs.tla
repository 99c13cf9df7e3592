--------------------------- MODULE NetworkProofs ----------------------------
(***************************************************************************)
(* The ports of the servers, the start of the proxy and its configuration, *)
(* for any number of servers and commands.                                 *)
(***************************************************************************)
EXTENDS Listener, ProxyStart, ProxyConfig, Functions, FiniteSetTheorems, TLAPS

-----------------------------------------------------------------------------
(* CreateListener.                                                         *)

ListenSpec == (\E F \in SUBSET Ports : ListenInit("test", F)) /\ [][ListenNext]_listenVars

\* A port is tried for each of the tries that are used up, and the sockets
\* of two servers never have the same port.
TriesLeft == \A s \in Servers :
    /\ lst[s].pc \in {"test", "close", "listen"} => lst[s].max >= 1
    /\ lst[s].port <= Preferred + MaxTries - lst[s].max
Exclusive ==
    /\ \A s \in Servers : lst[s].pc \in {"close", "ok"} => bound[s] = lst[s].port
    /\ \A s, o \in Servers : s # o /\ bound[s] # 0 => bound[s] # bound[o]

IInv == ListenTypeOK /\ TriesLeft /\ Exclusive

\* After a failed try: an error or the next port, which is in range.
LEMMA NextPortLemma ==
    ASSUME IInv, NEW s \in Servers, lst[s].pc \in {"test", "listen"}, NextPort(s)
    PROVE  /\ lst' \in [Servers -> [pc : {"off", "test", "close", "listen", "ok", "error"},
                                    port : Ports, max : 0 .. MaxTries]]
           /\ lst'[s].pc \in {"test", "error"}
           /\ lst'[s].pc = "test" => lst'[s].max >= 1
           /\ lst'[s].port <= Preferred + MaxTries - lst'[s].max
           /\ \A o \in Servers \ {s} : lst'[o] = lst[o]
<1> USE TriesAssumption DEF IInv, ListenTypeOK, TriesLeft, Ports
<1>1. lst[s] \in [pc : {"off", "test", "close", "listen", "ok", "error"}, port : Ports, max : 0 .. MaxTries]
  OBVIOUS
<1>2. CASE s \in Fixed \/ lst[s].max = 1
  <2>1. lst' = [lst EXCEPT ![s] = [pc |-> "error", port |-> lst[s].port, max |-> lst[s].max - 1]]
    BY <1>2, Zenon DEF NextPort
  <2> QED
    BY <1>1, <2>1
<1>3. CASE ~(s \in Fixed \/ lst[s].max = 1)
  <2>1. lst' = [lst EXCEPT ![s] = [pc |-> "test", port |-> lst[s].port + 1, max |-> lst[s].max - 1]]
    BY <1>3 DEF NextPort
  <2> QED
    BY <1>1, <1>3, <2>1
<1> QED
  BY <1>2, <1>3

\* The three steps of CreateListener keep the invariant.
LEMMA ListenStep ==
    ASSUME IInv, [ListenNext]_listenVars
    PROVE  IInv'
<1> USE TriesAssumption
<1>1. CASE UNCHANGED listenVars
  BY <1>1 DEF listenVars, IInv, ListenTypeOK, TriesLeft, Exclusive
<1>2. ASSUME NEW s \in Servers, lst[s].pc \in {"test", "listen"}, NextPort(s), UNCHANGED <<bound, foreign>>
      PROVE  IInv'
  <2>1. ListenTypeOK'
    BY <1>2, NextPortLemma DEF IInv, ListenTypeOK
  <2>2. TriesLeft' /\ Exclusive'
    BY <1>2, NextPortLemma DEF IInv, TriesLeft, Exclusive
  <2> QED
    BY <2>1, <2>2 DEF IInv
<1>3. ASSUME NEW s \in Servers, NEW pc \in {"close", "ok"}, lst[s].pc \in {"test", "listen"},
             ~Taken(lst[s].port), lst' = [lst EXCEPT ![s].pc = pc],
             bound' = [bound EXCEPT ![s] = lst[s].port], UNCHANGED foreign
      PROVE  IInv'
  <2>1. ListenTypeOK'
    BY <1>3 DEF IInv, ListenTypeOK
  <2>2. TriesLeft'
    BY <1>3 DEF IInv, ListenTypeOK, TriesLeft, Ports
  <2>3. \A o \in Servers : bound[o] # lst[s].port
    BY <1>3 DEF Taken
  <2>4. Exclusive'
    BY <1>3, <2>3 DEF IInv, ListenTypeOK, Exclusive
  <2> QED
    BY <2>1, <2>2, <2>4 DEF IInv
<1>4. ASSUME NEW s \in Servers, CloseTest(s) PROVE IInv'
  BY <1>4 DEF CloseTest, IInv, ListenTypeOK, TriesLeft, Exclusive, Ports
<1>5. ASSUME NEW s \in Servers, Test(s) PROVE IInv'
  BY <1>2, <1>3, <1>5 DEF Test
<1>6. ASSUME NEW s \in Servers, ListenOn(s) PROVE IInv'
  BY <1>2, <1>3, <1>6 DEF ListenOn
<1> QED
  BY <1>1, <1>4, <1>5, <1>6 DEF ListenNext

\* The port that CreateListener returns is the one of its socket, and no
\* other server has it.
THEOREM OwnPortAlways == ListenSpec => []OwnPort
<1>1. (\E F \in SUBSET Ports : ListenInit("test", F)) => IInv
  BY TriesAssumption DEF ListenInit, IInv, ListenTypeOK, TriesLeft, Exclusive, Ports
<1>2. IInv /\ [ListenNext]_listenVars => IInv'
  BY ListenStep
<1>3. IInv => OwnPort
  BY TriesAssumption DEF IInv, ListenTypeOK, Exclusive, OwnPort, Ports
<1> QED
  BY <1>1, <1>2, <1>3, PTL DEF ListenSpec

\* A server without --port tries one port per try, in order; and on each port
\* that it has left behind there is a foreign program, or another server that
\* tests the port or has it.  A server that loses its port between the test
\* and the listening loses it to one that holds it: the port stays in use.
Sits(o, p) == lst[o].port = p /\ lst[o].pc \in {"close", "listen", "ok"}
Left(s, p) == p < lst[s].port \/ (lst[s].pc = "error" /\ p = lst[s].port)
InUse(s, p) == p \in foreign \/ \E o \in Servers \ {s} : Sits(o, p)

InOrder == \A s \in Servers \ Fixed :
    IF lst[s].pc = "error" THEN lst[s].port = Preferred + MaxTries - 1
    ELSE lst[s].port = Preferred + MaxTries - lst[s].max
Closed == \A s \in Servers : lst[s].pc \notin {"close", "ok"} => bound[s] = 0
Passed == \A s \in Servers, p \in Ports : Left(s, p) => InUse(s, p)

TriesInv == IInv /\ InOrder /\ Closed /\ Passed

\* A server that finds its port taken leaves it to the one that has it.
LEMMA TakenLemma ==
    ASSUME TriesInv, NEW s \in Servers, lst[s].pc \in {"test", "listen"}, Taken(lst[s].port)
    PROVE  lst[s].port \in foreign
             \/ \E o \in Servers \ {s} : lst[o].port = lst[s].port /\ lst[o].pc \in {"close", "ok"}
<1>1. lst[s].port \in Ports /\ lst[s].port # 0 /\ bound[s] = 0
  BY TriesAssumption DEF TriesInv, IInv, ListenTypeOK, Closed, Ports
<1>2. ASSUME NEW o \in Servers, bound[o] = lst[s].port
      PROVE  o # s /\ lst[o].port = lst[s].port /\ lst[o].pc \in {"close", "ok"}
  <2>1. o # s
    BY <1>1, <1>2
  <2>2. lst[o].pc \in {"close", "ok"}
    BY <1>1, <1>2 DEF TriesInv, IInv, ListenTypeOK, Closed
  <2> QED
    BY <1>2, <2>1, <2>2 DEF TriesInv, IInv, Exclusive
<1> QED
  BY <1>2 DEF Taken

\* The server that has left a port, and every other, still finds it in use.
LEMMA PassedLemma ==
    ASSUME TriesInv, NEW s \in Servers, lst[s].pc \in {"test", "listen"}, Taken(lst[s].port),
           NextPort(s), UNCHANGED <<bound, foreign>>
    PROVE  Passed'
<1>1. /\ \A o \in Servers \ {s} : lst'[o] = lst[o]
      /\ lst[s].port \in Int /\ lst'[s].pc \in {"test", "error"}
      /\ lst'[s].pc = "test" => lst'[s].port = lst[s].port + 1
      /\ lst'[s].pc = "error" => lst'[s].port = lst[s].port
  BY TriesAssumption DEF TriesInv, IInv, ListenTypeOK, NextPort, Ports
<1>2. PICK h : /\ h # s
               /\ \/ lst[s].port \in foreign
                  \/ h \in Servers /\ lst[h].port = lst[s].port /\ lst[h].pc \in {"close", "ok"}
  BY TakenLemma
<1> SUFFICES ASSUME NEW t \in Servers, NEW p \in Ports, Left(t, p)'
             PROVE  InUse(t, p)'
  BY DEF Passed
<1>3. p \in Int
  BY TriesAssumption DEF Ports
<1>4. CASE t = s
  <2>1. p < lst[s].port \/ p = lst[s].port
    BY <1>1, <1>3, <1>4 DEF Left
  <2>2. CASE p < lst[s].port
    BY <1>1, <1>4, <2>2, SMTT(30) DEF TriesInv, Passed, Left, InUse, Sits
  <2>3. CASE p = lst[s].port
    BY <1>1, <1>2, <1>4, <2>3 DEF InUse, Sits
  <2> QED
    BY <2>1, <2>2, <2>3
<1>5. CASE t # s
  <2>1. Left(t, p) /\ InUse(t, p)
    BY <1>1, <1>5 DEF Left, TriesInv, Passed
  <2>2. CASE p \in foreign \/ \E o \in Servers \ {s, t} : Sits(o, p)
    BY <1>1, <2>2 DEF InUse, Sits
  <2>3. CASE p \notin foreign /\ Sits(s, p)
    <3>1. h \in Servers /\ lst[h].port = p /\ lst[h].pc \in {"close", "ok"} /\ lst'[h] = lst[h]
      BY <1>1, <1>2, <2>3 DEF Sits
    <3>2. h # t
      BY <2>1, <3>1, <1>3 DEF Left
    <3> QED
      BY <3>1, <3>2 DEF InUse, Sits
  <2> QED
    BY <2>1, <2>2, <2>3, <1>5 DEF InUse
<1> QED
  BY <1>4, <1>5

\* The three steps of CreateListener keep the ports that are left in use.
LEMMA TriesStep ==
    ASSUME TriesInv, [ListenNext]_listenVars
    PROVE  TriesInv'
<1>1. IInv'
  BY ListenStep DEF TriesInv
<1>2. CASE UNCHANGED listenVars
  BY <1>1, <1>2 DEF listenVars, TriesInv, InOrder, Closed, Passed, Left, InUse, Sits
<1>3. ASSUME NEW s \in Servers, lst[s].pc \in {"test", "listen"}, Taken(lst[s].port),
             NextPort(s), UNCHANGED <<bound, foreign>>
      PROVE  TriesInv'
  <2>1. InOrder'
    BY <1>3, TriesAssumption DEF TriesInv, IInv, ListenTypeOK, TriesLeft, InOrder, NextPort, Ports
  <2>2. Closed'
    BY <1>3 DEF TriesInv, IInv, ListenTypeOK, Closed, NextPort
  <2> QED
    BY <1>1, <1>3, <2>1, <2>2, PassedLemma, SMTT(30) DEF TriesInv
<1>4. ASSUME NEW s \in Servers, NEW pc \in {"close", "listen", "ok"}, lst' = [lst EXCEPT ![s].pc = pc],
             lst[s].pc \notin {"error", "ok"}, foreign' = foreign,
             NEW b, bound' = [bound EXCEPT ![s] = b], pc = "listen" => b = 0
      PROVE  TriesInv'
  <2>1. /\ lst'[s].pc = pc /\ lst'[s].port = lst[s].port /\ lst'[s].max = lst[s].max
        /\ \A o \in Servers \ {s} : lst'[o] = lst[o] /\ bound'[o] = bound[o]
        /\ bound'[s] = b
    BY <1>4 DEF TriesInv, IInv, ListenTypeOK
  <2>2. InOrder' /\ Closed'
    BY <1>4, <2>1 DEF TriesInv, InOrder, Closed
  <2>3. \A t \in Servers, p \in Ports : Sits(t, p) => Sits(t, p)'
    BY <1>4, <2>1 DEF Sits
  <2>4. \A t \in Servers, p \in Ports : Left(t, p)' => Left(t, p)
    BY <1>4, <2>1 DEF Left
  <2>5. Passed'
    BY <1>4, <2>3, <2>4 DEF TriesInv, Passed, InUse
  <2> QED
    BY <1>1, <2>2, <2>5 DEF TriesInv
<1>5. ASSUME NEW s \in Servers, Test(s) PROVE TriesInv'
  BY <1>3, <1>4, <1>5, SMTT(30) DEF Test
<1>6. ASSUME NEW s \in Servers, CloseTest(s) PROVE TriesInv'
  BY <1>4, <1>6, Zenon DEF CloseTest
<1>7. ASSUME NEW s \in Servers, ListenOn(s) PROVE TriesInv'
  BY <1>3, <1>4, <1>7 DEF ListenOn
<1> QED
  BY <1>2, <1>5, <1>6, <1>7 DEF ListenNext

\* The ports that a server without --port has tried in vain are no more than
\* the foreign programs and the other servers.
LEMMA ErrorLemma ==
    ASSUME TriesInv
    PROVE  EveryoneListens
<1> SUFFICES ASSUME NEW s \in Servers \ Fixed, lst[s].pc = "error"
             PROVE  MaxTries <= Cardinality(foreign) + Cardinality(Servers) - 1
  BY DEF EveryoneListens
<1> DEFINE tried == Preferred .. Preferred + MaxTries - 1
           others == Servers \ {s}
           port == [o \in others |-> lst[o].port]
           theirs == {port[o] : o \in others}
<1>1. Preferred \in Nat /\ MaxTries \in Nat /\ MaxTries >= 1
  BY TriesAssumption
<1>2. Cardinality(tried) = MaxTries
  BY <1>1, FS_Interval
<1>3. tried \subseteq foreign \union theirs
  <2> SUFFICES ASSUME NEW p \in tried PROVE p \in foreign \union theirs
    OBVIOUS
  <2>1. p \in Ports /\ Left(s, p)
    BY <1>1 DEF TriesInv, InOrder, Ports, Left
  <2>2. InUse(s, p)
    BY <2>1 DEF TriesInv, Passed
  <2> QED
    BY <2>2 DEF InUse, Sits
<1>4. IsFiniteSet(foreign) /\ Cardinality(foreign) \in Nat
  <2>1. IsFiniteSet(Ports)
    BY <1>1, FS_Interval DEF Ports
  <2>2. foreign \in SUBSET Ports
    BY DEF TriesInv, IInv, ListenTypeOK
  <2>3. IsFiniteSet(foreign)
    BY <2>1, <2>2, FS_Subset
  <2> QED
    BY <2>3, FS_CardinalityType
<1>5. IsFiniteSet(others) /\ Cardinality(others) = Cardinality(Servers) - 1
  BY ServersAssumption, FS_RemoveElement, Zenon
<1>6. IsFiniteSet(theirs) /\ Cardinality(theirs) <= Cardinality(others)
  <2>1. port \in Surjection(others, theirs)
    BY DEF Surjection
  <2> QED
    BY <1>5, <2>1, FS_Surjection
<1>7. Cardinality(theirs) \in Nat /\ Cardinality(Servers) \in Nat
  BY <1>6, ServersAssumption, FS_CardinalityType
<1>8. /\ IsFiniteSet(foreign \union theirs)
      /\ Cardinality(foreign \union theirs) =
            Cardinality(foreign) + Cardinality(theirs) - Cardinality(foreign \intersect theirs)
  BY <1>4, <1>6, FS_Union
<1>9. Cardinality(foreign \intersect theirs) \in Nat
  <2>1. IsFiniteSet(foreign \intersect theirs)
    BY <1>4, FS_Intersection, Zenon
  <2> QED
    BY <2>1, FS_CardinalityType
<1>10. Cardinality(tried) <= Cardinality(foreign \union theirs)
  BY <1>3, <1>8, FS_Subset, Zenon
<1> HIDE DEF tried, others, theirs
<1> QED
  BY <1>1, <1>2, <1>4, <1>5, <1>6, <1>7, <1>8, <1>9, <1>10

\* No server without --port fails while there are more tries than ports in
\* use and other servers, although the test of a port is closed before the
\* port is listened on.
THEOREM EveryoneListensAlways == ListenSpec => []EveryoneListens
<1>1. (\E F \in SUBSET Ports : ListenInit("test", F)) => TriesInv
  <2>1. (\E F \in SUBSET Ports : ListenInit("test", F)) => IInv
    BY TriesAssumption DEF ListenInit, IInv, ListenTypeOK, TriesLeft, Exclusive, Ports
  <2> QED
    BY <2>1, TriesAssumption DEF ListenInit, TriesInv, InOrder, Closed, Passed, Left, Ports
<1>2. TriesInv /\ [ListenNext]_listenVars => TriesInv'
  BY TriesStep
<1>3. TriesInv => EveryoneListens
  BY ErrorLemma
<1> QED
  BY <1>1, <1>2, <1>3, PTL DEF ListenSpec

-----------------------------------------------------------------------------
(* proxy:start.                                                            *)

StartSpec == StartInit /\ [][StartNext]_startVars

Shape ==
    /\ st \in [Starts -> Gone \cup {"boot", "select", "check", "write", "up", "end", "exit"}]
    /\ bind \in [Starts -> {"no", "bound", "failed"}]

\* The port is taken after the command has begun, by one live process only.
OneBound ==
    /\ \A s \in Starts : st[s] \in {"idle", "boot"} => bind[s] = "no"
    /\ \A s, t \in Starts :
         st[s] \notin Gone /\ st[t] \notin Gone /\ bind[s] = "bound" /\ bind[t] = "bound" => s = t

\* Past the select, a process has the port, unless it was late.
PastSelect ==
    late = {} => \A s \in Starts : st[s] \in {"check", "write", "up", "end", "exit"} => bind[s] = "bound"

\* Between its write and its end, the record is the one of the process.
OwnRecord ==
    late = {} => \A s \in Starts : st[s] \in {"up", "end"} => pidfile \in {s, Unset}

StartInv == Shape /\ OneBound /\ PastSelect /\ OwnRecord

\* A step of one process through the command leaves the port alone.
LEMMA AtStep ==
    ASSUME StartInv, NEW s \in Starts, NEW from, NEW to, At(s, from, to),
           UNCHANGED <<bind, pidfile, late>>,
           <<from, to>> \in {<<"idle", "already">>, <<"idle", "boot">>, <<"boot", "select">>,
                             <<"boot", "failed">>, <<"select", "failed">>, <<"check", "failed">>,
                             <<"check", "write">>, <<"up", "end">>, <<"exit", "done">>}
    PROVE  StartInv'
<1> USE DEF StartInv
<1>1. st' = [st EXCEPT ![s] = to] /\ st[s] = from
  BY DEF At
<1>2. Shape'
  BY <1>1 DEF Shape, Gone
<1>3. OneBound'
  BY <1>1 DEF Shape, OneBound, Gone
<1>4. PastSelect'
  BY <1>1 DEF Shape, PastSelect
<1>5. OwnRecord'
  BY <1>1 DEF Shape, OwnRecord
<1> QED
  BY <1>2, <1>3, <1>4, <1>5

\* The operating system gives the port to one process at a time.
LEMMA BindStep ==
    ASSUME StartInv, NEW s \in Starts, Listen(s)
    PROVE  StartInv'
<1> USE DEF StartInv, Shape
<1>1. PICK b \in {"bound", "failed"} :
         /\ bind' = [bind EXCEPT ![s] = b]
         /\ b = "bound" => \A t \in Starts : ~(st[t] \notin Gone /\ bind[t] = "bound")
  BY Zenon DEF Listen, Alive
<1>2. UNCHANGED <<st, pidfile, late>> /\ bind[s] = "no" /\ st[s] \in {"select", "check", "write", "up"}
  BY DEF Listen
<1>3. Shape'
  BY <1>1, <1>2
<1>4. OneBound'
  BY <1>1, <1>2 DEF OneBound
<1>5. PastSelect'
  BY <1>1, <1>2 DEF PastSelect
<1>6. OwnRecord'
  BY <1>2 DEF OwnRecord
<1> QED
  BY <1>3, <1>4, <1>5, <1>6

\* Every step keeps the invariant.
LEMMA StartStep ==
    ASSUME StartInv, [StartNext]_startVars
    PROVE  StartInv'
<1>1. ASSUME NEW s \in Starts, Begin(s) PROVE StartInv'
  BY <1>1, AtStep DEF Begin
<1>2. ASSUME NEW s \in Starts, Boot(s) PROVE StartInv'
  BY <1>2, AtStep DEF Boot
<1>3. ASSUME NEW s \in Starts, Listen(s) PROVE StartInv'
  BY <1>3, BindStep
<1>4. ASSUME NEW s \in Starts, OnListenError(s) PROVE StartInv'
  BY <1>4, AtStep DEF OnListenError
<1>5. ASSUME NEW s \in Starts, Timer(s) PROVE StartInv'
  BY <1>5 DEF Timer, At, StartInv, Shape, OneBound, PastSelect, OwnRecord, Gone
<1>6. ASSUME NEW s \in Starts, WriteChecks(s) PROVE StartInv'
  BY <1>6, AtStep DEF WriteChecks
<1>7. ASSUME NEW s \in Starts, WriteRecord(s) PROVE StartInv'
  BY <1>7 DEF WriteRecord, At, StartInv, Shape, OneBound, PastSelect, OwnRecord, Gone
<1>8. ASSUME NEW s \in Starts, Shutdown(s) PROVE StartInv'
  BY <1>8, AtStep DEF Shutdown
<1>9. ASSUME NEW s \in Starts, Killed(s) PROVE StartInv'
  BY <1>9 DEF Killed, Alive, StartInv, Shape, OneBound, PastSelect, OwnRecord, Gone
<1>10. ASSUME NEW s \in Starts, Deferred(s) PROVE StartInv'
  BY <1>10 DEF Deferred, At, StartInv, Shape, OneBound, PastSelect, OwnRecord, Gone
<1>11. ASSUME NEW s \in Starts, ProcessExit(s) PROVE StartInv'
  BY <1>11, AtStep DEF ProcessExit
<1>12. CASE StopReads \/ StopKills \/ UNCHANGED startVars
  BY <1>12 DEF StopReads, StopKills, startVars, StartInv, Shape, OneBound, PastSelect, OwnRecord
<1>13. CASE StopRemoves
  BY <1>13 DEF StopRemoves, StartInv, Shape, OneBound, PastSelect, OwnRecord
<1> QED
  BY <1>1, <1>2, <1>3, <1>4, <1>5, <1>6, <1>7, <1>8, <1>9, <1>10, <1>11, <1>12, <1>13, SMTT(30) DEF StartNext

\* The invariant of the commands that start and stop the proxy.
LEMMA StartInvariant == StartSpec => []StartInv
<1>1. StartInit => StartInv
  BY DEF StartInit, StartInv, Shape, OneBound, PastSelect, OwnRecord, Gone
<1> QED
  BY <1>1, StartStep, PTL DEF StartSpec

\* Two proxies are started at the same time only if one of them needed more
\* than the two seconds of the timer to listen.
THEOREM OneProxyAlways == StartSpec => []OneProxy
<1>1. StartInv => OneProxy
  BY DEF StartInv, Shape, OneBound, PastSelect, OneProxy, Gone
<1> QED
  BY <1>1, StartInvariant, PTL

\* A proxy in the foreground that ends never removes the record of another.
THEOREM RemovesOwnRecordAlways == StartSpec => RemovesOwnRecord
<1>1. ASSUME StartInv, NEW s \in Starts, Deferred(s), late' = {}
      PROVE  pidfile \in {s, Unset}
  BY <1>1 DEF Deferred, At, StartInv, OwnRecord
<1>2. StartInv /\ [StartNext]_startVars
      => [\A s \in Starts : Deferred(s) /\ s \in Foreground /\ late' = {} => pidfile \in {s, Unset}]_startVars
  BY <1>1
<1> QED
  BY <1>2, StartInvariant, PTL DEF StartSpec, RemovesOwnRecord

-----------------------------------------------------------------------------
(* proxy.json.                                                             *)

ConfNext == (\E c \in Commands : Command(c)) \/ Watch

ConfSpec ==
    /\ ConfInit /\ \A c \in Commands : job[c].kind \in Kinds
    /\ [][ConfNext]_confVars

\* What a command is about to save is the operation applied to what it read.
CmdOK(c) ==
    /\ job[c].kind \in Kinds
    /\ cmd[c].pc # "start" => job[c].kind # "idle"
    /\ cmd[c].pc \in {"open", "write"} => cmd[c].conf = Applied(cmd[c].base, job[c])

CmdInv == DOMAIN cmd = Commands /\ \A c \in Commands : CmdOK(c)

\* Every operation changes what it was asked to and nothing else.
LEMMA AppliedLemma ==
    ASSUME NEW conf, NEW op, op.kind \in Kinds \ {"idle"}
    PROVE  ChangesOnly(op, conf, Applied(conf, op))
<1>1. CASE op.kind = "attach"
  <2>1. Applied(conf, op) = [tld |-> conf.tld, domains |-> WithDir(conf.domains, op.names, op.dir)]
    BY <1>1, SMTT(30) DEF Applied, AddDirDomains
  <2> QED
    BY <1>1, <2>1 DEF ChangesOnly, WithDir
<1>2. CASE op.kind = "replace"
  <2> DEFINE others == {n \in DOMAIN conf.domains : conf.domains[n] # op.dir}
  <2>1. Applied(conf, op) =
          [tld |-> conf.tld, domains |-> WithDir(Keep(conf.domains, others), op.names, op.dir)]
    BY <1>2 DEF Applied, ReplaceDirDomains
  <2> QED
    BY <1>2, <2>1 DEF ChangesOnly, WithDir, Keep
<1>3. CASE op.kind = "detach"
  <2>1. Applied(conf, op) =
          [tld |-> conf.tld, domains |-> Keep(conf.domains, DOMAIN conf.domains \ op.names)]
    BY <1>3 DEF Applied, RemoveDirDomains
  <2> QED
    BY <1>3, <2>1 DEF ChangesOnly, Keep
<1>4. CASE op.kind = "tld"
  <2>1. Applied(conf, op) = [tld |-> op.tld, domains |-> conf.domains]
    BY <1>4 DEF Applied
  <2> QED
    BY <1>4, <2>1 DEF ChangesOnly
<1> QED
  BY <1>1, <1>2, <1>3, <1>4, SMTT(30) DEF Kinds

\* A command that goes on keeps what it has read and computed.
LEMMA GotoLemma ==
    ASSUME CmdInv, NEW c \in Commands, NEW pc, CmdGoto(c, pc), UNCHANGED job,
           cmd[c].pc = "start" => job[c].kind # "idle",
           pc \in {"open", "write"} => cmd[c].pc \in {"open", "write"}
    PROVE  CmdInv'
  BY DEF CmdInv, CmdOK, CmdGoto, CmdBecomes

\* Every step keeps the invariant.
LEMMA ConfStep ==
    ASSUME CmdInv, [ConfNext]_confVars
    PROVE  CmdInv'
<1>1. ASSUME NEW c \in Commands, Stat(c) PROVE CmdInv'
  BY <1>1, GotoLemma DEF Stat
<1>2. ASSUME NEW c \in Commands, Create(c) \/ SaveOpen(c) PROVE CmdInv'
  BY <1>2, GotoLemma, SMTT(30) DEF Create, SaveOpen, Truncate
<1>3. ASSUME NEW c \in Commands, WriteDefault(c) \/ SaveWrite(c) PROVE CmdInv'
  BY <1>3, GotoLemma, SMTT(30) DEF WriteDefault, SaveWrite, WriteText
<1>4. ASSUME NEW c \in Commands, LoadAndApply(c) PROVE CmdInv'
  <2>1. CASE CmdGoto(c, "err")
    BY <1>4, <2>1, GotoLemma, SMTT(30) DEF LoadAndApply
  <2>2. CASE CmdBecomes(c, "open", Applied(file.conf, job[c]), file.conf)
    BY <1>4, <2>2 DEF LoadAndApply, CmdInv, CmdOK, CmdBecomes
  <2> QED
    BY <1>4, <2>1, <2>2, SMTT(30) DEF LoadAndApply
<1>5. CASE Watch \/ UNCHANGED confVars
  <2>1. UNCHANGED <<cmd, job>>
    BY <1>5 DEF Watch, StartWatch, OnEvent, ReloadRead, ReloadDomains, ReloadTLD, confVars
  <2> QED
    BY <2>1 DEF CmdInv, CmdOK
<1> QED
  BY <1>1, <1>2, <1>3, <1>4, <1>5, SMTT(30) DEF ConfNext, Command

\* A command that saves when no other wrote since it loaded the file changes
\* what it was asked to and nothing else.
THEOREM SaveIsExactAlways == ConfSpec => SaveIsExact
<1>1. ConfInit /\ (\A c \in Commands : job[c].kind \in Kinds) => CmdInv
  BY DEF ConfInit, CmdInv, CmdOK
<1>2. ASSUME CmdInv, NEW c \in Commands, SaveWrite(c), cmd[c].base = file.conf, file'.text = "json"
      PROVE  ChangesOnly(job[c], file.conf, file'.conf)
  <2>1. cmd[c].pc = "write" /\ file'.conf = cmd[c].conf
    BY <1>2 DEF SaveWrite, WriteText
  <2>2. file'.conf = Applied(file.conf, job[c]) /\ job[c].kind \in Kinds \ {"idle"}
    BY <1>2, <2>1 DEF CmdInv, CmdOK
  <2> QED
    BY <2>2, AppliedLemma
<1>3. CmdInv /\ [ConfNext]_confVars =>
        [\A c \in Commands : SaveWrite(c) /\ cmd[c].base = file.conf /\ file'.text = "json"
            => ChangesOnly(job[c], file.conf, file'.conf)]_confVars
  BY <1>2
<1> QED
  BY <1>1, <1>3, ConfStep, PTL DEF ConfSpec, SaveIsExact
=============================================================================
