----------------------------- MODULE MCServices -----------------------------
(***************************************************************************)
(* Small instances of the services of the local server: the proxy with its *)
(* configuration, its start and its tunnels; the listeners, the requests   *)
(* and the FastCGI client of the web server; the followed logs; the check  *)
(* for updates.  They share no state: a behaviour follows one of them, and *)
(* the others stay as they are.                                            *)
(***************************************************************************)
EXTENDS Proxy, ProxyStart, Tunnel, Listener, WebServer, Fcgi, Tailer, Updater, TLC

CONSTANTS dA, dB, c1, c2, s1, s2, r1, r2

VARIABLE part

MCLabels == {"app", "www", "wip", "dev", "mywip"}
MCTails == {<<"mywip", "wip">>}
MCPrefixes == {<<"app">>, <<"www">>, <<"www", "www">>, <<"wip", "app">>, <<"www", "app", "dev">>}

Attach(d, N) == [kind |-> "attach", dir |-> d, names |-> N]
Replace(d, N) == [kind |-> "replace", dir |-> d, names |-> N]
Detach(N) == [kind |-> "detach", names |-> N]
Ask(k, s, p, h) == [kind |-> k, scheme |-> s, port |-> p, host |-> h]
Scene(x, y, A, t) == [job |-> c1 :> x @@ c2 :> y, asked |-> A, tls |-> t]

MCScenes == {
    Scene(Attach(dA, {<<"app">>, <<"www", "app">>}), Attach(dB, {<<"*", "app">>}),
          {Ask("http", "http", "80", <<"www", "app", "wip">>)}, FALSE),
    Scene(Attach(dA, {<<"app">>, <<"*", "app">>}), [kind |-> "tld", tld |-> "dev"],
          {Ask("http", "https", "none", <<"app", "dev">>)}, FALSE),
    Scene(Attach(dA, {<<"www", "app">>, <<"*", "app">>}), Detach({<<"www", "app">>}),
          {Ask("connect", "none", "443", <<"www", "app", "wip">>)}, TRUE),
    Scene(Attach(dA, {<<"app">>}), Replace(dA, {<<"*", "www", "app">>}),
          {Ask("connect", "none", "80", <<"app", "wip">>)}, FALSE),
    Scene(Attach(dB, {<<"*", "app">>}), Attach(dA, {<<"mywip">>}),
          {Ask("connect", "none", "443", <<"www", "app", "wip">>)}, FALSE),
    Scene(Attach(dA, {<<"*", "www", "app">>}), Attach(dB, {<<"*", "app">>}),
          {Ask("http", "https", "other", <<"app", "wip">>)}, FALSE) }

-----------------------------------------------------------------------------
(* Parameters around the limits of a record; the last value is truncated.   *)
MCPairs == {"127", "128", "half", "full"}
MCKeyLen == [full |-> 20] @@ [p \in {"127", "128"} |-> 10] @@ [half |-> 200]
MCValLen == [half |-> 65000, full |-> 70000] @@ ("127" :> 127) @@ ("128" :> 128)

(* Requests.                                                                *)
Link(nopush, rel, remote) == [nopush |-> nopush, rel |-> rel, remote |-> remote]
Page == [scheme |-> "https", forwarded |-> FALSE, path |-> "other", body |-> "none", xhr |-> FALSE,
         page |-> "page", sendfile |-> FALSE, h2 |-> FALSE, links |-> {},
         env |-> [tunnel |-> FALSE, exposed |-> FALSE, docker |-> FALSE]]
Uploads == [Page EXCEPT !.body = "chunked", !.sendfile = TRUE]
Pages == {Uploads,
          [Page EXCEPT !.path = "script", !.body = "length", !.h2 = TRUE,
                       !.links = {Link(FALSE, "none", FALSE), Link(TRUE, "none", FALSE),
                                  Link(FALSE, "preload", TRUE)}],
          [Page EXCEPT !.xhr = TRUE, !.scheme = "http", !.forwarded = TRUE],
          [Page EXCEPT !.xhr = TRUE, !.page = "short", !.body = "stream"],
          [Page EXCEPT !.scheme = "http"], [Page EXCEPT !.path = "file"]} \union
         {[Page EXCEPT !.xhr = TRUE, !.page = "toolbar", !.env = e] :
            e \in {e \in [tunnel : BOOLEAN, exposed : BOOLEAN, docker : BOOLEAN] : e.exposed => e.tunnel}}
PagePairs == {r1 :> a @@ r2 :> b : a \in Pages, b \in {Uploads}}
WebConf(https, allow, backend, front) ==
    [tls |-> https, allowHTTP |-> allow, backend |-> backend, passthru |-> front]
Confs == {WebConf(TRUE, FALSE, "cgi", "index"), WebConf(TRUE, TRUE, "cli", "index"),
          WebConf(FALSE, FALSE, "cli", "none"), WebConf(FALSE, FALSE, "none", "none")}

-----------------------------------------------------------------------------
\* The type invariant of the parts.
TypesOK ==
    /\ TypeOK /\ StartTypeOK /\ TunTypeOK
    /\ ListenTypeOK /\ WebTypeOK /\ FcgiTypeOK /\ TailTypeOK /\ UpdTypeOK

all == <<vars, startVars, tunVars, listenVars, webVars, fcgiVars, tailVars, updVars, part>>

\* One of the initial states of each part.
NoConfig == Init /\ file.text = "json" /\ tls
NoStart == StartInit
NoTunnel == TunInit("off")
NoListen == ListenInit("off", {})
NoWeb == WebInit("off", WebConf(FALSE, FALSE, "none", "none"), [r \in Reqs |-> Page])
NoFcgi == FcgiInit("off") /\ body.size = 0
NoTail == TailInit("off")
NoUpd == UpdInit("off")

MCInit ==
    \/ part = "config" /\ Init /\ NoStart /\ NoTunnel /\ NoListen /\ NoWeb /\ NoFcgi /\ NoTail /\ NoUpd
    \/ /\ part \in {"start", "tunnel", "listen", "web", "fcgi", "tail", "update"} /\ NoConfig /\ NoStart
       /\ IF part = "tunnel" THEN TunInit("handshake") ELSE NoTunnel
       /\ IF part = "listen" THEN \E F \in SUBSET {8000, 8001, 8002} : ListenInit("test", F) ELSE NoListen
       /\ IF part = "web" THEN \E c \in Confs, q \in PagePairs : WebInit("new", c, q) ELSE NoWeb
       /\ IF part = "fcgi" THEN FcgiInit("begin") ELSE NoFcgi
       /\ IF part = "tail" THEN TailInit("server") ELSE NoTail
       /\ IF part = "update" THEN UpdInit("start") ELSE NoUpd

\* Nothing but one part changes.
ButConfig == UNCHANGED <<startVars, tunVars, listenVars, webVars, fcgiVars, tailVars, updVars, part>>
ButTunnel == UNCHANGED <<vars, startVars, listenVars, webVars, fcgiVars, tailVars, updVars, part>>
ButWeb == UNCHANGED <<vars, startVars, tunVars, listenVars, fcgiVars, tailVars, updVars, part>>
ButTail == UNCHANGED <<vars, startVars, tunVars, listenVars, webVars, fcgiVars, updVars, part>>
ButUpd == UNCHANGED <<vars, startVars, tunVars, listenVars, webVars, fcgiVars, tailVars, part>>

MCNext ==
    \/ part = "config" /\ Next /\ ButConfig
    \/ /\ part = "start" /\ StartNext
       /\ UNCHANGED <<vars, tunVars, listenVars, webVars, fcgiVars, tailVars, updVars, part>>
    \/ part = "tunnel" /\ TunNext /\ ButTunnel
    \/ /\ part = "listen" /\ ListenNext
       /\ UNCHANGED <<vars, startVars, tunVars, webVars, fcgiVars, tailVars, updVars, part>>
    \/ part = "web" /\ WebNext /\ ButWeb
    \/ /\ part = "fcgi" /\ FcgiNext
       /\ UNCHANGED <<vars, startVars, tunVars, listenVars, webVars, tailVars, updVars, part>>
    \/ part = "tail" /\ TailNext /\ ButTail
    \/ part = "update" /\ UpdNext /\ ButUpd

\* Commands are processes of their own; Watch, Hijack and its copiers, the
\* handlers of requests, Tailer's and Updater's are goroutines; a peer of the
\* tunnel ends when it sees the end of its input; a timer fires.
ButFiles == UNCHANGED proxyVars /\ ButConfig

MCSpec ==
    /\ MCInit /\ [][MCNext]_all
    /\ \A c \in Commands : WF_all(part = "config" /\ Command(c) /\ ButFiles)
    /\ WF_all(part = "config" /\ Watch /\ ButFiles)
    /\ WF_all(part = "tunnel" /\ Hijack /\ ButTunnel)
    /\ \A d \in {"down", "up"} : WF_all(part = "tunnel" /\ CopyEnds(d) /\ ButTunnel)
    /\ \A s \in Sides : WF_all(part = "tunnel" /\ PeerFollows(s) /\ ButTunnel)
    /\ \A r \in Reqs : WF_all(part = "web" /\ Handle(r) /\ ButWeb)
    /\ WF_all(part = "tail" /\ WatchStep /\ ButTail) /\ WF_all(part = "tail" /\ Watcher /\ ButTail)
    /\ WF_all(part = "update" /\ UpdMain /\ ButUpd) /\ WF_all(part = "update" /\ UpdCheck /\ ButUpd)
    /\ WF_all(part = "update" /\ TimerFires /\ ButUpd)
=============================================================================
