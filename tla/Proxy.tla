------------------------------- MODULE Proxy -------------------------------
(***************************************************************************)
(* The requests that the proxy server handles (local/proxy/proxy.go) while *)
(* its configuration is reloaded and web servers start and stop.           *)
(***************************************************************************)
EXTENDS ProxyConfig

CONSTANTS Requests,  \* requests that are handled concurrently
          Scenes,    \* [job, asked, tls]: what commands do, and what is asked
          Prefixes   \* what comes before the labels of a wildcard in a host

ASSUME ScenesAssumption ==
    \A s \in Scenes :
        /\ \A c \in Commands : IsOp(s.job[c])
        /\ \A a \in s.asked : a.host \in Names
        /\ s.tls \in BOOLEAN

ASSUME PrefixesAssumption == \A p \in Prefixes : p \in Seq(Labels) /\ p # <<>>

VARIABLES compiled,  \* the TLD in the regular expression of tldMatches
          tls,       \* whether there is a local certificate authority
          serving,   \* directories whose web server is running
          req,       \* Requests -> [pc, query, dir, answer]
          cache      \* names that the certificate store made certificates for

proxyVars == <<compiled, tls, serving, req, cache>>
vars == <<confVars, proxyVars>>

Answers == {"direct", "wrongport", "unlinked", "stopped", "mitm", "plain", "hijack", "reject", "backend"}

TypeOK ==
    /\ ConfTypeOK
    /\ compiled \in TLDs /\ tls \in BOOLEAN /\ serving \subseteq Dirs
    /\ \A q \in Requests :
         /\ req[q].pc \in {"new", "dir", "done"} /\ req[q].dir \in Dirs \cup {NoDir}
         /\ req[q].answer \in Answers \cup {"none"}
    /\ \A n \in cache : n \in Names

\* New compiles the TLD that Load read.
Init ==
    /\ ConfInit
    /\ compiled = mem.tld
    /\ serving = {} /\ cache = {}
    /\ \E s \in Scenes :
         /\ job = s.job /\ tls = s.tls
         /\ req \in [Requests ->
              {[pc |-> "new", query |-> a, dir |-> NoDir, answer |-> "none"] : a \in s.asked}]

tldMatches(host) == Len(host) > 1 /\ host[Len(host)] = compiled

\* No port in the host: it follows from the scheme.
HostPort(a) ==
    CASE a.port # "none" -> a.port
      [] a.scheme = "https" -> "443"
      [] OTHER -> "80"

WrongPort(a) ==
    \/ a.scheme = "https" /\ HostPort(a) # "443"
    \/ a.scheme = "http" /\ HostPort(a) # "80"

Answer(q, dir, answer) ==
    req' = [req EXCEPT ![q] = [@ EXCEPT !.pc = "done", !.dir = dir, !.answer = answer]]

(***************************************************************************)
(* Both handlers look the host up in the configuration first, under its    *)
(* lock; requests outside of the TLD never reach them.                     *)
(***************************************************************************)
Lookup(q) ==
    LET a == req[q].query
        dir == GetDir(mem, a.host)
        refusal == IF a.kind = "connect" THEN "mitm" ELSE IF WrongPort(a) THEN "wrongport" ELSE "unlinked"
    IN  /\ req[q].pc = "new"
        /\ CASE ~tldMatches(a.host)          -> Answer(q, NoDir, "direct")
             [] WrongPort(a) \/ dir = NoDir -> Answer(q, NoDir, refusal)
             [] OTHER -> req' = [req EXCEPT ![q] = [@ EXCEPT !.pc = "dir", !.dir = dir]]
        /\ UNCHANGED <<confVars, compiled, tls, serving, cache>>

\* ... then for a running web server in the pid file of that directory.
Forward(q) ==
    LET a == req[q].query
        dir == req[q].dir
    IN  /\ req[q].pc = "dir"
        /\ CASE dir \notin serving -> Answer(q, dir, IF a.kind = "connect" THEN "mitm" ELSE "stopped")
             [] dir \in serving /\ a.kind = "http" -> Answer(q, dir, "backend")
             [] dir \in serving /\ a.kind = "connect" /\ HostPort(a) # "443" -> Answer(q, dir, "plain")
             [] OTHER -> Answer(q, dir, IF tls THEN "hijack" ELSE "reject")
        /\ UNCHANGED <<confVars, compiled, tls, serving, cache>>

\* TLS clients that are intercepted get a certificate for the normalized name.
getCertificate(q) ==
    /\ tls /\ req[q].answer \in {"mitm", "hijack"}
    /\ cache' = cache \cup {doNormalizeDomain(mem, req[q].query.host)}
    /\ UNCHANGED <<confVars, compiled, tls, serving, req>>

\* Web servers start and stop (bound: while a request looks for one).
ServerUp(d) ==
    /\ \E q \in Requests : req[q].pc = "dir"
    /\ serving' = serving \cup {d}
    /\ UNCHANGED <<confVars, compiled, tls, req, cache>>

ServerDown(d) ==
    /\ \E q \in Requests : req[q].pc = "dir"
    /\ serving' = serving \ {d}
    /\ UNCHANGED <<confVars, compiled, tls, req, cache>>

Next ==
    \/ \E c \in Commands : Command(c) /\ UNCHANGED proxyVars
    \/ Watch /\ UNCHANGED proxyVars
    \/ \E q \in Requests : Lookup(q) \/ Forward(q) \/ getCertificate(q)
    \/ \E d \in Dirs : ServerUp(d) \/ ServerDown(d)

Spec == Init /\ [][Next]_vars
-----------------------------------------------------------------------------
(***************************************************************************)
(* The addresses that server:start prints and opens for a directory are    *)
(* routed to it whatever else is attached, in every state of the           *)
(* configuration of the proxy, half reloaded ones included.  A wildcard    *)
(* address covers every host below it, however deep, that is not attached  *)
(* itself and that no longer wildcard covers.                              *)
(***************************************************************************)
IsWildcard(e) == Len(e) > 1 /\ e[1] = "*" /\ \A i \in 2..Len(e) : e[i] # "*"

OwnAddresses ==
    /\ \A d \in Dirs : \A h \in GetReachableDomains(mem, d) : GetDir(mem, h) = d
    /\ \A e \in DOMAIN mem.domains, p \in Prefixes :
         IsWildcard(e) =>
           LET name == p \o Tail(e)
               dir == GetDir(mem, FQDN(mem, name))
           IN  \/ dir = mem.domains[e]
               \/ \E f \in DOMAIN mem.domains :
                    /\ dir = mem.domains[f]
                    /\ f = name \/ (GlobMatches(f, name) /\ Len(f) > Len(e))

(***************************************************************************)
(* "reloads the TLD and the domains" (config.go): the addresses of the     *)
(* configuration in use are ones that the proxy handles.                   *)
(***************************************************************************)
ReloadedTLDServed ==
    watch = "wait" => \A d \in Dirs : \A h \in GetReachableDomains(mem, d) : tldMatches(h)
=============================================================================
