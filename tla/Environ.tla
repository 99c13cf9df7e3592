------------------------------ MODULE Environ ------------------------------
(***************************************************************************)
(* The environment variables of a local project (envs/local.go,            *)
(* local_tunnel.go, envs.go): `Relationships` asks Docker for the          *)
(* containers of the project and inspects them one by one, then looks for  *)
(* an exposed tunnel; `AsMap` turns the endpoints into variables.          *)
(* `FindServiceUrl` calls Relationships, then AsMap, which calls it again: *)
(* containers may stop, and another command may expose or hide the tunnel, *)
(* between any two of these steps.                                         *)
(*                                                                         *)
(* The name of a relationship is a sequence of words, as is the prefix of  *)
(* its variables; a variable is a pair of a prefix and a name.             *)
(***************************************************************************)
EXTENDS DockerServices

VARIABLES
    world,      \* the machine: containers, tunnels, project
    l,          \* the flags of envs.Local: DockerEnv and TunnelEnv
    phase,      \* where the call of FindServiceUrl is
    round,      \* 1: its own call of Relationships; 2: the one of AsMap
    listed,     \* containers listed and not inspected yet
    rels,       \* relationships found
    first,      \* relationships of round 1
    origin,     \* where rels come from
    todo,       \* names not extracted yet
    values,     \* variables
    changes     \* changes of the machine that may still happen

envVars == <<world, l, phase, round, listed, rels, first, origin, todo, values, changes>>

Has(e, field) == field \in DOMAIN e
Opt(e, field, name) == IF Has(e, field) THEN name :> e[field] ELSE Empty
Http == {"http", "https"}
Pg == {"pgsql", "pgsql-replica"}
My == {"mysql", "mysql-replica"}

-----------------------------------------------------------------------------
(* Which Compose project the directory belongs to.  w.dirs lists the        *)
(* directory and those above it.                                            *)

getComposeDir(w) ==
    IF w.composeFile THEN 1
    ELSE LET D == {i \in DOMAIN w.dirs : w.dirs[i].compose}
         IN  IF D = {} THEN 0 ELSE CHOOSE i \in D : \A j \in D : i <= j

\* COMPOSE_PROJECT_NAME, then the .env file, then the Compose override file,
\* then the Compose file, then the name of the directory.
getComposeProjectName(w) ==
    LET d == getComposeDir(w) IN
    IF w.projectVar # Empty THEN w.projectVar
    ELSE IF d = 0 THEN Empty
    ELSE LET named == SelectSeq(<<w.dirs[d].dotenv, w.dirs[d].override, w.dirs[d].main>>,
                                LAMBDA n : n # Empty)
         IN  IF named # Empty THEN named[1] ELSE w.dirs[d].base

-----------------------------------------------------------------------------
(* From endpoints to variables.                                             *)

Url(e) == [scheme |-> e.scheme, host |-> e.host, port |-> e.port]

Pick(e, names) ==
    LET all == [URL |-> Url(e), DSN |-> Url(e), SERVER |-> Url(e), HOST |-> e.host,
                PORT |-> e.port, SCHEME |-> e.scheme, DRIVER |-> e.scheme]
    IN  [n \in names |-> all[n]]

Auth(e) == [USER |-> e.username, USERNAME |-> e.username, PASSWORD |-> e.password]
Name(path) == [NAME |-> path, DATABASE |-> path]

\* The version of a database: of doctrine.yaml, of the variable, or of the
\* type a tunnel gives; else what the container declares.
Version(e, w) ==
    IF w.lang # "php" THEN ""
    ELSE IF Has(e, "type")
    THEN IF w.doctrine # "" THEN w.doctrine
         ELSE IF w.versionVar # "" THEN w.versionVar
         ELSE e.type
    ELSE IF Has(e, "version") THEN e.version ELSE ""

Database(e, w) ==
    LET pg == e.scheme \in Pg
        path == IF Has(e, "path") /\ e.path # "" THEN e.path ELSE "main"
        d == [e EXCEPT !.scheme = IF pg THEN "postgres" ELSE e.scheme]
        user == IF e.username = "" THEN Empty ELSE
                [USER |-> e.username, USERNAME |-> e.username] @@
                (IF e.password = "" THEN Empty ELSE "PASSWORD" :> e.password)
        v == Version(e, w)
    IN  [URL |-> Url(d) @@ [path |-> path, version |-> v]] @@ user @@ Name(path)
        @@ Pick(d, {"SERVER", "DRIVER", "HOST", "PORT"})
        @@ (IF v = "" THEN Empty ELSE "VERSION" :> v)

\* Variables of an endpoint without their prefix.
EndpointVars(e, w) ==
    CASE e.scheme \in Pg \union My -> Database(e, w)
      [] e.scheme = "redis" -> Pick(e, {"URL", "HOST", "PORT", "SCHEME"})
      [] e.scheme \in Http /\ e.rel = "elasticsearch" ->
           Pick(e, {"URL", "HOST", "PORT", "SCHEME"})
      [] e.scheme = "mongodb" ->
           Pick(e, {"URL", "SERVER", "HOST", "PORT", "SCHEME"}) @@ Auth(e) @@
           Name(e.path) @@ [DB |-> e.path]
      [] e.scheme = "amqp" ->
           Pick(e, {"URL", "DSN", "SERVER", "HOST", "PORT", "SCHEME"}) @@ Auth(e)
      [] e.scheme = "memcached" -> Pick(e, {"HOST", "PORT"}) @@ Opt(e, "ip", "IP")
      [] e.scheme \in Http /\ e.rel = "influxdb" ->
           Pick(e, {"SCHEME", "HOST", "PORT"}) @@ Opt(e, "ip", "IP")
      [] e.scheme = "kafka" ->
           Pick(e, {"URL", "SCHEME", "HOST", "PORT"}) @@ Opt(e, "ip", "IP")
      [] e.scheme = "tcp" ->
           Pick(e, {"URL", "PORT", "SCHEME", "HOST"}) @@ Opt(e, "ip", "IP")
      [] e.scheme \in Http /\ e.rel \notin {"elasticsearch", "influxdb", "mercure"} ->
           Pick(e, {"URL", "SERVER", "PORT", "SCHEME", "HOST"}) @@ Opt(e, "ip", "IP") @@
           Opt(e, "username", "USER") @@ Opt(e, "username", "USERNAME") @@
           Opt(e, "password", "PASSWORD")
      [] e.scheme = "smtp" ->
           Pick(e, {"DRIVER", "HOST", "PORT", "URL", "DSN"}) @@
           [USERNAME |-> "", PASSWORD |-> "", AUTH_MODE |-> ""]
      [] OTHER -> Empty

\* Variables whose names do not depend on the relationship.
GlobalVars(e) ==
    CASE e.scheme \in Pg -> [PGHOST |-> e.host, PGPORT |-> e.port, PGUSER |-> e.username,
                             PGPASSWORD |-> e.password]
      [] e.scheme \in My -> [MYSQL_HOST |-> e.host, MYSQL_TCP_PORT |-> e.port]
      [] e.rel = "blackfire" -> [BLACKFIRE_AGENT_SOCKET |-> Url(e)]
      [] e.rel = "mercure" -> [MERCURE_URL |-> Url(e), MERCURE_PUBLIC_URL |-> Url(e)]
      [] e.scheme = "smtp" -> [MAILER_CATCHER |-> "1"]
      [] OTHER -> Empty

\* A type assertion of the code that the endpoint fails.
Panics(e) ==
    \/ ~Has(e, "scheme") \/ ~Has(e, "rel")
    \/ e.scheme \in Pg \union {"mongodb", "amqp"} /\ ~(Has(e, "username") /\ Has(e, "password"))
    \/ e.scheme = "mongodb" /\ ~Has(e, "path")

\* The first endpoint of a name has no number, the second has number 1.
Prefix_NoIndex(name, i) == name
Prefix(name, i) == IF i = 1 THEN name ELSE Append(name, ToString(i - 1))

WithPrefix(prefix, r) == [k \in {<<prefix, n>> : n \in DOMAIN r} |-> r[k[2]]]

Extracted(name, w, vals) ==
    FoldLeft(LAMBDA acc, i :
                WithPrefix(Empty, GlobalVars(rels[name][i])) @@
                WithPrefix(Prefix(name, i), EndpointVars(rels[name][i], w)) @@ acc,
             vals, [i \in DOMAIN rels[name] |-> i])

-----------------------------------------------------------------------------
EnvInit(w, p) ==
    /\ world = w
    /\ phase = p
    /\ l = [docker |-> FALSE, tunnel |-> FALSE]
    /\ round = 1 /\ changes = 1
    /\ listed = Empty /\ rels = Empty /\ first = Empty /\ values = Empty
    /\ origin = "none" /\ todo = {}

\* RelationshipsFromDocker: ContainerList.
ListContainers ==
    /\ phase = "list"
    /\ rels' = Empty /\ origin' = "docker"
    /\ phase' = "inspect"
    /\ LET project == getComposeProjectName(world)
       IN  listed' = IF project = Empty \/ ~world.reachable THEN Empty
                     ELSE SelectSeq(world.containers, LAMBDA c : InProject(c, project))
    /\ UNCHANGED <<world, l, round, first, todo, values, changes>>

\* A container that is gone fails to be inspected and is skipped.
InspectContainer ==
    /\ phase = "inspect" /\ listed # Empty
    /\ rels' = IF Head(listed) \in ToSet(world.containers)
               THEN AddContainer(rels, Head(listed)) ELSE rels
    /\ listed' = Tail(listed)
    /\ UNCHANGED <<world, l, phase, round, first, origin, todo, values, changes>>

\* The end of RelationshipsFromDocker, then IsExposed.
CheckTunnel ==
    /\ phase = "inspect" /\ listed = Empty
    /\ l' = [l EXCEPT !.docker = @ \/ rels # Empty]
    /\ phase' = IF world.project /\ world.exposed THEN "tunnel" ELSE "found"
    /\ UNCHANGED <<world, round, listed, rels, first, origin, todo, values, changes>>

\* relationshipsFromTunnel: the tunnels of this project, environment and
\* application; without any, what Docker gave stays.
ReadTunnel ==
    /\ phase = "tunnel" /\ phase' = "found"
    /\ LET mine == SelectSeq(world.tunnels, LAMBDA t : t.mine)
           Local(s) == [s EXCEPT !.host = "local", !.ip = "local"]
       IN  IF mine = Empty THEN UNCHANGED <<rels, origin, l>>
           ELSE /\ rels' = FoldLeft(LAMBDA acc, t : Add(acc, t.name, Local(t.service)),
                                    Empty, mine)
                /\ origin' = "tunnel"
                /\ l' = [l EXCEPT !.tunnel = TRUE]
    /\ UNCHANGED <<world, round, listed, first, todo, values, changes>>

\* Relationships returns: to FindServiceUrl, then to AsMap.
Returned ==
    /\ phase = "found"
    /\ IF round = 1 THEN /\ round' = 2 /\ first' = rels /\ phase' = "list"
                         /\ UNCHANGED <<todo, values>>
                    ELSE /\ phase' = "extract" /\ todo' = DOMAIN rels
                         /\ values' = IF world.appId = "" THEN Empty
                                      ELSE <<Empty, "APP_ID">> :> world.appId
                         /\ UNCHANGED <<round, first>>
    /\ UNCHANGED <<world, l, listed, rels, origin, changes>>

\* extractRelationshipsEnvs ranges over a map: in any order.
Extract(name) ==
    /\ phase = "extract" /\ name \in todo
    /\ values' = Extracted(name, world, values)
    /\ todo' = todo \ {name}
    /\ UNCHANGED <<world, l, phase, round, listed, rels, first, origin, changes>>

\* The server of the directory or of the nearest one above; the domains of
\* the directory itself name it, on the port of its scheme.
webServer(w) ==
    LET up == {i \in DOMAIN w.servers : w.servers[i] # Empty} IN
    IF up = {} THEN Empty
    ELSE LET s == w.servers[CHOOSE i \in up : \A j \in up : i <= j]
             url == IF w.domains = Empty THEN [scheme |-> s.scheme, host |-> "local", port |-> s.port]
                    ELSE [scheme |-> s.scheme, host |-> w.domains[1],
                          port |-> IF s.scheme = "http" THEN 80 ELSE 443]
         IN  [SYMFONY_APPLICATION_DEFAULT_ROUTE |-> url, SYMFONY_PROJECT_DEFAULT_ROUTE |-> url,
              SYMFONY_DEFAULT_ROUTE |-> url, DEFAULT_URI |-> url]

\* Extra, which reads the flags.
Extra ==
    LET flag(b) == IF b THEN "1" ELSE "" IN
    WithPrefix(Empty,
        [SYMFONY_TUNNEL_ENV |-> flag(l.tunnel), SYMFONY_DOCKER_ENV |-> flag(l.docker)] @@
        (IF world.prod THEN [APP_ENV |-> "prod", APP_DEBUG |-> "0"] ELSE Empty) @@
        webServer(world))

Finish ==
    /\ phase = "extract" /\ todo = {}
    /\ phase' = "done"
    /\ values' = Extra @@ values
    /\ UNCHANGED <<world, l, round, listed, rels, first, origin, todo, changes>>

\* A container stops.
ContainerStops ==
    /\ changes > 0 /\ world.containers # Empty
    /\ \E i \in DOMAIN world.containers :
          world' = [world EXCEPT !.containers = RemoveAt(@, i)]
    /\ changes' = changes - 1
    /\ UNCHANGED <<l, phase, round, listed, rels, first, origin, todo, values>>

\* Tunnel.Expose, by var:expose-from-tunnel or by the hook of tunnel:close.
Expose ==
    /\ changes > 0 /\ world.project
    /\ world' = [world EXCEPT !.exposed = ~@]
    /\ changes' = changes - 1
    /\ UNCHANGED <<l, phase, round, listed, rels, first, origin, todo, values>>

EnvNext ==
    \/ ListContainers \/ InspectContainer \/ CheckTunnel \/ ReadTunnel \/ Returned \/ Finish
    \/ \E name \in todo : Extract(name)
    \/ phase \notin {"off", "done"} /\ (ContainerStops \/ Expose)

-----------------------------------------------------------------------------
(* What the callers of envs.Local get.                                      *)

FindHttpServices(R) == {n \in DOMAIN R : \E i \in DOMAIN R[n] : R[n][i].scheme \in Http}

UrlOf(name, i) == <<Prefix(name, i), "URL">>

\* The first web endpoint of that name, else one of that type in any order.
FindServiceUrl(service, R) ==
    LET Web(n) == {i \in DOMAIN R[n] : R[n][i].scheme \in Http /\ UrlOf(n, i) \in DOMAIN values}
        byType == {k \in UNION {{<<n, i>> : i \in Web(n)} : n \in DOMAIN R} :
                     R[k[1]][k[2]].rel = service}
    IN  IF service \in DOMAIN R /\ Web(service) # {}
        THEN {values[UrlOf(service, CHOOSE i \in Web(service) : \A j \in Web(service) : i <= j)]}
        ELSE {values[UrlOf(k[1], k[2])] : k \in byType}

-----------------------------------------------------------------------------
EnvTypeOK ==
    /\ phase \in {"off", "list", "inspect", "tunnel", "found", "extract", "done"}
    /\ l \in [docker : BOOLEAN, tunnel : BOOLEAN]
    /\ round \in {1, 2} /\ changes \in {0, 1}
    /\ origin \in {"none", "docker", "tunnel"}
    /\ todo \subseteq DOMAIN rels
    /\ listed \in Seq(ToSet(listed))

Endpoints == UNION {{<<n, i>> : i \in DOMAIN rels[n]} : n \in DOMAIN rels}

\* No name is the prefix of another one's endpoint: "db-1" beside "db".
Distinct == \A k \in Endpoints : Append(k[1], ToString(k[2])) \notin DOMAIN rels

\* Whatever the order in which the map of relationships is ranged over, the
\* variables of an endpoint describe that endpoint, when prefixes are
\* distinct: the second endpoint of a name never
\* overwrites the first one.
OwnVariables ==
    phase = "done" /\ Distinct =>
        \A k \in Endpoints :
            LET e == rels[k[1]][k[2]] p == Prefix(k[1], k[2]) IN
            "PORT" \in DOMAIN EndpointVars(e, world) => values[<<p, "PORT">>] = e.port

\* SYMFONY_TUNNEL_ENV and SYMFONY_DOCKER_ENV tell where the variables come
\* from: the flags are a side effect of Relationships, and Docker is asked
\* "in all cases so that l.DockerEnv is set correctly".
FlagsTellSource ==
    phase = "done" =>
        /\ origin = "tunnel" => values[<<Empty, "SYMFONY_TUNNEL_ENV">>] = "1"
        /\ origin = "docker" /\ rels # Empty =>
              values[<<Empty, "SYMFONY_DOCKER_ENV">>] = "1"
        /\ changes = 1 => l.docker = (\E i \in DOMAIN world.containers :
                             LET c == world.containers[i] IN
                             /\ world.reachable /\ getComposeProjectName(world) # Empty
                             /\ InProject(c, getComposeProjectName(world))
                             /\ AddContainer(Empty, c) # Empty)

\* The endpoints that Docker and a tunnel give have the fields that
\* extractRelationshipsEnvs asserts the types of: it does not panic.
NoPanic ==
    phase = "extract" => \A k \in Endpoints : ~Panics(rels[k[1]][k[2]])

\* Every web service that FindHttpServices lists (the links of the toolbar)
\* is one that FindServiceUrl opens, and as a web address: the services of
\* Mercure and InfluxDB are the ones without a URL of their own name.
LinksOpen ==
    phase = "done" /\ first = rels /\ Distinct =>
        \A n \in FindHttpServices(first) :
            (\A i \in DOMAIN first[n] : first[n][i].rel \notin {"mercure", "influxdb"}) =>
                /\ FindServiceUrl(n, first) # {}
                /\ \A u \in FindServiceUrl(n, first) : u.scheme \in Http

\* "*_PASSWORD has precedence over *_ROOT_PASSWORD", in whichever order the
\* container declares them.
PasswordWins ==
    \A i \in DOMAIN world.containers :
        LET env == world.containers[i].env
            mine == {e \in ToSet(env) : e.family \in {"MYSQL", "MARIADB"} /\ e.name = "PASSWORD"}
        IN  mine # {} /\ (\A e \in mine : getEnvValue(e) # "") =>
                Mysql(world.containers[i], [public |-> 1]).password \in
                    {getEnvValue(e) : e \in mine}

\* The variables that a command gets, and what it is told of them, describe
\* the services that were found, whatever changes while they are looked for.
VariablesSound == OwnVariables /\ FlagsTellSource /\ NoPanic /\ LinksOpen /\ PasswordWins
=============================================================================
