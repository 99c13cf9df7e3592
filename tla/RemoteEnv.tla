----------------------------- MODULE RemoteEnv -----------------------------
(***************************************************************************)
(* The variables of a project in the cloud (envs/remote.go, url.go) and    *)
(* the ones of its .env files (envs/dotenv.go), as PHP gets them from      *)
(* php.Executor.  Each is computed in one go from a machine chosen in the  *)
(* initial state; ranging over the map of relationships is one step per    *)
(* name, in any order.                                                     *)
(***************************************************************************)
EXTENDS Integers, Sequences, FiniteSets

CONSTANT Broken     \* a .env file that cannot be parsed

VARIABLES
    cloud,      \* the machine
    stage,      \* "off", "management", "done"
    links,      \* relationships, and the ones added for RabbitMQ
    left,       \* names to range over
    extra       \* what Extra, Mailer and LoadDotEnv return

cloudVars == <<cloud, stage, links, left, extra>>

None == <<>>

\* f, and what g alone has.
Merge(f, g) == [x \in DOMAIN f \union DOMAIN g |-> IF x \in DOMAIN f THEN f[x] ELSE g[x]]

-----------------------------------------------------------------------------
(* Routes: a route is [kind, valid, upstream, to, exact], where to is the   *)
(* host pattern its original URL has and exact says that nothing follows.   *)
(* A list of URLs is the set of their places, in the declared order, and a  *)
(* URL is its place, 0 for none.                                            *)

Patterns == <<"{default}", "{all}", "www.{default}", "www.{all}">>

\* The first route of R to one of the patterns; patterns come first: each is
\* tried on all the routes.
FirstRoute(w, R) ==
    LET hits == {k \in (1 .. 4) \X R : w.routes[k[2]].to = Patterns[k[1]]}
        Before(j, k) == j[1] < k[1] \/ (j[1] = k[1] /\ j[2] <= k[2])
    IN  IF hits = {} THEN 0 ELSE (CHOOSE k \in hits : \A j \in hits : Before(k, j))[2]

FirstDeclared(R) == CHOOSE i \in R : \A j \in R : i <= j

\* The name of the application: that of a worker, "app--worker", is cut at "--".
application(w) == w.app.name

Upstreams(w) == {i \in DOMAIN w.routes : w.routes[i].kind = "upstream" /\ w.routes[i].valid}
Exact(w, R) == {i \in R : w.routes[i].exact}

extractProjectDefaultUrl(w) ==
    LET R == Upstreams(w)
        main == FirstRoute(w, Exact(w, R))
        mine == {i \in R : w.routes[i].upstream = application(w)}
        path == FirstRoute(w, mine)
    IN  IF R = {} THEN 0
        ELSE IF main # 0 THEN main
        ELSE IF path # 0 THEN path
        ELSE IF mine # {} THEN FirstDeclared(mine) ELSE FirstDeclared(R)

extractApplicationDefaultUrl(w) ==
    LET R == {i \in DOMAIN w.routes : /\ w.routes[i].kind = "upstream"
                                      /\ w.routes[i].upstream = application(w)
                                      /\ w.routes[i].valid}
        main == FirstRoute(w, Exact(w, R))
        path == FirstRoute(w, R)
    IN  IF R = {} THEN 0
        ELSE IF main # 0 THEN main
        ELSE IF path # 0 THEN path ELSE FirstDeclared(R)

-----------------------------------------------------------------------------
(* Extra and Mailer: the variables to add to those of the process.          *)

\* Each of a pair of variables defaults to the other one.
Pair(os, a, b, default) ==
    IF a \in DOMAIN os THEN [k \in {b} |-> os[a]]
    ELSE IF b \in DOMAIN os THEN [k \in {a} |-> os[b]]
    ELSE [k \in {a, b} |-> default]

Port(r) == IF r.port # "" THEN r.port ELSE IF r.scheme = "https" THEN "443" ELSE "80"

\* The variables <name>_URL, HOST, SCHEME, PATH and PORT: the route itself,
\* and the port where it has none.
RouteVars(name, w, i) ==
    IF i = 0 THEN None
    ELSE [k \in {name} |-> [route |-> w.routes[i], port |-> Port(w.routes[i])]]

Secret(os) ==
    IF "APP_SECRET" \notin DOMAIN os /\ "PLATFORM_PROJECT_ENTROPY" \in DOMAIN os
    THEN [APP_SECRET |-> os["PLATFORM_PROJECT_ENTROPY"]] ELSE None

isMailerDefined(os) == DOMAIN os \intersect {"MAILER_URL", "MAILER_DSN", "MAILER_HOST"} # {}

Mailer(os) ==
    LET host == IF "PLATFORM_SMTP_HOST" \in DOMAIN os THEN os["PLATFORM_SMTP_HOST"] ELSE ""
        to == IF host = "" THEN "null" ELSE host
    IN  IF isMailerDefined(os) THEN [MAILER_ENABLED |-> "1"]
        ELSE [MAILER_ENABLED |-> IF host = "" THEN "0" ELSE "1", MAILER_PORT |-> "25",
              MAILER_URL |-> to, MAILER_DSN |-> to, MAILER_HOST |-> to]

\* The sender of the mails of crons: the project and its branch.
Sender(os) ==
    LET branch == IF os["PLATFORM_BRANCH"] # "master" THEN <<os["PLATFORM_BRANCH"]>>
                  ELSE IF os["PLATFORM_ENVIRONMENT"] # "master-1"
                  THEN <<os["PLATFORM_ENVIRONMENT"]>> ELSE <<>>
    IN  IF "MAILFROM" \in DOMAIN os \/ os["PLATFORM_PROJECT"] = "" THEN None
        ELSE [MAILFROM |-> <<os["PLATFORM_PROJECT"]>> \o branch]

RouteExtra(w) ==
    Merge(RouteVars("SYMFONY_APPLICATION_DEFAULT_ROUTE", w, extractApplicationDefaultUrl(w)),
    Merge(RouteVars("SYMFONY_PROJECT_DEFAULT_ROUTE", w, extractProjectDefaultUrl(w)),
    Merge(RouteVars("SYMFONY_DEFAULT_ROUTE", w, extractProjectDefaultUrl(w)),
         RouteVars("DEFAULT_URI", w, extractProjectDefaultUrl(w)))))

Worker(w) ==
    IF w.app.name = "" THEN None ELSE [SYMFONY_IS_WORKER |-> IF w.app.worker THEN "1" ELSE "0"]

RemoteExtra(w) ==
    Merge(Pair(w.os, "APP_ENV", "SYMFONY_ENV", "prod"),
    Merge(Pair(w.os, "APP_DEBUG", "SYMFONY_DEBUG", "0"),
    Merge(Secret(w.os), Merge(RouteExtra(w), Merge(Worker(w), Sender(w.os))))))

-----------------------------------------------------------------------------
(* .env files.  w.dirs lists the directory of the script and those above,   *)
(* w.cwd is the working directory: each maps its files to their variables.  *)

findDotEnvDir(w) ==
    LET D == {i \in DOMAIN w.dirs : {".env", ".env.dist"} \intersect DOMAIN w.dirs[i] # {}}
    IN  IF D = {} THEN 0 ELSE CHOOSE i \in D : \A j \in D : i <= j

mergeDovEnvFile(vars, d, file) ==
    IF file \in DOMAIN d /\ d[file] # Broken THEN Merge(vars, d[file]) ELSE vars

\* .env.<environment> and .env.<environment>.local.
EnvFile(env) == IF env = "test" THEN ".env.test" ELSE IF env = "dev" THEN ".env.dev" ELSE ".env.other"
EnvLocalFile(env) == IF env = "test" THEN ".env.test.local" ELSE ".env.other.local"

AppEnv(os, vars) ==
    LET asked == IF "APP_ENV" \in DOMAIN os THEN os["APP_ENV"] ELSE ""
        found == IF "APP_ENV" \in DOMAIN vars THEN vars["APP_ENV"] ELSE ""
    IN  IF asked # "" THEN asked ELSE IF found # "" THEN found ELSE "dev"

\* .env is preferred to .env.dist.
BaseVars(d) == IF ".env" \in DOMAIN d THEN d[".env"]
               ELSE IF ".env.dist" \in DOMAIN d THEN d[".env.dist"] ELSE None

lookupDotEnv_LocalAlways(d, os) ==
    LET base == BaseVars(d)
        env == AppEnv(os, base)
        v2 == mergeDovEnvFile(Merge([APP_ENV |-> env], base), d, ".env.local")
        v3 == mergeDovEnvFile(v2, d, EnvFile(env))
    IN  IF base = Broken THEN None ELSE mergeDovEnvFile(v3, d, EnvLocalFile(env))

lookupDotEnv(d, os) ==
    LET base == BaseVars(d)
        env == AppEnv(os, base)
        v1 == Merge([APP_ENV |-> env], base)
        v2 == IF env # "test" THEN mergeDovEnvFile(v1, d, ".env.local") ELSE v1
        v3 == mergeDovEnvFile(v2, d, EnvFile(env))
    IN  IF base = Broken THEN None ELSE mergeDovEnvFile(v3, d, EnvLocalFile(env))

\* Where no directory has a .env, the path is relative: the working directory
\* is read.
DotEnv(w) == IF findDotEnvDir(w) = 0 THEN w.cwd ELSE w.dirs[findDotEnvDir(w)]

\* Variables of the services win; the names of the others, but for APP_ENV,
\* are added to SYMFONY_DOTENV_VARS.
LoadDotEnv(w) ==
    LET found == lookupDotEnv(DotEnv(w), w.os)
    IN  [vars |-> Merge(w.services, found),
         names |-> DOMAIN found \ (DOMAIN w.services \union {"APP_ENV"})]

-----------------------------------------------------------------------------
CloudInit(w, s) ==
    /\ cloud = w /\ stage = s
    /\ links = w.links
    /\ left = DOMAIN w.links
    /\ extra = None

\* Remote.Relationships: every RabbitMQ endpoint of a relationship gets a
\* management one, whose name grows with each endpoint.  Entries added to a
\* map while it is ranged over may be visited, and ones that are replaced are
\* visited as they are then: they are not RabbitMQ endpoints.
Rabbits(s, i) == {j \in 1 .. i : s[j].scheme = "amqp"}
Grown(name, n) == name \o [k \in 1 .. n |-> "management"]
ManagementName(name, s, i) == Grown(name, Cardinality(Rabbits(s, i)))
ManagementOf(e) == [e EXCEPT !.scheme = "http", !.port = "15672"]

Management(name) ==
    /\ stage = "management" /\ name \in left
    /\ LET s == links[name]
           all == Rabbits(s, Len(s))
           new == {ManagementName(name, s, i) : i \in all}
           Nth(m) == CHOOSE i \in all : ManagementName(name, s, i) = m
       IN  links' = [m \in DOMAIN links \union new |->
                        IF m \in new THEN <<ManagementOf(s[Nth(m)])>> ELSE links[m]]
    /\ left' = left \ {name}
    /\ UNCHANGED <<cloud, stage, extra>>

Compute ==
    /\ stage = "management" /\ left = {}
    /\ stage' = "done"
    /\ extra' = [remote |-> Merge(RemoteExtra(cloud), Mailer(cloud.os)), dotenv |-> LoadDotEnv(cloud)]
    /\ UNCHANGED <<cloud, links, left>>

CloudNext == (\E name \in left : Management(name)) \/ Compute

-----------------------------------------------------------------------------
CloudTypeOK ==
    /\ stage \in {"off", "management", "done"}
    /\ left \subseteq DOMAIN cloud.links
    /\ DOMAIN cloud.links \subseteq DOMAIN links

\* extractProjectDefaultUrl and extractApplicationDefaultUrl are two copies
\* of one search: where no route is the main one of the project, they agree
\* for every application that has a route, a worker's application included.
RoutesAgree ==
    /\ stage = "done"
    /\ FirstRoute(cloud, Exact(cloud, Upstreams(cloud))) = 0
    /\ \E i \in Upstreams(cloud) : cloud.routes[i].upstream = application(cloud)
    => extractApplicationDefaultUrl(cloud) = extractProjectDefaultUrl(cloud)

\* Symfony reads APP_ENV, older versions SYMFONY_ENV: whatever the cloud
\* defines, Extra leaves the two equal (and the two of the debug flag).
PairsAgree ==
    stage = "done" =>
        LET env == Merge(extra.remote, cloud.os) IN
        /\ env["APP_ENV"] = env["SYMFONY_ENV"]
        /\ env["APP_DEBUG"] = env["SYMFONY_DEBUG"]

\* No relationship has the name of another one's management relationship.
Apart ==
    \A n, m \in DOMAIN cloud.links : \A k \in 1 .. Len(m) : m # Grown(n, k)

\* Every RabbitMQ endpoint has a management relationship on its host, the
\* second endpoint of a relationship included.
EveryManagement ==
    stage = "done" /\ Apart =>
        \A n \in DOMAIN cloud.links : \A i \in DOMAIN cloud.links[n] :
            cloud.links[n][i].scheme = "amqp" =>
                \E m \in DOMAIN links : \E j \in DOMAIN links[m] :
                    /\ links[m][j].port = "15672" /\ links[m][j].scheme = "http"
                    /\ links[m][j].host = cloud.links[n][i].host

\* The files that may define a variable, by precedence: .env (or .env.dist),
\* .env.local except for tests, then those of the environment.
DotEnvFiles(d, env) ==
    <<IF ".env" \in DOMAIN d THEN ".env" ELSE ".env.dist", ".env.local", EnvFile(env), EnvLocalFile(env)>>

Defines(d, env, f, k) ==
    f \in DOMAIN d /\ d[f] # Broken /\ (f = ".env.local" => env # "test") /\ k \in DOMAIN d[f]

\* What PHP gets for a variable is the value of the services, else of the
\* first file that defines it; tests never see .env.local.  The environment
\* that counts is that of the process, else that of .env.
DotEnvPrecedence ==
    stage = "done" =>
        LET d == DotEnv(cloud)
            got == extra.dotenv.vars
            env == AppEnv(cloud.os, BaseVars(d))
            files == DotEnvFiles(d, env)
        IN  BaseVars(d) # Broken =>
            \A k \in DOMAIN got \ {"APP_ENV"} :
                IF k \in DOMAIN cloud.services THEN got[k] = cloud.services[k]
                ELSE \E i \in 1 .. 4 :
                        /\ Defines(d, env, files[i], k) /\ got[k] = d[files[i]][k]
                        /\ \A j \in 1 .. i - 1 : ~Defines(d, env, files[j], k)

\* The variables of the cloud and of the .env files agree with each other
\* and with their sources.
CloudVariablesSound == RoutesAgree /\ PairsAgree /\ EveryManagement /\ DotEnvPrecedence
=============================================================================
