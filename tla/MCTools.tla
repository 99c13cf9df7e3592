------------------------------ MODULE MCTools ------------------------------
(***************************************************************************)
(* Small instances of the tools around a project: its environment          *)
(* variables on a developer's machine and in the cloud, the commands that  *)
(* run PHP, the tools they download, and how a project is created and      *)
(* configured.  They share no state: a behaviour follows one of them, and  *)
(* the others stay as they are.                                            *)
(***************************************************************************)
EXTENDS Environ, RemoteEnv, Executor, PhpTools, CreateProject, CloudConfig, ProjectConfig, Book,
    UpsunInstall, LocalApps

CONSTANTS p1, p2, u1, u2

VARIABLE part

-----------------------------------------------------------------------------
(* Machines with containers and tunnels.                                    *)

Ports(P) == {[private |-> p, public |-> 30000 + p] : p \in P}
Box(service, P, env) ==
    [project |-> <<"a">>, service |-> <<service>>, prefix |-> NoLabel, ignore |-> FALSE,
     ports |-> Ports(P), env |-> env, mercure |-> FALSE]
Var(family, name, value) == EnvVar(family, name, value, "")

MysqlEnvs == {<<Var("MYSQL", "ROOT_PASSWORD", "r"), Var("MYSQL", "PASSWORD", "p"),
                Var("MYSQL", "USER", "u")>>,
              <<Var("MYSQL", "PASSWORD", "p"), Var("MYSQL", "DATABASE", "d"),
                Var("MYSQL", "ROOT_PASSWORD", "r")>>,
              <<Var("MARIADB", "ROOT_PASSWORD", "r"), Var("MYSQL", "USER", "u"),
                EnvVar("MYSQL", "PASSWORD", "p", "FILE=p")>>}

Home == [compose |-> TRUE, dotenv |-> Empty, override |-> Empty, main |-> Empty,
         base |-> <<"A", ".">>]
Above == [Home EXCEPT !.compose = FALSE]
Machine(containers) ==
    [composeFile |-> FALSE, dirs |-> <<Above, Home>>, projectVar |-> Empty, reachable |-> TRUE,
     containers |-> containers, project |-> TRUE, exposed |-> FALSE, tunnels |-> Empty,
     lang |-> "php", doctrine |-> "", versionVar |-> "", appId |-> "id", prod |-> FALSE,
     servers |-> <<Empty, [scheme |-> "https", port |-> 8000]>>, domains |-> Empty]

Databases(env) == <<Box("db", {3306}, env), Box("db", {5432}, env),
                    [Box("web", {80}, Empty) EXCEPT !.mercure = TRUE]>>
Services == <<Box("mailer", {1025, 8025}, Empty),
              Box("queue", {5672, 15672}, <<Var("RABBITMQ", "USER", "u")>>),
              [Box("queue", {9200}, Empty) EXCEPT !.prefix = <<"search">>]>>
Others == <<[Box("hidden", {8080}, Empty) EXCEPT !.ignore = TRUE],
            [Box("docs", {27017}, Empty) EXCEPT !.project = <<"A">>],
            Box("docs", {27018}, <<Var("MONGO", "USER", "u")>>), Box("log", {8707}, Empty)>>
Remote(name, service) == [mine |-> TRUE, name |-> name, service |-> service]
Db == [host |-> "db.internal", ip |-> "ip", port |-> 3306, rel |-> "mysql", scheme |-> "mysql",
       username |-> "u", password |-> "p", path |-> "main", type |-> "8.0"]

Worlds ==
    {Machine(Databases(env)) : env \in MysqlEnvs} \union
    {Machine(Services), Machine(Others), [Machine(Others) EXCEPT !.reachable = FALSE],
     [Machine(Services) EXCEPT !.exposed = TRUE, !.prod = TRUE,
         !.tunnels = <<Remote(<<"db">>, Db), [Remote(<<"db">>, Db) EXCEPT !.mine = FALSE]>>],
     [Machine(Services) EXCEPT !.exposed = TRUE, !.projectVar = <<"a">>, !.domains = <<"app.wip">>],
     [Machine(Databases(Empty)) EXCEPT !.project = FALSE, !.composeFile = TRUE,
         !.dirs = <<Home>>, !.lang = "python"]}

-----------------------------------------------------------------------------
(* Machines of the cloud.                                                   *)

Way(kind, up, to, exact) ==
    [kind |-> kind, valid |-> TRUE, upstream |-> up, to |-> to, exact |-> exact, port |-> "",
     scheme |-> "https"]
WaySets ==
    {<<>>, <<Way("redirect", "app", "www.{default}", TRUE), Way("upstream", "api", "{all}", TRUE)>>,
     <<Way("upstream", "api", "{default}", FALSE), Way("upstream", "app", "other", FALSE),
       Way("upstream", "app", "{all}", FALSE)>>,
     <<[Way("upstream", "app", "{all}", FALSE) EXCEPT !.valid = FALSE],
       Way("upstream", "api", "other", TRUE), Way("upstream", "app", "other", FALSE)>>}
Rabbit2(host) == [scheme |-> "amqp", host |-> host, port |-> "5672"]
Site == [PLATFORM_PROJECT |-> "p", PLATFORM_BRANCH |-> "master", PLATFORM_ENVIRONMENT |-> "master-1"]
OSs == {Site, [APP_ENV |-> "test", PLATFORM_SMTP_HOST |-> "smtp"] @@ Site,
        [SYMFONY_ENV |-> "dev", APP_DEBUG |-> "1", PLATFORM_PROJECT_ENTROPY |-> "e",
         PLATFORM_BRANCH |-> "b"] @@ Site,
        [APP_ENV |-> "", SYMFONY_ENV |-> "dev", MAILER_DSN |-> "m", MAILFROM |-> "me"] @@ Site}
Files == {<<>>, ".env.local" :> [B |-> "local"] @@ ".env.dev" :> [C |-> "dev"],
          ".env" :> [A |-> "base", APP_ENV |-> "test"] @@ ".env.local" :> [A |-> "l", B |-> "l"]
             @@ ".env.test" :> [B |-> "test"] @@ ".env.test.local" :> [B |-> "tl", C |-> "tl"],
          ".env.dist" :> [A |-> "dist"] @@ ".env.local" :> [A |-> "l", C |-> "l"]
             @@ ".env.dev" :> Broken, ".env" :> Broken @@ ".env.dist" :> [A |-> "dist"]}
Clouds ==
    {[app |-> [name |-> "app", worker |-> k], routes |-> ways, os |-> os, services |-> svc,
      dirs |-> <<<<>>, d>>, cwd |-> ".env.local" :> [A |-> "cwd"],
      links |-> <<"mq">> :> <<Rabbit2("h1"), Rabbit2("h2")>>
                @@ <<"db">> :> <<[scheme |-> "mysql", host |-> "h3", port |-> "3306"]>>] :
        k \in BOOLEAN, ways \in WaySets, os \in OSs, d \in Files,
        svc \in {[C |-> "svc"], [C |-> "svc", APP_ENV |-> "prod"]}}

-----------------------------------------------------------------------------
(* Commands that run PHP: the second version comes without php-fpm.         *)

MCBins == [v \in 1 .. 3 |-> IF v = 2 THEN {"php"} ELSE {"php", "php-fpm"}]
MCBinName == p1 :> "php" @@ p2 :> "php-fpm"

(* Machines with a project.                                                 *)

Plain == [dirs |-> <<<<>>, "bin/console" :> "script">>, consolePath |-> "", inCloud |-> FALSE,
          phpDir |-> <<>>, path |-> <<>>, nixPhar |-> FALSE, lock |-> "", toolPath |-> FALSE,
          opts |-> <<>>]
Machines ==
    {Plain, [Plain EXCEPT !.path = "composer" :> "other" @@ "pie" :> "nix"],
     [Plain EXCEPT !.lock = "1.", !.phpDir = "composer1" :> "script" @@ "pie" :> "plain"],
     [Plain EXCEPT !.dirs[1] = "composer.phar" :> "other" @@ "pie" :> "script", !.nixPhar = TRUE],
     [Plain EXCEPT !.dirs[1] = "composer2" :> "script" @@ "composer" :> "other", !.toolPath = TRUE]}
Invocations ==
    {[Plain EXCEPT !.opts = o] :
       o \in UNION {[1 .. n -> Options] : n \in 0 .. 3}}

-----------------------------------------------------------------------------
(* The flags of new.                                                        *)

NewFlagSets ==
    {[set |-> S, dir |-> "missing", php |-> php] :
        S \in SUBSET {"no-git", "webapp", "api", "cloud", "upsun", "service"}, php \in {"none", "8.3.1"}}
    \union {[set |-> S, dir |-> d, php |-> "none"] :
        S \in SUBSET {"book", "demo", "version", "skeleton"}, d \in {"none", "notEmpty", "missing"}}

(* Projects to configure: a tag is a version that the image exists in.      *)

Image(name, port, image, tag) == [name |-> name, ports |-> <<80, port>>, image |-> image, tag |-> tag]
Tags == "postgres" :> {<<9, 6>>, <<10, -1>>, <<17, 2>>, <<18, -1>>, <<19, -1>>, NoVersion}
        @@ "mysql" :> {<<5, 7>>, <<8, 4>>, <<9, 1>>} @@ "mariadb" :> {<<10, 11>>, <<11, 8>>, <<12, 0>>}
        @@ "elasticsearch" :> {<<7, 2>>, <<7, 17>>, <<9, 0>>} @@ "kafka" :> {<<3, 9>>, <<4, 0>>}
PortOf == "postgres" :> 5432 @@ "mysql" :> 3306 @@ "mariadb" :> 3306 @@ "elasticsearch" :> 9200
          @@ "kafka" :> 9092
Composes == UNION {{Image("s", PortOf[i], i, t) : t \in Tags[i]} : i \in DOMAIN Tags}
CLIService(name, type, parts) == [name |-> name, type |-> type, version |-> <<7, 0>>, parts |-> parts]
Req(type, value) == [type |-> type, value |-> value, least |-> 8]
Template(name, reqs, more) == [name |-> name, good |-> TRUE, reqs |-> reqs, extra |-> more]
Templates ==
    <<[Template("a", {}, {}) EXCEPT !.good = FALSE],
      Template("b", {Req("file_exists", "x"), Req("has_composer_package", "p")}, {"extra"}),
      Template("c", {Req("php_at_least", ""), Req("has_php_extension", "e")}, {"php.ini"}),
      Template("d", {Req("unknown", "")}, {}), Template("e", {}, {"extra"})>>
Composer(ok, has) == [ok |-> ok, has |-> has]
Site0 ==
    [flags |-> <<>>, docker |-> {}, templates |-> Templates, template |-> "none", phpini |-> TRUE,
     product |-> "flex", lock |-> Composer(FALSE, {}), json |-> Composer(TRUE, {"p"}), php |-> 8,
     files |-> {"x", "php.ini"}, dump |-> FALSE, force |-> FALSE]
Sites ==
    {[Site0 EXCEPT !.docker = {c}, !.flags = <<CLIService("r", "redis-persistent", 2)>>] : c \in Composes}
    \union {[Site0 EXCEPT !.docker = {Image("s", 5432, "postgres", <<19, -1>>), Image("t", 9092, "kafka", <<3, 7>>)}]}
    \union {[Site0 EXCEPT !.flags = <<CLIService("db", "none", 1), CLIService("q", "kafka", n)>>] : n \in {3, 4}}
    \union {[Site0 EXCEPT !.dump = d, !.force = f, !.files = e, !.lock = k, !.product = p] :
        d \in BOOLEAN, f \in BOOLEAN, e \in {{}, {"x", "extra"}, {"x", ".platform/routes.yaml"}},
        k \in {Composer(FALSE, {}), Composer(TRUE, {"e"})}, p \in {"flex", "fixed"}}
    \union {[Site0 EXCEPT !.template = t, !.phpini = i] : t \in {"a", "d", "z"}, i \in BOOLEAN}
    \union {[Site0 EXCEPT !.php = v, !.lock = Composer(TRUE, {"e"})] : v \in {7, 8}}
    \union {[Site0 EXCEPT !.template = "url", !.templates = <<Template("url", {}, {"extra"})>>]}

(* Settings of a server.                                                    *)

Conf(keys, deprecated, workers) == [keys |-> keys, deprecated |-> deprecated, workers |-> workers]
ConfFiles ==
    {NoFile, BadFile, Conf([daemon |-> "on"], <<>>, "w" :> [cmd |-> "run"]),
     Conf([daemon |-> "off", port |-> 8080], [no_workers |-> "on"], "w" :> Null @@ "docker_compose" :> Null),
     Conf([daemon |-> "on", no_workers |-> "off", passthru |-> "index.html"], [daemon |-> "old"], "w" :> [watch |-> "src"]),
     Conf([document_root |-> "www"], [daemon |-> "new", no_workers |-> "new"],
          "w" :> [cmd |-> "other"] @@ "docker_compose" :> [cmd |-> "none"])}
ConfFlags == {<<>>, [daemon |-> "flag", port |-> 0] @@ "allow-all-ip" :> "yes",
              "tls-key-log-file" :> "log" @@ "listen-ip" :> "10.0.0.1"}
PublicDirs == {[publicDir |-> "none", files |-> "public" :> {"index.php", "index.html"} @@ "web" :> {"app.php"}],
               [publicDir |-> "www", files |-> "www" :> {"app.php"}], [publicDir |-> "none", files |-> <<>>]}

(* Steps of the book, and directories of cloud projects.                    *)

MCFeatures == "main" :> {"compose", "consumer", "migrations", "fixtures", "package", "spa"} @@ "3" :> {}
              @@ "8" :> {"compose", "migrations", "consumer"} @@ "27" :> {"compose", "package", "spa"}
App(name, source) == [name |-> name, source |-> source]
Tree(dir, files) ==
    [dir |-> dir, roots |-> {<<"r">>}, files |-> files, ids |-> <<"none", "id", "none">>, branch |-> "main",
     alphabet |-> <<"api", "app", "web">>]
Trees ==
    {Tree(d, <<"r", ".upsun", "a.yaml">> :> {App("web", <<>>), App("api", <<"api">>), App("app", <<"x">>)}
             @@ <<"r", ".upsun", "b.yaml">> :> {App("web", <<"x">>)}
             @@ <<"r", ".upsun", "c.yaml">> :> Garbled) : d \in {<<"r">>, <<"r", "api", "x">>, <<"s">>}}
    \union
    {Tree(d, <<"r", ".platform", "applications.yaml">> :> {App("app", <<"x">>), App("web", <<>>)}
             @@ <<"r", "api", ".platform.app.yaml">> :> {App("api", <<>>)}
             @@ <<"r", "vendor", ".platform.app.yaml">> :> {App("web", <<>>)}) :
        d \in {<<"r", "api">>, <<"r", "x", "y">>}}
    \union {Tree(<<"r", "x">>, <<"r", ".platform", "x">> :> {} @@ <<"r", "api", ".platform.app.yaml">> :> {App("api", <<>>)})}
    \union {[Tree(<<"r">>, <<"r", ".platform", "x">> :> {}) EXCEPT !.ids = i, !.branch = b] :
               i \in {<<"none", "none", "none">>, <<"id", "none", "none">>}, b \in {"none", "main"}}

-----------------------------------------------------------------------------
\* The type invariant of the parts.
TypesOK ==
    /\ EnvTypeOK /\ CloudTypeOK /\ ExeTypeOK /\ ToolTypeOK /\ MakeTypeOK /\ SiteTypeOK
    /\ ConfTypeOK /\ BookTypeOK /\ InstTypeOK /\ AppTypeOK

all == <<envVars, cloudVars, exeVars, toolVars, makeVars, siteVars, confVars, bookVars, instVars,
         appVars, part>>

NoCloud == CloudInit(CHOOSE w \in Clouds : TRUE, "off")
NoEnv == EnvInit(Machine(Empty), "off")
NoExe == ExeInit("dead", FALSE)
NoTool == ToolInit(Plain, "off")
NoMake == MakeInit([set |-> {}, dir |-> "none", php |-> "none"], "off")
NoSite == SiteInit(Site0, "off")
NoConf == ConfInit(<<>>, <<>>, [publicDir |-> "none", files |-> <<>>], "off")
NoApp == AppInit(CHOOSE w \in Trees : TRUE, "off")

\* The part that a behaviour follows starts, the others stay off.
MCInit ==
    /\ part \in {"local", "cloud", "php", "tool", "args", "new", "init", "config", "book", "install", "apps"}
    /\ IF part = "local" THEN \E w \in Worlds : EnvInit(w, "list") ELSE NoEnv
    /\ IF part = "cloud" THEN \E w \in Clouds : CloudInit(w, "management") ELSE NoCloud
    /\ IF part = "php" THEN \E c \in BOOLEAN : ExeInit("config", c) ELSE NoExe
    /\ CASE part = "tool" -> \E m \in Machines : ToolInit(m, "find")
         [] part = "args" -> \E m \in Invocations : ToolInit(m, "off")
         [] OTHER -> NoTool
    /\ IF part = "new" THEN \E f \in NewFlagSets : MakeInit(f, "check") ELSE NoMake
    /\ IF part = "init" THEN \E s \in Sites : SiteInit(s, "git") ELSE NoSite
    /\ IF part = "config" THEN \E f \in [1 .. 3 -> ConfFiles], g \in ConfFlags, d \in PublicDirs :
                                 ConfInit(f, g, d, "files")
       ELSE NoConf
    /\ BookInit /\ InstInit
    /\ IF part = "apps" THEN \E w \in Trees : AppInit(w, "start") ELSE NoApp

MCNext ==
    \/ /\ part = "local" /\ EnvNext
       /\ UNCHANGED <<cloudVars, exeVars, toolVars, makeVars, siteVars, confVars, bookVars, instVars, appVars, part>>
    \/ /\ part = "cloud" /\ CloudNext
       /\ UNCHANGED <<envVars, exeVars, toolVars, makeVars, siteVars, confVars, bookVars, instVars, appVars, part>>
    \/ /\ part = "php" /\ ExeNext
       /\ UNCHANGED <<envVars, cloudVars, toolVars, makeVars, siteVars, confVars, bookVars, instVars, appVars, part>>
    \/ /\ part = "tool" /\ ToolNext
       /\ UNCHANGED <<envVars, cloudVars, exeVars, makeVars, siteVars, confVars, bookVars, instVars, appVars, part>>
    \/ /\ part = "new" /\ MakeNext
       /\ UNCHANGED <<envVars, cloudVars, exeVars, toolVars, siteVars, confVars, bookVars, instVars, appVars, part>>
    \/ /\ part = "init" /\ SiteNext
       /\ UNCHANGED <<envVars, cloudVars, exeVars, toolVars, makeVars, confVars, bookVars, instVars, appVars, part>>
    \/ /\ part = "config" /\ ConfNext
       /\ UNCHANGED <<envVars, cloudVars, exeVars, toolVars, makeVars, siteVars, bookVars, instVars, appVars, part>>
    \/ /\ part = "book" /\ BookNext
       /\ UNCHANGED <<envVars, cloudVars, exeVars, toolVars, makeVars, siteVars, confVars, instVars, appVars, part>>
    \/ /\ part = "install" /\ InstNext
       /\ UNCHANGED <<envVars, cloudVars, exeVars, toolVars, makeVars, siteVars, confVars, bookVars, appVars, part>>
    \/ /\ part = "apps" /\ AppNext
       /\ UNCHANGED <<envVars, cloudVars, exeVars, toolVars, makeVars, siteVars, confVars, bookVars, instVars, part>>

MCSpec == MCInit /\ [][MCNext]_all
=============================================================================
