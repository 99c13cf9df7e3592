---------------------------- MODULE CloudConfig ----------------------------
(***************************************************************************)
(* The configuration of a project for the cloud (project:init, and the end *)
(* of new): the services that flags and Docker Compose ask for, the        *)
(* template that fits the project, and the files made of it.               *)
(*                                                                         *)
(* A version is a pair <<major, minor>>, with minor -1 when the text has   *)
(* none, and NoVersion for the empty text.                                 *)
(***************************************************************************)
EXTENDS Integers, Sequences, FiniteSets, FiniteSetsExt

VARIABLES
    site,       \* the project, its flags and the templates
    setupAt,    \* the next step
    services,   \* the services of the configuration
    tried,      \* templates looked at
    chosen,     \* the one that is used, 0 for none
    siteFiles,  \* the files of the project: "user" or "generated"
    toWrite,    \* files to write
    created     \* files reported as created

siteVars == <<site, setupAt, services, tried, chosen, siteFiles, toWrite, created>>

NoVersion == <<-1, -1>>

\* availableServices: the last of the supported versions.
ServiceLastVersion(type) ==
    CASE type = "chrome-headless" -> <<120, -1>>   [] type = "clickhouse" -> <<25, 8>>
      [] type = "elasticsearch" -> <<7, 10>>   [] type = "elasticsearch-enterprise" -> <<8, 19>>
      [] type = "gotenberg" -> <<8, -1>>   [] type = "influxdb" -> <<2, 7>>
      [] type = "kafka" -> <<3, 7>>   [] type = "mariadb" -> <<11, 8>>
      [] type = "mariadb-replica" -> <<11, 4>>   [] type = "memcached" -> <<1, 6>>
      [] type = "mercure" -> <<0, -1>>   [] type = "mongodb" -> <<4, 0>>
      [] type = "mongodb-enterprise" -> <<7, 0>>   [] type = "mysql" -> <<11, 8>>
      [] type = "network-storage" -> <<1, 0>>   [] type = "opensearch" -> <<3, -1>>
      [] type = "oracle-mysql" -> <<8, 4>>   [] type = "postgresql" -> <<18, -1>>
      [] type = "postgresql-replica" -> <<15, -1>>   [] type = "rabbitmq" -> <<4, 1>>
      [] type = "redis" -> <<8, 0>>   [] type = "solr" -> <<9, 9>>
      [] type = "valkey" -> <<8, 1>>   [] type = "varnish" -> <<7, 6>>
      [] type = "vault-kms" -> <<1, 12>>
      [] OTHER -> NoVersion

\* The text of a version, "." as -1, which is before the digits; Go compares
\* texts, not numbers.
Digits(n) == IF n < 10 THEN <<n>> ELSE IF n < 100 THEN <<n \div 10, n % 10>>
             ELSE <<n \div 100, (n \div 10) % 10, n % 10>>
Text(v) == IF v = NoVersion THEN <<>>
           ELSE Digits(v[1]) \o (IF v[2] = -1 THEN <<>> ELSE <<-1>> \o Digits(v[2]))
TextAbove(v, w) ==
    LET a == Text(v)  b == Text(w) IN
    \/ Len(a) > Len(b) /\ \A j \in DOMAIN b : a[j] = b[j]
    \/ \E i \in DOMAIN a \intersect DOMAIN b :
          a[i] > b[i] /\ \A j \in 1 .. i - 1 : a[j] = b[j]

\* CloudService.SetEndpoint.
Endpoint(type) == CASE type = "redis-persistent" -> "redis"
                    [] type = "oracle-mysql" -> "mysql"
                    [] OTHER -> type
Service(name, type, version) ==
    [name |-> name, type |-> type, endpoint |-> Endpoint(type), version |-> version]

\* parseCLIServices, one flag: name, name:type or name:type:version; more
\* parts are refused.
parseCLIService_NoEndpoint(f) == [Service(f.name, f.type, f.version) EXCEPT !.endpoint = "none"]
parseCLIService(f) ==
    LET type == IF f.type = "none" THEN f.name ELSE f.type
        version == IF f.parts = 3 THEN f.version ELSE ServiceLastVersion(type)
    IN  Service(f.name, type,
                IF type = "redis-persistent" THEN ServiceLastVersion("redis") ELSE version)

\* parseDockerComposeServices: the first known port tells the type, the tag
\* of the image the version, up to the last one.
PortType(port, image) ==
    CASE port = 3306 -> IF image = "mariadb" THEN "mariadb"
                        ELSE IF image = "mysql" THEN "oracle-mysql" ELSE "mysql"
      [] port = 5432 -> "postgresql"    [] port = 6379 -> "redis"
      [] port = 11211 -> "memcached"    [] port = 5672 -> "rabbitmq"
      [] port = 9200 -> "elasticsearch" [] port = 27017 -> "mongodb"
      [] port = 9092 -> "kafka"         [] OTHER -> "none"
Clamp(type, version) ==
    IF version = NoVersion \/ TextAbove(version, ServiceLastVersion(type))
    THEN ServiceLastVersion(type) ELSE version
Known(c) == {i \in DOMAIN c.ports : PortType(c.ports[i], c.image) # "none"}
DockerType(c) == PortType(c.ports[Min(Known(c))], c.image)
parseDockerService(c) == Service(c.name, DockerType(c), Clamp(DockerType(c), c.tag))

\* project:init, its start: the repository is created unless there is one.
gitInit ==
    /\ setupAt = "git"
    /\ \E s \in {"services", "failed"} : setupAt' = s
    /\ UNCHANGED <<site, services, tried, chosen, siteFiles, toWrite, created>>

\* parseCloudServices: those of the flags, then those of Docker Compose, in
\* the order of its library.
parseCloudServices ==
    /\ setupAt = "services"
    /\ IF \E i \in DOMAIN site.flags : site.flags[i].parts > 3
       THEN setupAt' = "failed" /\ UNCHANGED services
       ELSE /\ setupAt' = "fetch"
            /\ LET docker == {parseDockerService(c) : c \in {c \in site.docker : Known(c) # {}}}
               IN  \E s \in Bijection(1 .. Cardinality(docker), docker) :
                     services' = [i \in DOMAIN site.flags |-> parseCLIService(site.flags[i])] \o s
    /\ UNCHANGED <<site, tried, chosen, siteFiles, toWrite, created>>

-----------------------------------------------------------------------------
(* The template.  A template is "good" with the requirements it has, or     *)
(* cannot be read.                                                          *)

\* The lock file decides, composer.json only without one; the names of
\* packages and those of extensions, "ext-...", differ.
hasComposerPackage(pkg) ==
    IF site.lock.ok THEN pkg \in site.lock.has ELSE site.json.ok /\ pkg \in site.json.has
hasPHPExtension(ext) ==
    IF site.lock.ok THEN ext \in site.lock.has ELSE site.json.ok /\ ext \in site.json.has

\* configRequirement.Check; a requirement of an unknown type does not hold.
Holds(req) ==
    CASE req.type = "file_exists" -> req.value \in DOMAIN siteFiles
      [] req.type = "has_composer_package" -> hasComposerPackage(req.value)
      [] req.type = "has_php_extension" -> hasPHPExtension(req.value)
      [] req.type = "php_at_least" -> site.php >= req.least
      [] OTHER -> FALSE
Match(t) == \A req \in t.reqs : Holds(req)

\* getTemplates: the copy of the templates is cloned or updated.
FetchTemplates ==
    /\ setupAt = "fetch"
    /\ \E s \in {"choose", "failed"} : setupAt' = s
    /\ UNCHANGED <<site, services, tried, chosen, siteFiles, toWrite, created>>

\* getTemplates: the template is a file or a URL, the last one of the site.
GivenTemplate ==
    /\ setupAt = "choose" /\ site.template = "url"
    /\ \/ setupAt' = "files" /\ chosen' = Len(site.templates) /\ tried' = chosen'
       \/ setupAt' = "failed" /\ UNCHANGED <<chosen, tried>>
    /\ UNCHANGED <<site, services, siteFiles, toWrite, created>>

\* getTemplates, one template of the directory: the one that was asked for,
\* or one that matches; one that is broken is only an error if it was asked
\* for.
TryTemplate ==
    /\ setupAt = "choose" /\ site.template # "url" /\ tried < Len(site.templates)
    /\ tried' = tried + 1
    /\ LET t == site.templates[tried + 1]
           asked == site.template = t.name
       IN  CASE site.template # "none" /\ ~asked -> UNCHANGED <<setupAt, chosen>>
             [] (site.template = "none" \/ asked) /\ ~t.good ->
                   setupAt' = (IF asked THEN "failed" ELSE setupAt) /\ UNCHANGED chosen
             [] site.template = "none" /\ t.good /\ ~Match(t) -> UNCHANGED <<setupAt, chosen>>
             [] OTHER -> setupAt' = "files" /\ chosen' = tried + 1
    /\ UNCHANGED <<site, services, siteFiles, toWrite, created>>
NoTemplate ==
    /\ setupAt = "choose" /\ site.template # "url" /\ tried = Len(site.templates)
    /\ setupAt' = "failed"
    /\ UNCHANGED <<site, services, tried, chosen, siteFiles, toWrite, created>>

\* getTemplates, its end: the files of the product, those of the template
\* that are not among them; there must be a php.ini.
ListFiles ==
    /\ setupAt = "files"
    /\ IF ~site.phpini THEN setupAt' = "failed" /\ UNCHANGED toWrite
       ELSE /\ setupAt' = "write"
            /\ toWrite' = {"php.ini"} \union site.templates[chosen].extra \union
                 (IF site.product = "flex" THEN {".upsun/config.yaml"}
                  ELSE {".platform.app.yaml", ".platform/services.yaml", ".platform/routes.yaml"})
    /\ UNCHANGED <<site, services, tried, chosen, siteFiles, created>>

\* createRequiredFilesProject, one file, in any order: it is printed with
\* --dump, and one that exists is left alone unless --force is given.  One
\* that cannot be opened or written ends the command.
Written(f) ==
    [n \in DOMAIN siteFiles \union {f} |-> IF n = f THEN "generated" ELSE siteFiles[n]]

WriteSiteFile_Over ==
    /\ setupAt = "write"
    /\ \E f \in toWrite :
          /\ toWrite' = toWrite \ {f}
          /\ created' = created \union {f}
          /\ siteFiles' = Written(f)
    /\ UNCHANGED <<site, setupAt, services, tried, chosen>>
WriteSiteFile ==
    /\ setupAt = "write"
    /\ \E f \in toWrite :
          /\ toWrite' = toWrite \ {f}
          /\ IF site.dump \/ (f \in DOMAIN siteFiles /\ ~site.force)
             THEN UNCHANGED <<siteFiles, created>> /\ setupAt' \in {"write", "failed"}
             ELSE /\ created' = created \union {f}
                  /\ \/ siteFiles' = Written(f) /\ setupAt' \in {"write", "failed"}
                     \/ setupAt' = "failed" /\ UNCHANGED siteFiles
    /\ UNCHANGED <<site, services, tried, chosen>>
FilesWritten ==
    /\ setupAt = "write" /\ toWrite = {} /\ setupAt' = "done"
    /\ UNCHANGED <<site, services, tried, chosen, siteFiles, toWrite, created>>

SiteInit(s, at) ==
    /\ site = s /\ setupAt = at
    /\ services = <<>> /\ tried = 0 /\ chosen = 0 /\ toWrite = {} /\ created = {}
    /\ siteFiles = [f \in s.files |-> "user"]

SiteNext ==
    \/ gitInit \/ parseCloudServices \/ FetchTemplates \/ GivenTemplate \/ TryTemplate
    \/ NoTemplate \/ ListFiles \/ WriteSiteFile \/ FilesWritten

-----------------------------------------------------------------------------

SiteTypeOK ==
    /\ setupAt \in {"off", "git", "services", "fetch", "choose", "files", "write", "done", "failed"}
    /\ tried \in 0 .. Len(site.templates) /\ chosen \in 0 .. tried
    /\ \A i \in DOMAIN services : "none" \notin {services[i].name, services[i].type, services[i].endpoint}
    /\ \A f \in DOMAIN siteFiles : siteFiles[f] \in {"user", "generated"}

\* A service of Docker Compose never gets a version newer than the cloud
\* has, though versions are compared as texts: for the versions that these
\* images have, no newer one comes first in the dictionary.
NotNewer ==
    setupAt \in {"fetch", "choose"} =>
        \A i \in Len(site.flags) + 1 .. Len(services) :
            LET v == services[i].version  w == ServiceLastVersion(services[i].type) IN
            v[1] < w[1] \/ (v[1] = w[1] /\ v[2] <= w[2])

\* The template that is used is the one that was asked for, else the first
\* of those that can be read whose requirements the project meets.
Fits(t) == t.good /\ IF site.template = "none" THEN Match(t) ELSE t.name = site.template
FirstFit ==
    setupAt = "files" =>
        IF site.template = "url" THEN chosen = Len(site.templates)
        ELSE Fits(site.templates[chosen]) /\ \A i \in 1 .. chosen - 1 : ~Fits(site.templates[i])

\* A file of the user is only replaced with --force, also when the command
\* fails half way.
UserFilesKept ==
    \A f \in site.files : f \in DOMAIN siteFiles /\ (siteFiles[f] = "user" \/ site.force)

\* The files that project:init lists, with the "git add" to run, are those
\* it has written: none is missing and none was there before.
ReportIsExact ==
    setupAt = "done" => created = {f \in DOMAIN siteFiles : siteFiles[f] = "generated"}

\* What project:init chooses fits the project and the cloud, and it writes
\* and reports exactly the files that are its own, also when it fails.
SetupSound == NotNewer /\ FirstFit /\ UserFilesKept /\ ReportIsExact
=============================================================================
