-------------------------- MODULE DockerServices --------------------------
(***************************************************************************)
(* What envs/docker.go makes of the containers of a Docker Compose         *)
(* project: which containers belong to it, and the relationships (service  *)
(* endpoints) that each one exposes.  A container has the labels that      *)
(* Compose and the user give it, published ports, an ordered list of       *)
(* environment variables, and an image.  A name is a sequence of           *)
(* characters, of which only the classes that normalization tells apart    *)
(* matter: lower case letters, upper case ones, "-" and the others.        *)
(***************************************************************************)
EXTENDS Integers, Sequences, SequencesExt, FiniteSets, TLC

CONSTANT NoLabel    \* a label that a container does not have

Empty == <<>>

\* An entry of a container's environment: a variable of a family of names
\* (MYSQL_, POSTGRES_...) and its value.  The name the code looks for may be a
\* prefix of the real one: the rest of the entry is then its tail.
EnvVar(family, name, value, tail) ==
    [family |-> family, name |-> name, value |-> value, tail |-> tail]

\* getEnvValue skips the name it looked for and one more character, whatever
\* follows: of PASSWORD_FILE=x, found as PASSWORD, it gives FILE=x.
getEnvValue(e) == IF e.tail = "" THEN e.value ELSE e.tail

Lower(name) == [i \in DOMAIN name |-> IF name[i] = "A" THEN "a" ELSE name[i]]

normalizeDockerComposeProjectName(name) ==
    SelectSeq(Lower(name), LAMBDA ch : ch \in {"a", "-"})

normalizeDockerComposeProjectNameLegacy(name) ==
    SelectSeq(Lower(name), LAMBDA ch : ch = "a")

\* Containers of the project: the label is compared with both spellings.
InProject(c, project) ==
    c.project \in {normalizeDockerComposeProjectName(project),
                   normalizeDockerComposeProjectNameLegacy(project)}

Link(p, rel, scheme) == [host |-> "docker", ip |-> "docker", port |-> p.public,
                         rel |-> rel, scheme |-> scheme]

NoCredentials == [username |-> "", password |-> "", path |-> "", version |-> ""]

\* What one entry adds to the credentials found so far.
Credential(acc, e) ==
    CASE e.name = "ROOT_PASSWORD" ->
           IF acc.password # "" THEN acc
           ELSE [acc EXCEPT !.password = getEnvValue(e), !.username = "root"]
      [] e.name = "USER" -> [acc EXCEPT !.username = getEnvValue(e)]
      [] e.name = "PASSWORD" -> [acc EXCEPT !.password = getEnvValue(e)]
      [] e.name = "DATABASE" -> [acc EXCEPT !.path = getEnvValue(e)]
      [] e.name = "VERSION" -> [acc EXCEPT !.version = getEnvValue(e)]

\* The entries of a family with one of the names, in order.
Credentials(env, family, names, start) ==
    FoldLeft(Credential, start,
             SelectSeq(env, LAMBDA e : e.family = family /\ e.name \in names))

\* The database is named after its user when no name is given.
Named(cred) == [cred EXCEPT !.path = IF cred.path = "" THEN cred.username ELSE cred.path]

\* Two passes: MARIADB is what bitnami/mariadb uses.
Mysql(c, p) ==
    LET names == {"ROOT_PASSWORD", "USER", "PASSWORD", "DATABASE", "VERSION"}
        mysql == Credentials(c.env, "MYSQL", names, NoCredentials)
    IN  Named(Credentials(c.env, "MARIADB", names, mysql)) @@ Link(p, "mysql", "mysql")

\* POSTGRES_DB is the family's DATABASE, PG_VERSION its VERSION.
Pgsql(c, p) ==
    Named(Credentials(c.env, "POSTGRES", {"USER", "PASSWORD", "DATABASE", "VERSION"},
                      NoCredentials)) @@ Link(p, "pgsql", "pgsql")

\* RABBITMQ_DEFAULT_USER and RABBITMQ_DEFAULT_PASS.
Rabbit(c, p) ==
    LET guest == [NoCredentials EXCEPT !.username = "guest", !.password = "guest"]
        cred == Credentials(c.env, "RABBITMQ", {"USER", "PASSWORD"}, guest)
    IN  [username |-> cred.username, password |-> cred.password] @@ Link(p, "amqp", "amqp")

\* MONGO_INITDB_ROOT_USERNAME and _PASSWORD, MONGO_DATABASE or MONGO_INITDB_DATABASE.
Mongo(c, p) ==
    LET cred == Credentials(c.env, "MONGO", {"USER", "PASSWORD", "DATABASE"}, NoCredentials)
    IN  [username |-> cred.username, password |-> cred.password, path |-> cred.path]
            @@ Link(p, "mongodb", "mongodb")

\* The endpoint of a service that only its port tells.
ByPort(p, c) ==
    CASE p.private \in {8707, 8307} -> Link(p, "blackfire", "tcp")
      [] p.private = 3306 -> Mysql(c, p)
      [] p.private = 5432 -> Pgsql(c, p)
      [] p.private = 6379 -> Link(p, "redis", "redis")
      [] p.private = 11211 -> Link(p, "memcached", "memcached")
      [] p.private = 5672 -> Rabbit(c, p)
      [] p.private = 9200 -> [path |-> "/"] @@ Link(p, "elasticsearch", "http")
      [] p.private = 5601 -> [path |-> "/"] @@ Link(p, "kibana", "http")
      [] p.private \in 27017 .. 27019 -> Mongo(c, p)
      [] p.private = 9092 -> Link(p, "kafka", "kafka")
      [] p.private \in {80, 8008, 8080, 8081} ->
           Link(p, IF p.private = 80 /\ c.mercure THEN "mercure" ELSE "simple", "http")
      [] p.private \in {443, 8443} -> Link(p, "simple", "https")
      [] OTHER -> Link(p, "simple", "tcp")

\* The ports that a web interface beside the lowest port answers on.
WebPorts(p) == CASE p.private = 1025 -> {1080, 8025}
                 [] p.private = 25 -> {80}
                 [] p.private = 5672 -> {15672}
                 [] OTHER -> {}

\* The relationships of one container, by the suffix of their names.
dockerServiceToRelationship(c) ==
    LET exposed == {p \in c.ports : p.public # 0}
        Lowest(P) == CHOOSE p \in P : \A q \in P : p.private <= q.private
        p == Lowest(exposed)
        web == {q \in exposed : q.private \in WebPorts(p)}
    IN  IF c.ignore \/ exposed = {} THEN Empty
        ELSE IF web = {} THEN Empty :> ByPort(p, c)
        ELSE IF p.private = 5672
        THEN Empty :> Rabbit(c, p) @@
             <<"management">> :> Link(Lowest(web), "amqp", "http")
        ELSE Empty :> Link(p, "mailer", "smtp") @@
             <<"web">> :> Link(Lowest(web), "mailer", "http")

\* The name a container's relationships go by, when it has one.
ServiceName(c) == IF c.prefix # NoLabel THEN c.prefix ELSE c.service

\* Relationships are sequences of endpoints by name, in the order of the list
\* of containers.
Add(rels, name, e) ==
    IF name \in DOMAIN rels THEN [rels EXCEPT ![name] = Append(@, e)]
                            ELSE name :> <<e>> @@ rels

AddContainer(rels, c) ==
    LET found == dockerServiceToRelationship(c) IN
    IF ServiceName(c) = NoLabel THEN rels
    ELSE FoldSet(LAMBDA suffix, acc : Add(acc, ServiceName(c) \o suffix, found[suffix]),
                 rels, DOMAIN found)
=============================================================================
