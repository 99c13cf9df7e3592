----------------------------- MODULE WebServer -----------------------------
(***************************************************************************)
(* The requests of the local web server: http.Server (redirection to        *)
(* HTTPS, static files, server push, log), php.Server.Serve and the   *)
(* transports to PHP, whose process stops and restarts meanwhile.  Each     *)
(* request is handled by a goroutine of its own.                            *)
(***************************************************************************)
EXTENDS Integers, FiniteSets

CONSTANTS
    Reqs,       \* the requests
    MaxDial,    \* dials retried before giving up (10)
    NoReq

VARIABLES
    web,        \* web[r]: where the goroutine of r is, and its response
    ask,        \* ask[r]: the request, and the answer its page gives
    conf,       \* [tls, allowHTTP, backend, passthru] of the server
    php,        \* is PHP listening?
    envFile     \* envFile[f]: the environment that the file f holds

webVars == <<web, ask, conf, php, envFile>>

WebTypeOK ==
    /\ \A r \in Reqs :
         /\ web[r].pc \in {"off", "new", "handle", "serve", "dial", "run", "broken", "modify", "failed",
                           "cleanup", "push", "done"}
         /\ web[r].tries \in 0 .. MaxDial /\ (web[r].got # NoReq => web[r].got.headers \in Reqs)
         /\ web[r].status \in {0, 200, 307, 404, 502} /\ web[r].logged \in {0, 200, 404, 502}
         /\ web[r].pushed \subseteq ask[r].links
    /\ php \in BOOLEAN /\ DOMAIN envFile \subseteq Reqs

WebInit(at, c, q) ==
    /\ ask = q /\ conf = c
    /\ web = [r \in Reqs |-> [pc |-> at, tries |-> 0, status |-> 0, logged |-> 0, got |-> NoReq,
                              body |-> "none", env |-> NoReq, bar |-> <<>>, pushed |-> {}]]
    /\ php \in (IF at = "off" THEN {FALSE} ELSE BOOLEAN)
    /\ envFile = <<>>

Go(r, pc) == web' = [web EXCEPT ![r].pc = pc]

\* ResponseWriterProxy: the recorder sees what the client is sent.
Respond(r, code, next) ==
    web' = [web EXCEPT ![r].status = code, ![r].logged = code, ![r].pc = next]

\* Plain HTTP is redirected, except what the proxy forwards from HTTPS.
Accept(r) ==
    /\ web[r].pc = "new"
    /\ IF conf.tls /\ ~conf.allowHTTP /\ ask[r].scheme = "http" /\ ~ask[r].forwarded
       THEN web' = [web EXCEPT ![r].status = 307, ![r].pc = "done"]
       ELSE Go(r, "handle")
    /\ UNCHANGED <<ask, conf, php, envFile>>

\* A path that does not end with .php and names a file is that file.
Handler(r) ==
    /\ web[r].pc = "handle"
    /\ IF ask[r].path = "file" THEN Respond(r, 200, "push")
       ELSE IF conf.backend = "none" THEN Respond(r, 404, "push")
       ELSE Go(r, "serve")
    /\ UNCHANGED <<ask, conf, php, envFile>>

\* The first part of the path that ends with .php is the script, when it
\* exists, and the rest its path; the front controller gets the whole path.
\* A body has its length in a header, unless it is chunked.
generateEnv(r) ==
    [script |-> IF ask[r].path = "script" THEN "script" ELSE conf.passthru,
     pathInfo |-> IF ask[r].path = "script" THEN "rest" ELSE "path",
     length |-> IF ask[r].body = "length" THEN "size" ELSE "none",
     remote |-> IF ask[r].forwarded THEN "X-Client-IP" ELSE "address",
     https |-> ask[r].scheme = "https", headers |-> r]

\* The file of the environment, which the PHP router requires.
envPath_Shared(r) == CHOOSE s \in Reqs : TRUE
envPath(r) == r

Put(f, k, v) == [x \in (DOMAIN f) \union {k} |-> IF x = k THEN v ELSE f[x]]

Serve(r) ==
    /\ web[r].pc = "serve"
    /\ IF conf.passthru = "none" THEN Respond(r, 502, "push") /\ UNCHANGED envFile
       ELSE \/ /\ web' = [web EXCEPT ![r].pc = "dial", ![r].env = generateEnv(r)]
               /\ envFile' = IF conf.backend = "cli" THEN Put(envFile, envPath(r), generateEnv(r))
                             ELSE envFile
            \/ conf.backend = "cli" /\ Respond(r, 502, "push") /\ UNCHANGED envFile
    /\ UNCHANGED <<ask, conf, php>>

\* cgiTransport tries again while PHP starts, and counts the bytes of a
\* chunked body, whose reading may fail; the CLI server is an HTTP server.
counted_Never(r) == web[r].env
counted(r) == IF conf.backend = "cgi" /\ ask[r].body = "chunked" THEN [web[r].env EXCEPT !.length = "size"]
              ELSE web[r].env

DialPhp_Forever(r) ==
    /\ web[r].pc = "dial"
    /\ IF php THEN web' = [web EXCEPT ![r].pc = "run", ![r].env = counted(r)] ELSE UNCHANGED web
    /\ UNCHANGED <<ask, conf, php, envFile>>

DialPhp(r) ==
    /\ web[r].pc = "dial"
    /\ IF ~php
       THEN IF conf.backend = "cli" \/ web[r].tries = MaxDial THEN Go(r, "failed")
            ELSE web' = [web EXCEPT ![r].tries = @ + 1]
       ELSE \/ web' = [web EXCEPT ![r].pc = "run", ![r].env = counted(r)]
            \/ conf.backend = "cgi" /\ ask[r].body = "chunked" /\ Go(r, "failed")
    /\ UNCHANGED <<ask, conf, php, envFile>>

\* PHP runs the page; with the CLI server, it reads the environment first.
RunPage(r) ==
    /\ web[r].pc = "run"
    /\ web' = [web EXCEPT ![r].pc = "modify",
                 ![r].got = IF conf.backend # "cli" THEN web[r].env
                            ELSE IF envPath(r) \in DOMAIN envFile THEN envFile[envPath(r)] ELSE NoReq]
    /\ UNCHANGED <<ask, conf, php, envFile>>

Broken502(r) ==
    /\ web[r].pc = "broken" /\ Go(r, "failed")
    /\ UNCHANGED <<ask, conf, php, envFile>>

PhpStarts ==
    /\ ~php /\ php' = TRUE /\ (\E r \in Reqs : web[r].pc \notin {"off", "done"})
    /\ UNCHANGED <<web, ask, conf, envFile>>

\* A restart cuts the requests that PHP runs.
PhpStops ==
    /\ php /\ php' = FALSE
    /\ web' = [r \in Reqs |-> IF web[r].pc = "run" THEN [web[r] EXCEPT !.pc = "broken"] ELSE web[r]]
    /\ UNCHANGED <<ask, conf, envFile>>

\* tweakToolbar: the first bytes are read ahead, to recognise the toolbar; a
\* read shorter than the hint is padded with spaces.
tweakToolbar(page) ==
    IF page = "toolbar" THEN "tweaked" ELSE IF page = "short" THEN "padded" ELSE page

\* An X-SendFile header that names a file; another is left alone.
sendsFile(r) == ask[r].sendfile

\* What the toolbar says of the variables PHP got, and the colour of its logo.
toolbarVars(env) ==
    IF env.tunnel /\ env.exposed THEN "cloud" ELSE IF env.docker /\ ~env.exposed THEN "docker" ELSE "none"
logoBg(env) ==
    CASE env.docker \/ (env.tunnel /\ env.exposed) -> "green"
      [] env.tunnel /\ ~env.exposed /\ ~env.docker -> "yellow"
      [] OTHER -> "normal"

\* ModifyResponse: the toolbar of an XMLHttpRequest, or else the file that
\* X-SendFile names.
Modify(r) ==
    LET xhr == ask[r].xhr
        text == IF xhr THEN tweakToolbar(ask[r].page)
                ELSE IF sendsFile(r) THEN "sentFile" ELSE ask[r].page IN
    /\ web[r].pc = "modify"
    /\ \/ xhr /\ Go(r, "failed")      \* a body that cannot be read
       \/ web' = [web EXCEPT ![r].status = 200, ![r].logged = 200, ![r].pc = "cleanup", ![r].body = text,
                             ![r].bar = IF text = "tweaked"
                                        THEN <<toolbarVars(ask[r].env), logoBg(ask[r].env)>> ELSE <<>>]
    /\ UNCHANGED <<ask, conf, php, envFile>>

ErrorHandler(r) ==
    /\ web[r].pc = "failed" /\ Respond(r, 502, "cleanup")
    /\ UNCHANGED <<ask, conf, php, envFile>>

\* The deferred removal of the file, when Serve returns.
Cleanup(r) ==
    /\ web[r].pc = "cleanup" /\ Go(r, "push")
    /\ envFile' = [f \in (DOMAIN envFile) \ {envPath(r)} |-> envFile[f]]
    /\ UNCHANGED <<ask, conf, php>>

\* servePreloadLinks: local resources to preload, unless they say nopush.
Preloaded(link) == ~link.nopush /\ link.rel \in {"none", "preload"} /\ ~link.remote

\* A refused push ends the loop, and the error hides the ones already done.
Preload(r) ==
    /\ web[r].pc = "push"
    /\ \E refused \in BOOLEAN :
         web' = [web EXCEPT ![r].pc = "done",
                   ![r].pushed = IF ask[r].h2 /\ ~refused /\ web[r].body # "none"
                                 THEN {l \in ask[r].links : Preloaded(l)} ELSE {}]
    /\ UNCHANGED <<ask, conf, php, envFile>>

Handle(r) ==
    Accept(r) \/ Handler(r) \/ Serve(r) \/ DialPhp(r) \/ RunPage(r) \/ Broken502(r) \/ Modify(r)
    \/ ErrorHandler(r) \/ Cleanup(r) \/ Preload(r)

WebNext == (\E r \in Reqs : Handle(r)) \/ PhpStarts \/ PhpStops

-----------------------------------------------------------------------------
\* Requests that PHP's CLI server runs at the same time get, each, the
\* environment of their own, from a file that exists while they run.
EnvOfRequest == \A r \in Reqs : web[r].pc = "modify" => web[r].got = web[r].env

\* No file of an environment is left when all requests are done.
EnvFilesRemoved == (\A r \in Reqs : web[r].pc = "done") => DOMAIN envFile = {}

\* The length PHP is told of a body is that of the body, chunked or not.
\* (A body of HTTP/2 without a length is not chunked: PHP is told nothing.)
LengthTold ==
    \A r \in Reqs : web[r].pc = "run" /\ conf.backend = "cgi" /\ ask[r].body # "stream" =>
        (web[r].env.length = "size") <=> (ask[r].body # "none")

\* Every request is answered, with PHP or without: PHP that does not come up
\* is not waited for forever, and a restart does not lose a request.
Answered == (\A r \in Reqs : web[r].pc = "new") ~> (\A r \in Reqs : web[r].pc = "done")

\* The log of a request tells the status its client got, and a page that is
\* not the toolbar reaches the client as it is, if its first bytes come
\* together; the toolbar is green exactly when it names the source of variables.
AnswerKept ==
    \A r \in Reqs : web[r].pc = "done" =>
        /\ web[r].status # 307 => web[r].logged = web[r].status
        /\ web[r].body # "none" /\ ask[r].page = "page" =>
             web[r].body = (IF ask[r].sendfile /\ ~ask[r].xhr THEN "sentFile" ELSE "page")
        /\ web[r].bar # <<>> => (web[r].bar[1] # "none" <=> web[r].bar[2] = "green")

\* Concurrent requests to PHP's CLI server do not see each other's
\* environment, and leave nothing behind.
OwnEnvironment == EnvOfRequest /\ EnvFilesRemoved

\* What the proxying of a request tells PHP and the client is what the other
\* side has sent: the length of the body, the page and its status.
ExchangeKept == LengthTold /\ AnswerKept
=============================================================================
