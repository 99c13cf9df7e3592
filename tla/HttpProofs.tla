----------------------------- MODULE HttpProofs -----------------------------
(***************************************************************************)
(* The requests of the web server, the FastCGI records and the followed    *)
(* logs, for any number of requests, workers and logs.                     *)
(***************************************************************************)
EXTENDS Fcgi, WebServer, Tailer, TLAPS

\* Leaves that need arithmetic or fields of records cite SMT.
USE Zenon

-----------------------------------------------------------------------------
(* The FastCGI records.                                                    *)

\* Between two pairs, the buffer holds the whole pairs since the last flush.
PairsInv ==
    /\ nn \in Nat /\ buffered \in Nat /\ sent \in Nat /\ sent \in ends
    /\ step \in {"begin", "params"} => buffered = nn /\ sent + buffered \in ends
    /\ step \in {"close", "end", "answer"} => buffered = 0
    /\ buffered <= maxWrite

\* What was read of the body is buffered or sent.
BodyInv ==
    /\ body \in [size : Nat, left : Nat, sent : Nat, ok : BOOLEAN]
    /\ answer.got = answer.sent
    /\ step \in {"begin", "params", "close"} => body.sent = 0 /\ body.left = body.size
    /\ step = "stdin" /\ body.ok => body.size = body.sent + buffered + body.left
    /\ step \in {"end", "answer", "done"} /\ body.ok => body.sent = body.size

\* All that the proofs need to know of maxWrite.
LEMMA MaxWriteLemma == maxWrite \in Nat /\ 8 <= maxWrite
  BY SMT DEF maxWrite

\* The length of a record of at most maxWrite bytes, on 16 bits.
LEMMA LengthLemma == ASSUME NEW n \in Nat, n < 65536 PROVE n % 65536 = n
  BY Z3

LEMMA PaddingLemma == ASSUME NEW n \in Nat PROVE (n + ((-n) % 8)) % 8 = 0
  BY SMT

\* A record of at most maxWrite bytes fits its header.
LEMMA HeaderLemma ==
    ASSUME NEW type, NEW n \in Nat, n <= maxWrite, rec' = header(type, n)
    PROVE  RecordFits'
<1>1. n < 65536
  BY SMT DEF maxWrite
<1>2. rec'.len = n /\ rec'.contentLength = n % 65536 /\ rec'.padding = (-n) % 8
  BY SMT DEF header
<1>3. n % 65536 = n
  BY <1>1, LengthLemma, Z3
<1>4. (n + ((-n) % 8)) % 8 = 0
  BY PaddingLemma, SMT
<1> QED
  BY <1>2, <1>3, <1>4, SMT DEF RecordFits

\* Names and values with the bytes that tell their lengths.
LEMMA EncodeLemma ==
    ASSUME NEW k \in Nat, NEW t \in Nat, NEW m \in Nat, k + t <= m - 8
    PROVE  encodeSize(k) + encodeSize(t) + k + t \in 0 .. m
  BY SMT DEF encodeSize

\* A pair, truncated if need be, fits a record.
LEMMA SizeLemma ==
    ASSUME NEW p \in Pairs, KeyLen[p] <= maxWrite - 8
    PROVE  size(p) \in Nat /\ size(p) <= maxWrite
<1>1. KeyLen[p] \in Nat /\ ValLen[p] \in Nat /\ maxWrite \in Nat
  BY PairsAssumption, MaxWriteLemma, SMT
<1>2. truncated(p) \in Nat /\ KeyLen[p] + truncated(p) <= maxWrite - 8
  BY <1>1, SMT DEF truncated
<1>3. encodeSize(KeyLen[p]) + encodeSize(truncated(p)) + KeyLen[p] + truncated(p) \in 0 .. maxWrite
  BY <1>1, <1>2, EncodeLemma, ZenonT(20)
<1>4. size(p) \in 0 .. maxWrite
  BY <1>3, Zenon DEF size
<1> QED
  BY <1>1, <1>4, SMT

\* The end of the answer, whatever its status.
LEMMA EndLemma ==
    ASSUME EndRequest
    PROVE  /\ step = "answer" /\ step' \in {"done", "error"}
           /\ UNCHANGED <<nn, buffered, sent, ends, rec, body, answer>>
<1>1. step = "answer" /\ UNCHANGED <<nn, buffered, sent, ends, rec, body, answer>>
  BY Zenon DEF EndRequest
<1>2. step' \in {"done", "error"}
  BY Zenon DEF EndRequest, extractStatus
<1> QED
  BY <1>1, <1>2

\* Every step writes records of at most maxWrite bytes.
LEMMA RecordStep ==
    ASSUME RecordFits, PairsInv, BodyInv, [FcgiNext]_fcgiVars
    PROVE  RecordFits'
<1> USE MaxWriteLemma
<1>1. CASE rec' = rec
  BY <1>1, SMT DEF RecordFits
<1>2. CASE BeginRequest
  BY <1>2, HeaderLemma, SMT DEF BeginRequest
<1>3. ASSUME NEW p \in Pairs, WritePair(p) PROVE RecordFits'
  <2>1. rec' \in {rec, header("params", maxWrite), header("params", buffered)}
    BY <1>3, SMT DEF WritePair
  <2> QED
    BY <1>1, <2>1, HeaderLemma, SMT DEF PairsInv
<1>4. CASE FlushParams
  BY <1>1, <1>4, HeaderLemma, SMT DEF FlushParams, PairsInv
<1>5. CASE CloseParams \/ CloseBody
  BY <1>5, HeaderLemma, SMT DEF CloseParams, CloseBody
<1>6. ASSUME NEW n, ReadBody(n) PROVE RecordFits'
  BY <1>1, <1>6, HeaderLemma, SMT DEF ReadBody
<1>7. CASE FlushBody
  BY <1>1, <1>7, HeaderLemma, SMT DEF FlushBody, PairsInv
<1>8. CASE BodyFails \/ Break \/ EndRequest \/ UNCHANGED fcgiVars
  BY <1>1, <1>8, EndLemma, Zenon DEF BodyFails, Break, fcgiVars
<1>9. ASSUME NEW n, ReadRecord(n) PROVE RecordFits'
  BY <1>1, <1>9, Zenon DEF ReadRecord
<1> QED
  BY <1>2, <1>3, <1>4, <1>5, <1>6, <1>7, <1>8, <1>9, Zenon DEF FcgiNext

\* writePairs flushes before a pair that would be cut.
LEMMA PairsStep ==
    ASSUME PairsInv, BodyInv, [FcgiNext]_fcgiVars
    PROVE  PairsInv'
<1> USE MaxWriteLemma DEF PairsInv
<1>1. ASSUME NEW p \in Pairs, WritePair(p) PROVE PairsInv'
  <2>1. size(p) \in Nat /\ size(p) <= maxWrite
    BY <1>1, SizeLemma, Zenon DEF WritePair
  <2>2. CASE nn + size(p) > maxWrite
    BY <1>1, <2>1, <2>2, SMT DEF WritePair, Overflow
  <2>3. CASE nn + size(p) <= maxWrite
    BY <1>1, <2>1, <2>3, SMT DEF WritePair, Overflow
  <2> QED
    BY <2>1, <2>2, <2>3, SMT
<1>2. CASE BeginRequest \/ FlushParams \/ CloseParams
  BY <1>2, SMT DEF BeginRequest, FlushParams, CloseParams
<1>3. ASSUME NEW n, ReadBody(n) PROVE PairsInv'
  BY <1>3, SMT DEF ReadBody, BodyInv
<1>4. CASE FlushBody \/ CloseBody \/ BodyFails \/ Break \/ UNCHANGED fcgiVars
  BY <1>4, SMT DEF FlushBody, CloseBody, BodyFails, Break, fcgiVars
<1>5. CASE EndRequest
  BY <1>5, EndLemma, SMT
<1>6. ASSUME NEW n, ReadRecord(n) PROVE PairsInv'
  <2>1. UNCHANGED <<step, nn, buffered, sent, ends>>
    BY <1>6, Zenon DEF ReadRecord
  <2> QED
    BY <2>1, SMT
<1> QED
  BY <1>1, <1>2, <1>3, <1>4, <1>5, <1>6, Zenon DEF FcgiNext

\* Every byte of the body that is read is buffered or sent.
LEMMA BodyStep ==
    ASSUME PairsInv, BodyInv, [FcgiNext]_fcgiVars
    PROVE  BodyInv'
<1> USE MaxWriteLemma DEF BodyInv
<1>1. ASSUME NEW p \in Pairs, WritePair(p) PROVE BodyInv'
  BY <1>1, SMT DEF WritePair
<1>2. CASE BeginRequest \/ FlushParams
  BY <1>2, SMT DEF BeginRequest, FlushParams
<1>3. CASE CloseParams
  BY <1>3, SMT DEF CloseParams, PairsInv
<1>4. ASSUME NEW n, ReadBody(n) PROVE BodyInv'
  <2>1. n \in Nat /\ n <= body.left
    BY <1>4, SMT DEF ReadBody
  <2>2. CASE buffered + n = maxWrite
    BY <1>4, <2>1, <2>2, SMT DEF ReadBody, PairsInv
  <2>3. CASE buffered + n # maxWrite
    BY <1>4, <2>1, <2>3, SMT DEF ReadBody, PairsInv
  <2> QED
    BY <2>2, <2>3
<1>5. CASE BodyFails
  BY <1>5, SMT DEF BodyFails
<1>6. CASE FlushBody
  BY <1>6, SMT DEF FlushBody, PairsInv
<1>7. CASE CloseBody \/ Break \/ UNCHANGED fcgiVars
  BY <1>7, SMT DEF CloseBody, Break, fcgiVars
<1>8. CASE EndRequest
  BY <1>8, EndLemma, SMT
<1>9. ASSUME NEW n, ReadRecord(n) PROVE BodyInv'
  <2>1. UNCHANGED <<step, buffered, body>>
    BY <1>9, Zenon DEF ReadRecord
  <2>2. answer'.sent = answer.sent + n /\ answer'.got = answer.got + n
    BY <1>9, Zenon DEF ReadRecord, content
  <2> QED
    BY <2>1, <2>2, SMT
<1> QED
  BY <1>1, <1>2, <1>3, <1>4, <1>5, <1>6, <1>7, <1>8, <1>9, Zenon DEF FcgiNext

\* The invariant of a request.
LEMMA FcgiInvariant == FcgiSpec => [](RecordFits /\ PairsInv /\ BodyInv)
<1>1. ASSUME FcgiInit("begin") PROVE RecordFits /\ PairsInv /\ BodyInv
  <2>1. PICK n \in Bodies : body = [size |-> n, left |-> n, sent |-> 0, ok |-> TRUE]
    BY <1>1, Zenon DEF FcgiInit
  <2>2. n \in Nat
    BY <2>1, BodiesAssumption, Zenon
  <2>3. RecordFits
    BY <1>1, SMT DEF FcgiInit, RecordFits, NoRecord
  <2>4. PairsInv
    BY <1>1, MaxWriteLemma, SMT DEF FcgiInit, PairsInv
  <2>5. BodyInv
    BY <1>1, <2>1, <2>2, SMT DEF FcgiInit, BodyInv
  <2> QED
    BY <2>3, <2>4, <2>5
<1>2. RecordFits /\ PairsInv /\ BodyInv /\ [FcgiNext]_fcgiVars => (RecordFits /\ PairsInv /\ BodyInv)'
  BY RecordStep, PairsStep, BodyStep, Zenon
<1> QED
  BY <1>1, <1>2, PTL DEF FcgiSpec

\* The length of every record survives the conversion to uint16, and its
\* padding makes it a multiple of 8.
THEOREM RecordFitsAlways == FcgiSpec => []RecordFits
  BY FcgiInvariant, PTL

\* No parameter is cut in two by the end of a record.
THEOREM PairsWholeAlways == FcgiSpec => []PairsWhole
<1>1. PairsInv => PairsWhole
  BY Zenon DEF PairsInv, PairsWhole
<1> QED
  BY <1>1, FcgiInvariant, PTL

\* The body arrives whole, and the answer without its padding.
THEOREM BytesKeptAlways == FcgiSpec => []BytesKept
<1>1. BodyInv => BytesKept
  BY SMT DEF BodyInv, BytesKept
<1> QED
  BY <1>1, FcgiInvariant, PTL

\* Parameters, body and answer survive being cut into records, for any
\* lengths and any order of the parameters.
THEOREM FramesSoundAlways == FcgiSpec => []FramesSound
<1>1. PairsWhole /\ RecordFits /\ BytesKept => FramesSound
  BY Zenon DEF FramesSound
<1> QED
  BY <1>1, RecordFitsAlways, PairsWholeAlways, BytesKeptAlways, PTL

-----------------------------------------------------------------------------
(* The requests.                                                           *)

\* A request has one kind of body, and variables are exposed from a tunnel
\* that is open.
Asked(a) ==
    a.body \in {"none", "length", "chunked", "stream"} /\ (a.env.exposed => a.env.tunnel)

WebSpec ==
    /\ \E c, q : WebInit("new", c, q)
    /\ \A r \in Reqs : Asked(ask[r])
    /\ [][WebNext]_webVars

WebShared == DOMAIN web = Reqs /\ DOMAIN envFile \subseteq Reqs

WebShape(r) ==
    DOMAIN web[r] = {"pc", "tries", "status", "logged", "got", "body", "env", "bar", "pushed"}

\* With the CLI server, the file holds the environment from Serve until PHP
\* has read it, and is there no more once the request is cleaned up.
EnvInv(r) ==
    /\ conf.backend = "cli" /\ web[r].pc \in {"dial", "run"} =>
         r \in DOMAIN envFile /\ envFile[r] = web[r].env
    /\ r \in DOMAIN envFile => web[r].pc \in {"dial", "run", "broken", "modify", "failed", "cleanup"}
    /\ web[r].pc = "modify" => web[r].got = web[r].env

LengthInv(r) ==
    /\ web[r].pc = "dial" =>
         /\ "length" \in DOMAIN web[r].env
         /\ web[r].env.length = IF ask[r].body = "length" THEN "size" ELSE "none"
    /\ web[r].pc = "run" /\ conf.backend = "cgi" /\ ask[r].body # "stream" =>
         (web[r].env.length = "size") <=> (ask[r].body # "none")

\* AnswerKept, for a request that is not done too.
AnswerInv(r) ==
    /\ web[r].status # 307 => web[r].logged = web[r].status
    /\ web[r].body # "none" /\ ask[r].page = "page" =>
         web[r].body = (IF ask[r].sendfile /\ ~ask[r].xhr THEN "sentFile" ELSE "page")
    /\ web[r].bar # <<>> => (web[r].bar[1] # "none" <=> web[r].bar[2] = "green")

RequestInv(r) == WebShape(r) /\ EnvInv(r) /\ LengthInv(r) /\ AnswerInv(r) /\ Asked(ask[r])

WebInv == WebShared /\ \A r \in Reqs : RequestInv(r)

\* The fields of a request after its step, and the other requests.
Turns(r, pc, env, got) ==
    /\ DOMAIN web' = Reqs /\ \A s \in Reqs \ {r} : web'[s] = web[s]
    /\ DOMAIN web'[r] = DOMAIN web[r]
    /\ web'[r].pc = pc /\ web'[r].env = env /\ web'[r].got = got

Tells(r, status, logged, text, bar) ==
    web'[r].status = status /\ web'[r].logged = logged /\ web'[r].body = text /\ web'[r].bar = bar

\* What the request of the step tells its client stays.
Silent(r) == Tells(r, web[r].status, web[r].logged, web[r].body, web[r].bar)

\* A step of one request that keeps its own part of the invariant keeps the
\* invariant, if it touches no file but its own.
LEMMA OneRequest ==
    ASSUME WebInv, NEW r \in Reqs, UNCHANGED <<ask, conf>>, NEW pc, NEW env, NEW got,
           Turns(r, pc, env, got), DOMAIN envFile' \subseteq Reqs,
           \A s \in Reqs \ {r} : s \in DOMAIN envFile' <=> s \in DOMAIN envFile,
           \A s \in DOMAIN envFile \ {r} : envFile'[s] = envFile[s],
           RequestInv(r)'
    PROVE  WebInv'
<1>1. WebShared'
  BY DEF WebShared, Turns
<1>2. ASSUME NEW s \in Reqs \ {r} PROVE RequestInv(s)'
  <2>1. web'[s] = web[s] /\ RequestInv(s)
    BY DEF WebInv, Turns
  <2>2. WebShape(s)' /\ LengthInv(s)' /\ AnswerInv(s)' /\ Asked(ask[s])'
    BY <2>1, SMT DEF RequestInv, WebShape, LengthInv, AnswerInv, Asked
  <2>3. EnvInv(s)'
    BY <2>1 DEF RequestInv, EnvInv
  <2> QED
    BY <2>2, <2>3 DEF RequestInv
<1> QED
  BY <1>1, <1>2 DEF WebInv
\* A request that moves on, its environment, its answer and the files the
\* same, to a place from which PHP is not reached, or from Handler to Serve.
LEMMA WebMoveOn ==
    ASSUME WebInv, NEW r \in Reqs, NEW pc, UNCHANGED <<ask, conf, envFile>>,
           Turns(r, pc, web[r].env, web[r].got), NEW status, NEW logged,
           Tells(r, status, logged, web[r].body, web[r].bar),
           status # 307 => logged = status,
           \/ /\ web[r].pc \in {"new", "handle", "serve", "push"}
              /\ pc \in {"handle", "serve", "push", "done"}
           \/ /\ web[r].pc \in {"dial", "run", "broken", "modify", "failed"}
              /\ pc \in {"broken", "failed", "cleanup"}
           \/ web[r].pc = "dial" /\ pc = "dial"
    PROVE  WebInv'
<1>1. RequestInv(r) /\ WebShared
  BY DEF WebInv
<1>2. WebShape(r)' /\ Asked(ask[r])'
  BY <1>1 DEF RequestInv, WebShape, Asked, Turns
<1>3. EnvInv(r)'
  BY <1>1 DEF RequestInv, EnvInv, Turns
<1>4. LengthInv(r)'
  BY <1>1 DEF RequestInv, LengthInv, Turns
<1>5. AnswerInv(r)'
  BY <1>1, SMT DEF RequestInv, AnswerInv, Tells
<1> QED
  BY <1>1, <1>2, <1>3, <1>4, <1>5, OneRequest DEF RequestInv, WebShared

\* The steps before Serve, and a request that moves on in general.
LEMMA FieldsKept ==
    ASSUME WebInv, NEW r \in Reqs
    PROVE  /\ \A pc : Go(r, pc) => Turns(r, pc, web[r].env, web[r].got) /\ Silent(r)
           /\ \A pc, code : Respond(r, code, pc) =>
                Turns(r, pc, web[r].env, web[r].got) /\ Tells(r, code, code, web[r].body, web[r].bar)
<1>1. DOMAIN web = Reqs /\ WebShape(r)
  BY DEF WebInv, WebShared, RequestInv
<1>2. ASSUME NEW pc, Go(r, pc) PROVE Turns(r, pc, web[r].env, web[r].got) /\ Silent(r)
  BY <1>1, <1>2 DEF Go, Turns, Silent, Tells, WebShape
<1>3. ASSUME NEW pc, NEW code, Respond(r, code, pc)
      PROVE  Turns(r, pc, web[r].env, web[r].got) /\ Tells(r, code, code, web[r].body, web[r].bar)
  BY <1>1, <1>3 DEF Respond, Turns, Tells, WebShape
<1> QED
  BY <1>2, <1>3

LEMMA EarlyWebStep ==
    ASSUME WebInv, NEW r \in Reqs, Accept(r) \/ Handler(r) \/ Broken502(r) \/ ErrorHandler(r) \/ Preload(r)
    PROVE  WebInv'
<1>0. RequestInv(r) /\ DOMAIN web = Reqs /\ (web[r].status # 307 => web[r].logged = web[r].status)
  BY DEF WebInv, WebShared, RequestInv, AnswerInv
<1>1. CASE Accept(r)
  <2>1. CASE Go(r, "handle")
    BY <1>0, <1>1, <2>1, FieldsKept, WebMoveOn, SMT DEF Accept, Silent
  <2>2. CASE web' = [web EXCEPT ![r].status = 307, ![r].pc = "done"]
    <3>1. Turns(r, "done", web[r].env, web[r].got) /\ Tells(r, 307, web[r].logged, web[r].body, web[r].bar)
      BY <1>0, <2>2, SMT DEF Turns, Tells, RequestInv, WebShape
    <3> QED
      BY <1>1, <3>1, WebMoveOn, SMT DEF Accept
  <2> QED
    BY <1>1, <2>1, <2>2 DEF Accept
<1>2. CASE Handler(r)
  <2>1. CASE Go(r, "serve")
    BY <1>0, <1>2, <2>1, FieldsKept, WebMoveOn, SMT DEF Handler, Silent
  <2>2. ASSUME NEW code, Respond(r, code, "push") PROVE WebInv'
    BY <1>2, <2>2, FieldsKept, WebMoveOn, ZenonT(60) DEF Handler
  <2> QED
    BY <1>2, <2>1, <2>2, ZenonT(60) DEF Handler
<1>3. CASE Broken502(r)
  BY <1>0, <1>3, FieldsKept, WebMoveOn, SMT DEF Broken502, Silent
<1>4. CASE ErrorHandler(r)
  BY <1>4, FieldsKept, WebMoveOn, SMTT(30) DEF ErrorHandler
<1>5. CASE Preload(r)
  <2>1. PICK S : web' = [web EXCEPT ![r].pc = "done", ![r].pushed = S]
    BY <1>5 DEF Preload
  <2>2. Turns(r, "done", web[r].env, web[r].got) /\ Silent(r)
    BY <1>0, <2>1 DEF Turns, Silent, Tells, RequestInv, WebShape
  <2> QED
    <3>1. UNCHANGED <<ask, conf, envFile>> /\ web[r].pc = "push"
      BY <1>5 DEF Preload
    <3> QED
      BY <1>0, <2>2, <3>1, WebMoveOn, SMT DEF Silent
<1> QED
  BY <1>1, <1>2, <1>3, <1>4, <1>5

\* Serve writes the environment to the file of the request, and to no other.
LEMMA ServeStep ==
    ASSUME WebInv, NEW r \in Reqs, Serve(r)
    PROVE  WebInv'
<1>0. RequestInv(r) /\ DOMAIN web = Reqs /\ (web[r].status # 307 => web[r].logged = web[r].status)
  BY DEF WebInv, WebShared, RequestInv, AnswerInv
<1>1. CASE Respond(r, 502, "push") /\ UNCHANGED envFile
  BY <1>1, FieldsKept, WebMoveOn, SMT DEF Serve
<1>2. CASE /\ web' = [web EXCEPT ![r].pc = "dial", ![r].env = generateEnv(r)]
           /\ envFile' = IF conf.backend = "cli" THEN Put(envFile, envPath(r), generateEnv(r)) ELSE envFile
  <2>1. Turns(r, "dial", generateEnv(r), web[r].got) /\ Silent(r)
    BY <1>0, <1>2 DEF Turns, Silent, Tells, RequestInv, WebShape
  <2>2. UNCHANGED <<ask, conf>>
    BY DEF Serve
  <2>3. WebShape(r)' /\ Asked(ask[r])' /\ AnswerInv(r)'
    BY <1>0, <2>1, <2>2, ZenonT(60) DEF RequestInv, WebShape, Asked, Turns, Silent, Tells, AnswerInv
  <2>4. LengthInv(r)'
    BY <2>1, <2>2, SMT DEF LengthInv, Turns, generateEnv
  <2>5. /\ DOMAIN envFile' \subseteq Reqs
        /\ \A s \in Reqs \ {r} : (s \in DOMAIN envFile' <=> s \in DOMAIN envFile)
        /\ \A s \in DOMAIN envFile \ {r} : envFile'[s] = envFile[s]
        /\ conf.backend = "cli" => r \in DOMAIN envFile' /\ envFile'[r] = generateEnv(r)
    BY <1>2 DEF WebInv, WebShared, Put, envPath
  <2>6. EnvInv(r)'
    BY <2>1, <2>2, <2>5 DEF EnvInv, Turns
  <2> QED
    BY <2>1, <2>2, <2>3, <2>4, <2>5, <2>6, OneRequest DEF RequestInv
<1> QED
  BY <1>1, <1>2, ZenonT(60) DEF Serve

\* PHP is dialed until it answers, and is told the length of a chunked body.
LEMMA DialStep ==
    ASSUME WebInv, NEW r \in Reqs, DialPhp(r)
    PROVE  WebInv'
<1>0. RequestInv(r) /\ DOMAIN web = Reqs /\ (web[r].status # 307 => web[r].logged = web[r].status)
  BY DEF WebInv, WebShared, RequestInv, AnswerInv
<1>1. UNCHANGED <<ask, conf, envFile>> /\ web[r].pc = "dial"
  BY DEF DialPhp
<1>2. CASE Go(r, "failed")
  BY <1>0, <1>1, <1>2, FieldsKept, WebMoveOn, SMT DEF Silent
<1>3. CASE web' = [web EXCEPT ![r].tries = @ + 1]
  <2>1. Turns(r, "dial", web[r].env, web[r].got) /\ Silent(r)
    BY <1>0, <1>1, <1>3 DEF Turns, Silent, Tells, RequestInv, WebShape
  <2> QED
    BY <1>0, <1>1, <2>1, WebMoveOn, SMT DEF Silent
<1>4. CASE web' = [web EXCEPT ![r].pc = "run", ![r].env = counted(r)]
  <2>1. Turns(r, "run", counted(r), web[r].got) /\ Silent(r)
    BY <1>0, <1>4 DEF Turns, Silent, Tells, RequestInv, WebShape
  <2>2. WebShape(r)' /\ Asked(ask[r])' /\ AnswerInv(r)'
    BY <1>0, <1>1, <2>1, ZenonT(60) DEF RequestInv, WebShape, Asked, Turns, Silent, Tells, AnswerInv
  <2>3. conf.backend = "cli" => counted(r) = web[r].env
    BY DEF counted
  <2>4. EnvInv(r)'
    BY <1>0, <1>1, <2>1, <2>3 DEF RequestInv, EnvInv, Turns
  <2>5. conf.backend = "cgi" /\ ask[r].body # "stream" => (counted(r).length = "size" <=> ask[r].body # "none")
    BY <1>0, <1>1 DEF RequestInv, LengthInv, Asked, counted
  <2>6. LengthInv(r)'
    BY <1>1, <2>1, <2>5 DEF LengthInv, Turns
  <2> QED
    BY <1>1, <2>1, <2>2, <2>4, <2>6, OneRequest DEF RequestInv, WebInv, WebShared
<1> QED
  BY <1>2, <1>3, <1>4 DEF DialPhp

\* PHP reads the environment, of the request or of its file.
LEMMA RunPageStep ==
    ASSUME WebInv, NEW r \in Reqs, RunPage(r)
    PROVE  WebInv'
<1>0. RequestInv(r) /\ DOMAIN web = Reqs /\ UNCHANGED <<ask, conf, envFile>> /\ web[r].pc = "run"
  BY DEF WebInv, WebShared, RunPage
<1>1. PICK got : /\ web' = [web EXCEPT ![r].pc = "modify", ![r].got = got]
                 /\ got = IF conf.backend # "cli" THEN web[r].env
                          ELSE IF envPath(r) \in DOMAIN envFile THEN envFile[envPath(r)] ELSE NoReq
  BY DEF RunPage
<1>2. Turns(r, "modify", web[r].env, got) /\ Silent(r)
  BY <1>0, <1>1 DEF Turns, Silent, Tells, RequestInv, WebShape
<1>3. WebShape(r)' /\ Asked(ask[r])' /\ AnswerInv(r)'
  BY <1>0, <1>2, ZenonT(60) DEF RequestInv, WebShape, Asked, Turns, Silent, Tells, AnswerInv
<1>4. got = web[r].env
  BY <1>0, <1>1 DEF RequestInv, EnvInv, envPath
<1>5. EnvInv(r)' /\ LengthInv(r)'
  BY <1>0, <1>2, <1>4 DEF EnvInv, LengthInv, Turns
<1> QED
  BY <1>0, <1>2, <1>3, <1>5, OneRequest DEF RequestInv, WebInv, WebShared

\* The toolbar names a source of variables exactly when its logo is green.
LEMMA ToolbarLemma ==
    ASSUME NEW a, Asked(a)
    PROVE  toolbarVars(a.env) # "none" <=> logoBg(a.env) = "green"
BY DEF Asked, toolbarVars, logoBg

\* ModifyResponse: the page, the file or the toolbar.
LEMMA ModifyStep ==
    ASSUME WebInv, NEW r \in Reqs, Modify(r)
    PROVE  WebInv'
<1>0. /\ RequestInv(r) /\ DOMAIN web = Reqs /\ (web[r].status # 307 => web[r].logged = web[r].status)
      /\ UNCHANGED <<ask, conf, envFile>> /\ web[r].pc = "modify"
  BY SMT DEF WebInv, WebShared, RequestInv, AnswerInv, Modify
<1>1. CASE Go(r, "failed")
  BY <1>0, <1>1, FieldsKept, WebMoveOn DEF Silent
<1>2. ASSUME ~Go(r, "failed") PROVE WebInv'
  <2> DEFINE text == IF ask[r].xhr THEN tweakToolbar(ask[r].page)
                     ELSE IF sendsFile(r) THEN "sentFile" ELSE ask[r].page
             bar == IF text = "tweaked" THEN <<toolbarVars(ask[r].env), logoBg(ask[r].env)>> ELSE <<>>
  <2>1. web' = [web EXCEPT ![r].status = 200, ![r].logged = 200, ![r].pc = "cleanup",
                           ![r].body = text, ![r].bar = bar]
    BY <1>2 DEF Modify
  <2>2. Turns(r, "cleanup", web[r].env, web[r].got) /\ Tells(r, 200, 200, text, bar)
    BY <1>0, <2>1, SMT DEF Turns, Tells, RequestInv, WebShape
  <2>3. WebShape(r)' /\ Asked(ask[r])' /\ EnvInv(r)' /\ LengthInv(r)'
    BY <1>0, <2>2 DEF RequestInv, WebShape, Asked, EnvInv, LengthInv, Turns
  <2>4. ask[r].page = "page" => text = IF ask[r].sendfile /\ ~ask[r].xhr THEN "sentFile" ELSE "page"
    BY DEF tweakToolbar, sendsFile
  <2>5. bar # <<>> => (bar[1] # "none" <=> bar[2] = "green")
    BY <1>0, ToolbarLemma DEF RequestInv
  <2> HIDE DEF text, bar
  <2>6. AnswerInv(r)'
    BY <1>0, <2>2, <2>4, <2>5, ZenonT(60) DEF AnswerInv, Tells
  <2> QED
    BY <1>0, <2>2, <2>3, <2>6, OneRequest DEF RequestInv, WebInv, WebShared
<1> QED
  BY <1>1, <1>2

\* The file of the environment goes with the request.
LEMMA CleanupWebStep ==
    ASSUME WebInv, NEW r \in Reqs, Cleanup(r)
    PROVE  WebInv'
<1>0. RequestInv(r) /\ UNCHANGED <<ask, conf>> /\ Go(r, "push") /\ web[r].pc = "cleanup"
  BY DEF WebInv, Cleanup
<1>1. Turns(r, "push", web[r].env, web[r].got) /\ Silent(r)
  BY <1>0, FieldsKept
<1>2. /\ DOMAIN envFile' \subseteq Reqs /\ r \notin DOMAIN envFile'
      /\ \A s \in Reqs \ {r} : (s \in DOMAIN envFile' <=> s \in DOMAIN envFile)
      /\ \A s \in DOMAIN envFile \ {r} : envFile'[s] = envFile[s]
  BY DEF WebInv, WebShared, Cleanup, envPath
<1>3. WebShape(r)' /\ Asked(ask[r])' /\ LengthInv(r)' /\ AnswerInv(r)'
  BY <1>0, <1>1, ZenonT(60) DEF RequestInv, WebShape, Asked, Turns, Silent, Tells, LengthInv, AnswerInv
<1>4. EnvInv(r)'
  BY <1>1, <1>2 DEF EnvInv, Turns
<1> QED
  BY <1>0, <1>1, <1>2, <1>3, <1>4, OneRequest DEF RequestInv

\* A restart of PHP breaks the requests that run, and only them.
LEMMA PhpStep ==
    ASSUME WebInv, PhpStarts \/ PhpStops
    PROVE  WebInv'
<1>1. CASE PhpStarts
  BY <1>1, SMT DEF PhpStarts, WebInv, WebShared, RequestInv, WebShape, EnvInv, LengthInv, AnswerInv
<1>2. CASE PhpStops
  <2>1. DOMAIN web' = Reqs /\ UNCHANGED <<ask, conf, envFile>>
    BY <1>2 DEF PhpStops
  <2>2. ASSUME NEW r \in Reqs PROVE RequestInv(r)'
    <3>0. RequestInv(r)
      BY DEF WebInv
    <3>1. CASE web'[r] = web[r]
      BY <2>1, <3>0, <3>1, SMT DEF RequestInv, WebShape, EnvInv, LengthInv, AnswerInv
    <3>2. CASE web[r].pc = "run"
      <4>1. web'[r] = [web[r] EXCEPT !.pc = "broken"]
        BY <1>2, <3>2 DEF PhpStops
      <4>2. /\ DOMAIN web'[r] = DOMAIN web[r] /\ web'[r].pc = "broken" /\ web'[r].env = web[r].env
            /\ web'[r].got = web[r].got /\ Silent(r)
        BY <3>0, <4>1 DEF RequestInv, WebShape, Silent, Tells
      <4>3. WebShape(r)' /\ Asked(ask[r])' /\ LengthInv(r)' /\ AnswerInv(r)'
        BY <2>1, <3>0, <4>2, ZenonT(60) DEF RequestInv, WebShape, Asked, Silent, Tells, LengthInv, AnswerInv
      <4>4. EnvInv(r)'
        BY <2>1, <3>0, <4>2 DEF RequestInv, EnvInv
      <4> QED
        BY <4>3, <4>4 DEF RequestInv
    <3> QED
      BY <1>2, <3>1, <3>2 DEF PhpStops
  <2> QED
    BY <2>1, <2>2 DEF WebInv, WebShared
<1> QED
  BY <1>1, <1>2

LEMMA WebInvariant == WebSpec => []WebInv
<1>1. (\E c, q : WebInit("new", c, q)) /\ (\A r \in Reqs : Asked(ask[r])) => WebInv
  <2> SUFFICES ASSUME NEW c, NEW q, WebInit("new", c, q), \A r \in Reqs : Asked(ask[r])
               PROVE  WebInv
    OBVIOUS
  <2>1. DOMAIN web = Reqs /\ envFile = <<>> /\ DOMAIN envFile = {}
    BY SMT DEF WebInit
  <2>2. ASSUME NEW r \in Reqs PROVE RequestInv(r)
    <3>1. /\ WebShape(r) /\ web[r].pc = "new" /\ web[r].status = 0 /\ web[r].logged = 0
          /\ web[r].body = "none" /\ web[r].bar = <<>>
      BY DEF WebInit, WebShape
    <3> QED
      BY <2>1, <3>1 DEF RequestInv, EnvInv, LengthInv, AnswerInv
  <2> QED
    BY <2>1, <2>2 DEF WebInv, WebShared
<1>2. WebInv /\ [WebNext]_webVars => WebInv'
  <2> SUFFICES ASSUME WebInv, [WebNext]_webVars PROVE WebInv'
    OBVIOUS
  <2>1. CASE UNCHANGED webVars
    BY <2>1, SMT DEF webVars, WebInv, WebShared, RequestInv, WebShape, EnvInv, LengthInv, AnswerInv
  <2>2. ASSUME NEW r \in Reqs, Handle(r) PROVE WebInv'
    BY <2>2, EarlyWebStep, ServeStep, DialStep, RunPageStep, ModifyStep, CleanupWebStep DEF Handle
  <2> QED
    BY <2>1, <2>2, PhpStep DEF WebNext
<1> QED
  BY <1>1, <1>2, PTL DEF WebSpec

(***************************************************************************)
(* php.Server.Serve gives each request an environment of its own: with the *)
(* CLI server, PHP reads the file of this request, which is there, and no  *)
(* file is left when the requests are done.                                *)
(***************************************************************************)
THEOREM OwnEnvironmentAlways == WebSpec => []OwnEnvironment
<1>1. WebInv => OwnEnvironment
  <2> SUFFICES ASSUME WebInv PROVE OwnEnvironment
    OBVIOUS
  <2>1. EnvOfRequest
    BY DEF WebInv, RequestInv, EnvInv, EnvOfRequest
  <2>2. EnvFilesRemoved
    BY DEF WebInv, WebShared, RequestInv, EnvInv, EnvFilesRemoved
  <2> QED
    BY <2>1, <2>2 DEF OwnEnvironment
<1> QED
  BY <1>1, WebInvariant, PTL

(***************************************************************************)
(* The reverse proxy to PHP keeps the exchange, whatever PHP's restarts:   *)
(* cgiTransport tells the length of every body that has one, and           *)
(* ModifyResponse changes only the toolbar and the X-SendFile answers.     *)
(***************************************************************************)
THEOREM ExchangeKeptAlways == WebSpec => []ExchangeKept
<1>1. WebInv => ExchangeKept
  <2> SUFFICES ASSUME WebInv PROVE ExchangeKept
    OBVIOUS
  <2>1. LengthTold
    BY DEF WebInv, RequestInv, LengthInv, LengthTold
  <2>2. AnswerKept
    BY ZenonT(60) DEF WebInv, RequestInv, AnswerInv, AnswerKept
  <2> QED
    BY <2>1, <2>2 DEF ExchangeKept
<1> QED
  BY <1>1, WebInvariant, PTL

-----------------------------------------------------------------------------
(* The followed logs.                                                      *)

TailSpec == TailInit("server") /\ [][TailNext]_tailVars

\* The places of the goroutines that a step uses.
TailShape ==
    /\ DOMAIN tlr = {"watch", "flags", "todo", "watching", "chan", "watcher", "event", "php"}
    /\ tlr.todo \subseteq Workers /\ tlr.chan \in Workers \union {NoFile}
    /\ tlr.watcher \in {"load", "send"} => tlr.event \in Workers
    /\ DOMAIN app = AppLogs /\ \A a \in AppLogs : DOMAIN app[a] = {"chan", "state", "sent"}

\* A log is known as soon as it is followed; the only goroutine that may
\* follow an application log has not done so between its Load and its Store.
FollowInv ==
    /\ seen \subseteq LogFiles /\ DOMAIN follow = LogFiles
    /\ \A f \in LogFiles : follow[f] = IF f \in seen THEN 1 ELSE 0
    /\ \A a \in AppLogs : app[a].state = "store" => a \notin seen

TailInv == TailShape /\ FollowInv

\* A pid file that is dispatched is followed once, and no application log is.
LEMMA DispatchLemma ==
    ASSUME TailInv, NEW f \in Workers \union {"server", "php"}, Dispatch(f), UNCHANGED app
    PROVE  FollowInv'
<1>1. f \in LogFiles /\ f \notin AppLogs
  BY FilesAssumption DEF LogFiles
<1>2. seen' \subseteq LogFiles /\ DOMAIN follow' = LogFiles
  BY <1>1 DEF TailInv, FollowInv, Dispatch
<1>3. ASSUME NEW g \in LogFiles PROVE follow'[g] = IF g \in seen' THEN 1 ELSE 0
  BY <1>1, SMT DEF TailInv, FollowInv, Dispatch
<1>4. \A a \in AppLogs : app'[a].state = "store" => a \notin seen'
  BY <1>1 DEF TailInv, FollowInv, Dispatch
<1> QED
  BY <1>2, <1>3, <1>4 DEF FollowInv

\* The goroutine of Watch.
LEMMA WatchLemma ==
    ASSUME TailInv, WatchStep
    PROVE  TailInv'
<1> USE DEF TailInv
<1>1. CASE SendServer
  <2>1. TailShape'
    BY <1>1 DEF SendServer, TailShape
  <2>2. FollowInv'
    BY <1>1, DispatchLemma DEF SendServer, FollowInv
  <2> QED
    BY <2>1, <2>2
<1>2. CASE WatchWorkers
  BY <1>2 DEF WatchWorkers, TailShape, FollowInv
<1>3. CASE AllWorkers
  BY <1>3 DEF AllWorkers, TailShape, FollowInv
<1>4. ASSUME NEW w \in Workers, SendWorker(w) PROVE TailInv'
  <2>1. TailShape'
    BY <1>4 DEF SendWorker, TailShape
  <2>2. FollowInv'
    BY <1>4, DispatchLemma DEF SendWorker
  <2> QED
    BY <2>1, <2>2
<1>5. CASE WorkersSent
  BY <1>5 DEF WorkersSent, TailShape, FollowInv
<1>6. ASSUME NEW a \in AppLogs, SendApp(a) PROVE TailInv'
  <2>1. CASE app' = [app EXCEPT ![a] = [@ EXCEPT !.chan = 1, !.sent = TRUE]] /\ UNCHANGED tlr
    <3>1. DOMAIN app' = AppLogs /\ \A b \in AppLogs : DOMAIN app'[b] = DOMAIN app[b] /\ app'[b].state = app[b].state
      BY <2>1 DEF TailShape
    <3> QED
      BY <1>6, <2>1, <3>1 DEF SendApp, TailShape, FollowInv
  <2>2. CASE tlr' = [tlr EXCEPT !.watch = "failed"] /\ UNCHANGED app
    BY <1>6, <2>2 DEF SendApp, TailShape, FollowInv
  <2> QED
    BY <1>6, <2>1, <2>2 DEF SendApp
<1>7. CASE WatchReturns
  BY <1>7 DEF WatchReturns, TailShape, FollowInv
<1> QED
  BY <1>1, <1>2, <1>3, <1>4, <1>5, <1>6, <1>7 DEF WatchStep

\* The goroutine of the directory of workers.
LEMMA WatcherLemma ==
    ASSUME TailInv, Watcher
    PROVE  TailInv'
<1> USE DEF TailInv
<1>1. CASE tlr.watcher = "wait"
  BY <1>1 DEF Watcher, TailShape, FollowInv
<1>2. CASE tlr.watcher = "load"
  BY <1>2, ZenonT(60) DEF Watcher, TailShape, FollowInv
<1>3. CASE tlr.watcher = "send"
  <2>1. tlr.event \in Workers /\ Dispatch(tlr.event) /\ UNCHANGED app /\ tlr' = [tlr EXCEPT !.watcher = "wait"]
    BY <1>3 DEF Watcher, TailShape
  <2>2. TailShape'
    BY <2>1 DEF TailShape
  <2>3. FollowInv'
    BY <2>1, DispatchLemma
  <2> QED
    BY <2>2, <2>3
<1> QED
  BY <1>1, <1>2, <1>3 DEF Watcher

\* The goroutine of an application log and its events.
LEMMA AppLemma ==
    ASSUME TailInv, NEW a \in AppLogs, AppEvent(a) \/ AppWatcher(a)
    PROVE  TailInv'
<1> USE DEF TailInv
<1>1. CASE AppEvent(a)
  <2>1. DOMAIN app' = AppLogs /\ \A b \in AppLogs : DOMAIN app'[b] = DOMAIN app[b] /\ app'[b].state = app[b].state
    BY <1>1 DEF AppEvent, TailShape
  <2> QED
    BY <1>1, <2>1 DEF AppEvent, TailShape, FollowInv
<1>2. CASE AppWatcher(a) /\ app[a].state = "wait"
  <2>1. app' = [app EXCEPT ![a] = [@ EXCEPT !.chan = 0, !.state = IF a \in seen THEN "wait" ELSE "store"]]
        /\ UNCHANGED <<tlr, seen, follow>>
    BY <1>2 DEF AppWatcher
  <2>2. /\ DOMAIN app' = AppLogs /\ \A b \in AppLogs : DOMAIN app'[b] = DOMAIN app[b]
        /\ \A b \in AppLogs \ {a} : app'[b].state = app[b].state
        /\ app'[a].state = IF a \in seen THEN "wait" ELSE "store"
    BY <2>1 DEF TailShape
  <2> QED
    BY <2>1, <2>2, ZenonT(60) DEF TailShape, FollowInv
<1>3. CASE AppWatcher(a) /\ app[a].state = "store"
  <2>1. /\ app' = [app EXCEPT ![a].state = "wait"] /\ UNCHANGED tlr
        /\ seen' = seen \union {a} /\ follow' = [follow EXCEPT ![a] = @ + 1]
    BY <1>3 DEF AppWatcher
  <2>2. /\ DOMAIN app' = AppLogs /\ \A b \in AppLogs : DOMAIN app'[b] = DOMAIN app[b]
        /\ \A b \in AppLogs \ {a} : app'[b].state = app[b].state
        /\ app'[a].state = "wait"
    BY <2>1 DEF TailShape
  <2>3. a \in LogFiles /\ a \notin seen
    BY <1>3 DEF LogFiles, FollowInv
  <2>4. TailShape'
    BY <2>1, <2>2 DEF TailShape
  <2>5. FollowInv'
    BY <2>1, <2>2, <2>3, SMT DEF FollowInv
  <2> QED
    BY <2>4, <2>5
<1> QED
  BY <1>1, <1>2, <1>3 DEF AppWatcher

\* Every log is followed by one goroutine at most: although workers are both
\* listed and notified, by different goroutines, and events repeat.
THEOREM FollowedOnceAlways == TailSpec => []FollowedOnce
<1>1. TailInit("server") => TailInv
  BY SMT DEF TailInit, TailInv, TailShape, FollowInv
<1>2. TailInv /\ [TailNext]_tailVars => TailInv'
  <2> SUFFICES ASSUME TailInv, [TailNext]_tailVars PROVE TailInv'
    OBVIOUS
  <2> USE DEF TailInv
  <2>1. CASE UNCHANGED tailVars
    BY <2>1 DEF tailVars, TailShape, FollowInv
  <2>2. CASE WatchAdditionalPidFile
    <3>1. TailShape'
      BY <2>2 DEF WatchAdditionalPidFile, TailShape
    <3>2. FollowInv'
      BY <2>2, DispatchLemma DEF WatchAdditionalPidFile
    <3> QED
      BY <3>1, <3>2
  <2>3. ASSUME NEW w \in Workers, CreatePidFile(w) \/ FillPidFile(w) PROVE TailInv'
    BY <2>3, ZenonT(60) DEF CreatePidFile, FillPidFile, TailShape, FollowInv
  <2> QED
    BY <2>1, <2>2, <2>3, WatchLemma, WatcherLemma, AppLemma DEF TailNext
<1>3. TailInv => FollowedOnce
  BY SMT DEF TailInv, FollowInv, FollowedOnce
<1> QED
  BY <1>1, <1>2, <1>3, PTL DEF TailSpec
=============================================================================
