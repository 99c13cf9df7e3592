-------------------------------- MODULE Fcgi --------------------------------
(***************************************************************************)
(* fcgiclient: one FastCGI request.  The parameters and the body are        *)
(* written through buffers of maxWrite bytes, as streams of records that an *)
(* empty record closes; then the records of the answer are read.  Contents  *)
(* are modelled by their lengths.  The connection may break at any write,   *)
(* and the body may fail while it is read.                                  *)
(***************************************************************************)
EXTENDS Integers

CONSTANTS
    Pairs,      \* the parameters, which a map gives in any order
    KeyLen,     \* KeyLen[p], ValLen[p]: lengths of the name and of the value
    ValLen,
    Bodies,     \* lengths of the body
    Chunks,     \* how much one read of the body may return
    Replies,    \* lengths of the records of the answer
    MaxRecords  \* bound: records of the answer

ASSUME PairsAssumption ==
    /\ KeyLen \in [Pairs -> Nat] /\ ValLen \in [Pairs -> Nat]

ASSUME BodiesAssumption == Bodies \subseteq Nat /\ Chunks \subseteq Nat \ {0}

ASSUME RepliesAssumption == Replies \subseteq 0 .. 65535 /\ MaxRecords \in Nat

maxWrite == 65500

VARIABLES
    step,       \* where Request is
    todo,       \* the pairs that are not written yet
    nn,         \* writePairs: bytes since the last Flush
    buffered,   \* bytes in the bufio.Writer
    sent,       \* bytes of parameters in the records written
    ends,       \* the offsets in the stream of parameters where a pair ends
    rec,        \* the last record: its content, and its header
    body,       \* [size, left, sent, ok]: the body of the request
    answer      \* [n, sent, got]: content of the records read, and given to the reader

fcgiVars == <<step, todo, nn, buffered, sent, ends, rec, body, answer>>

Steps == {"off", "begin", "params", "close", "stdin", "end", "answer", "done", "error"}

FcgiTypeOK ==
    /\ step \in Steps /\ todo \subseteq Pairs
    /\ nn \in Nat /\ buffered \in Nat /\ sent \in Nat /\ ends \subseteq Nat
    /\ rec \in [type : {"none", "begin", "params", "stdin"}, len : Nat, contentLength : Nat, padding : Nat]
    /\ body \in [size : Nat, left : Nat, sent : Nat, ok : BOOLEAN]
    /\ answer \in [n : 0 .. MaxRecords, sent : Nat, got : Nat]

NoRecord == [type |-> "none", len |-> 0, contentLength |-> 0, padding |-> 0]

FcgiInit(at) ==
    /\ step = at
    /\ todo = Pairs /\ nn = 0 /\ buffered = 0 /\ sent = 0 /\ ends = {0} /\ rec = NoRecord
    /\ \E n \in Bodies : body = [size |-> n, left |-> n, sent |-> 0, ok |-> TRUE]
    /\ answer = [n |-> 0, sent |-> 0, got |-> 0]

\* header.init: the length on 16 bits, padding to a multiple of 8.
header(type, n) == [type |-> type, len |-> n, contentLength |-> n % 65536, padding |-> (-n) % 8]

BeginRequest ==
    /\ step = "begin"
    /\ rec' = header("begin", 8) /\ step' = "params"
    /\ UNCHANGED <<todo, nn, buffered, sent, ends, body, answer>>

encodeSize(n) == IF n > 127 THEN 4 ELSE 1

\* A pair that does not fit a record has its value truncated.
truncated(p) ==
    IF 8 + KeyLen[p] + ValLen[p] > maxWrite THEN maxWrite - 8 - KeyLen[p] ELSE ValLen[p]
size(p) == encodeSize(KeyLen[p]) + encodeSize(truncated(p)) + KeyLen[p] + truncated(p)

Least(S) == CHOOSE n \in S : \A k \in S : n <= k

\* bufio.Writer: bytes that overflow the buffer send it away when it is full.
Overflow(b, m) == b + m > maxWrite

\* Without the flush, the buffer is sent in the middle of a pair.
WritePair_NoFlush(p) ==
    /\ step = "params" /\ p \in todo /\ todo' = todo \ {p}
    /\ nn' = nn + size(p) /\ ends' = ends \union {sent + buffered + size(p)}
    /\ IF Overflow(buffered, size(p))
       THEN /\ rec' = header("params", maxWrite) /\ sent' = sent + maxWrite
            /\ buffered' = buffered + size(p) - maxWrite
       ELSE buffered' = buffered + size(p) /\ UNCHANGED <<rec, sent>>
    /\ UNCHANGED <<step, body, answer>>

\* The same, with a flush when the pair does not fit after the others.
WritePair(p) ==
    LET flush == nn + size(p) > maxWrite
        b == IF flush THEN 0 ELSE buffered
        s == IF flush THEN sent + buffered ELSE sent IN
    /\ step = "params" /\ p \in todo /\ KeyLen[p] <= maxWrite - 8 /\ todo' = todo \ {p}
    /\ nn' = (IF flush THEN 0 ELSE nn) + size(p)
    /\ ends' = ends \union {s + b + size(p)}
    /\ IF Overflow(b, size(p))
       THEN /\ rec' = header("params", maxWrite) /\ sent' = s + maxWrite
            /\ buffered' = b + size(p) - maxWrite
       ELSE /\ rec' = IF flush /\ buffered > 0 THEN header("params", buffered) ELSE rec
            /\ sent' = s /\ buffered' = b + size(p)
    /\ UNCHANGED <<step, body, answer>>

\* bufWriter.Close: what is buffered, then an empty record.
FlushParams ==
    /\ step = "params" /\ todo = {} /\ step' = "close"
    /\ sent' = sent + buffered /\ buffered' = 0
    /\ rec' = IF buffered > 0 THEN header("params", buffered) ELSE rec
    /\ UNCHANGED <<todo, nn, ends, body, answer>>

CloseParams ==
    /\ step = "close" /\ step' = "stdin" /\ rec' = header("params", 0)
    /\ UNCHANGED <<todo, nn, buffered, sent, ends, body, answer>>

\* io.Copy reads into the room left in the buffer, and sends it when it is full.
ReadBody(n) ==
    /\ step = "stdin" /\ body.left > 0 /\ n \in 1 .. body.left /\ buffered + n <= maxWrite
    /\ IF buffered + n = maxWrite
       THEN /\ buffered' = 0 /\ rec' = header("stdin", maxWrite)
            /\ body' = [size |-> body.size, left |-> body.left - n, sent |-> body.sent + maxWrite, ok |-> body.ok]
       ELSE buffered' = buffered + n /\ body' = [body EXCEPT !.left = @ - n] /\ UNCHANGED rec
    /\ UNCHANGED <<step, todo, nn, sent, ends, answer>>

\* The error of io.Copy is ignored: the stream ends as if the body did.
BodyFails ==
    /\ step = "stdin" /\ body.left > 0
    /\ body' = [size |-> body.size, left |-> 0, sent |-> body.sent, ok |-> FALSE]
    /\ UNCHANGED <<step, todo, nn, buffered, sent, ends, rec, answer>>

FlushBody ==
    /\ step = "stdin" /\ body.left = 0 /\ step' = "end" /\ buffered' = 0
    /\ body' = [body EXCEPT !.sent = @ + buffered]
    /\ rec' = IF buffered > 0 THEN header("stdin", buffered) ELSE rec
    /\ UNCHANGED <<todo, nn, sent, ends, answer>>

CloseBody ==
    /\ step = "end" /\ step' = "answer" /\ rec' = header("stdin", 0)
    /\ UNCHANGED <<todo, nn, buffered, sent, ends, body, answer>>

\* The connection breaks: the error of a write of a pair, or that of the
\* answer, is returned.  (A name longer than a record ends the same way: the
\* length of its value is negative, and the handler panics.)
Break ==
    /\ step \notin {"off", "done", "error"} /\ step' = "error"
    /\ UNCHANGED <<todo, nn, buffered, sent, ends, rec, body, answer>>

\* record.read: content and padding are read, the content is returned;
\* streamReader.Read gives it in pieces.
content(n) == n

ReadRecord(n) ==
    /\ step = "answer" /\ answer.n < MaxRecords
    /\ answer' = [n |-> answer.n + 1, sent |-> answer.sent + n, got |-> answer.got + content(n)]
    /\ UNCHANGED <<step, todo, nn, buffered, sent, ends, rec, body>>

\* The status is a header, with or without a text; there may be none (200).
extractStatus(status) == IF status \in {"none", "number", "number text"} THEN "done" ELSE "error"

\* FCGI_END_REQUEST is the end of the answer; one without headers is an error.
EndRequest ==
    /\ step = "answer"
    /\ \E status \in {"none", "number", "number text", "text"} :
         step' = IF answer.sent = 0 THEN "error" ELSE extractStatus(status)
    /\ UNCHANGED <<todo, nn, buffered, sent, ends, rec, body, answer>>

FcgiNext ==
    \/ BeginRequest \/ (\E p \in Pairs : WritePair(p)) \/ FlushParams \/ CloseParams
    \/ (\E c \in Chunks : ReadBody(Least({c, body.left, maxWrite - buffered}))) \/ BodyFails \/ FlushBody \/ CloseBody \/ Break
    \/ (\E n \in Replies : ReadRecord(n)) \/ EndRequest

FcgiSpec == FcgiInit("begin") /\ [][FcgiNext]_fcgiVars
-----------------------------------------------------------------------------
\* writePairs flushes so that no parameter is cut in two by the end of a
\* record, whatever the lengths and the order of the parameters.
PairsWhole == sent \in ends

\* Every record fits its header: its length survives the conversion to
\* uint16, and padding makes it a multiple of 8.
RecordFits == rec.contentLength = rec.len /\ (rec.len + rec.padding) % 8 = 0

\* Once the stream of the body is closed, all that could be read of it has
\* been sent; the padding of the answer never reaches the page.
BytesKept ==
    /\ step \in {"answer", "done"} /\ body.ok => body.sent = body.size
    /\ answer.got = answer.sent

\* What PHP and the client get of each other is whole: parameters, body and
\* answer survive being cut into records.
FramesSound == PairsWhole /\ RecordFits /\ BytesKept
=============================================================================
