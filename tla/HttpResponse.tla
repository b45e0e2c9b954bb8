---------------------------- MODULE HttpResponse ----------------------------
(***************************************************************************)
(* HttpResponse, and the part of HttpConnectionHandler::read() that makes  *)
(* one for each request: where a response ends is told by its length, by a *)
(* last chunk or by closing the connection, and this is decided in three   *)
(* places: before service() from the request, by the first write(), and    *)
(* after service() from the headers.  A client reads the stream.           *)
(*                                                                         *)
(* A body is represented by its size.                                      *)
(***************************************************************************)
EXTENDS Integers

CONSTANT
    MaxBody    \* bound of the model: the size of a body

ASSUME HttpResponseAssumption == MaxBody \in Nat

VARIABLES
    pc,           \* what the connection handler does
    http10,       \* the version of the request is HTTP/1.0
    head,         \* its method is HEAD
    closeConnection,
    fields,       \* HttpResponse::headers, those that matter: the two spellings of
                  \* "Connection: close", Content-Length and "Transfer-Encoding: chunked"
    noContent,    \* HttpResponse::statusCode is 204 or 304
    sentHeaders, sentLastPart, chunkedMode,
    declared,     \* history: the request handler has set Content-Length
    thrown,       \* history: the request handler has thrown an exception
    written,      \* history: the size of what has been written
    client,       \* how the client reads the response
    surplus       \* history: a body was written on this connection where none belongs

requestVars == <<http10, head>>
responseVars == <<fields, noContent, sentHeaders, sentLastPart, chunkedMode>>
readVars == <<written, client, surplus>>
connectionVars == <<pc, requestVars, closeConnection, responseVars, declared, thrown, readVars>>

NoLength == -1

Headers == [connection : BOOLEAN, lowerCase : BOOLEAN,
            length : Nat \union {NoLength}, chunked : BOOLEAN]
NoHeaders == [connection |-> FALSE, lowerCase |-> FALSE, length |-> NoLength,
              chunked |-> FALSE]

\* Until it has the headers the client does not know how the body ends; told: the
\* headers say that the connection will be closed.
Client == [framing : {"unknown", "none", "length", "chunked", "close"}, left : Nat,
           got : Nat, ended : BOOLEAN, told : BOOLEAN, garbled : BOOLEAN]
Waiting == [framing |-> "unknown", left |-> 0, got |-> 0, ended |-> FALSE,
            told |-> FALSE, garbled |-> FALSE]

ResponseTypeOK ==
    /\ pc \in {"read", "service", "closed", "timedOut", "lost"}
    /\ http10 \in BOOLEAN /\ head \in BOOLEAN /\ closeConnection \in BOOLEAN
    /\ fields \in Headers /\ noContent \in BOOLEAN
    /\ sentHeaders \in BOOLEAN /\ sentLastPart \in BOOLEAN /\ chunkedMode \in BOOLEAN
    /\ declared \in BOOLEAN /\ thrown \in BOOLEAN
    /\ written \in Nat
    /\ client \in Client
    /\ surplus \in BOOLEAN

ResponseInit ==
    /\ pc = "read"
    /\ http10 = FALSE
    /\ head = FALSE
    /\ closeConnection = FALSE
    /\ fields = NoHeaders
    /\ noContent = FALSE
    /\ sentHeaders = FALSE
    /\ sentLastPart = TRUE
    /\ chunkedMode = FALSE
    /\ declared = FALSE
    /\ thrown = FALSE
    /\ written = 0
    /\ client = [Waiting EXCEPT !.ended = TRUE]
    /\ surplus = FALSE

-----------------------------------------------------------------------------
\* A response to HEAD, and one with status 204 or 304, ends with its headers.
Bodyless == head \/ noContent

\* What the client makes of the headers.  It knows chunks since HTTP/1.1, and
\* they outweigh a length.
Framing(h) ==
    IF Bodyless THEN "none"
    ELSE IF h.chunked /\ ~http10 THEN "chunked"
    ELSE IF h.length # NoLength THEN "length" ELSE "close"

Hears(c, h) ==
    [c EXCEPT !.told    = h.connection \/ h.lowerCase,
              !.framing = Framing(h),
              !.left    = IF h.length # NoLength THEN h.length ELSE 0,
              !.ended   = \/ Framing(h) = "none"
                          \/ Framing(h) = "length" /\ h.length = 0]

\* What it makes of n bytes of the body, as a chunk of their own or not.
Ends(c, n, chunk) == IF chunk THEN n = 0 ELSE c.framing = "length" /\ n = c.left
Garbles(c, n, chunk) ==
    \/ c.ended
    \/ chunk # (c.framing = "chunked")
    \/ c.framing = "length" /\ n > c.left

Takes(c, n, chunk) ==
    [c EXCEPT !.got     = @ + n,
              !.left    = IF c.framing = "length" /\ n <= @ THEN @ - n ELSE @,
              !.ended   = @ \/ Ends(c, n, chunk),
              !.garbled = @ \/ Garbles(c, n, chunk)]

\* The headers of the first write(): with the last part the length is known, else
\* chunks are used unless the connection is to be closed.
FirstHeaders(n, lastPart) ==
    IF lastPart THEN [fields EXCEPT !.length = n]
    ELSE IF fields.connection \/ fields.lowerCase THEN fields
    ELSE [fields EXCEPT !.chunked = TRUE]

\* The part itself.
Body(c, n) == IF n = 0 THEN c ELSE Takes(c, n, chunkedMode')

\* write(n bytes, lastPart).  Neither the method nor the status is looked at.
Write(n, lastPart) ==
    LET heard == IF sentHeaders THEN client ELSE Hears(client, fields')
        read  == Body(heard, n)
    IN  /\ ~sentLastPart
        /\ fields' = IF sentHeaders THEN fields ELSE FirstHeaders(n, lastPart)
        /\ chunkedMode' = (chunkedMode \/ (~sentHeaders /\ ~lastPart
                                /\ ~fields.connection /\ ~fields.lowerCase))
        /\ sentHeaders' = TRUE
        /\ client' = IF lastPart /\ chunkedMode' THEN Takes(read, 0, TRUE) ELSE read
        /\ sentLastPart' = lastPart
        /\ written' = written + n
        /\ surplus' = (surplus \/ (Bodyless /\ (n > 0 \/ (lastPart /\ chunkedMode'))))

\* read() has a complete request: a new response, which is told if the connection
\* will be closed.
Request(version10, isHead, close) ==
    /\ pc = "read"
    /\ pc' = "service"
    /\ http10' = version10
    /\ head' = isHead
    /\ closeConnection' = (close \/ version10)
    /\ fields' = [NoHeaders EXCEPT !.connection = closeConnection']
    /\ noContent' = FALSE
    /\ sentHeaders' = FALSE
    /\ sentLastPart' = FALSE
    /\ chunkedMode' = FALSE
    /\ declared' = FALSE
    /\ thrown' = FALSE
    /\ written' = 0
    /\ client' = Waiting
    /\ UNCHANGED surplus

-----------------------------------------------------------------------------
\* The request handler.  It sets headers before the first write(), writes nothing
\* after the last part, and no more than the length it has declared, nor less where a
\* body is expected.
Serving == pc = "service" /\ ~thrown

SetStatus(empty) ==
    /\ Serving
    /\ ~sentHeaders
    /\ noContent' = empty
    /\ UNCHANGED <<pc, requestVars, closeConnection, fields, sentHeaders, sentLastPart,
                   chunkedMode, declared, thrown, readVars>>

SetClose(lower) ==
    /\ Serving
    /\ ~sentHeaders
    /\ fields' = IF lower THEN [fields EXCEPT !.lowerCase = TRUE]
                  ELSE [fields EXCEPT !.connection = TRUE]
    /\ UNCHANGED <<pc, requestVars, closeConnection, noContent, sentHeaders, sentLastPart,
                   chunkedMode, declared, thrown, readVars>>

SetLength(n) ==
    /\ Serving
    /\ ~sentHeaders
    /\ fields' = [fields EXCEPT !.length = n]
    /\ declared' = TRUE
    /\ UNCHANGED <<pc, requestVars, closeConnection, noContent, sentHeaders, sentLastPart,
                   chunkedMode, thrown, readVars>>

WritePart(n, lastPart) ==
    /\ Serving
    /\ written + n <= MaxBody
    /\ declared => written + n <= fields.length
    /\ declared /\ lastPart /\ ~Bodyless => written + n = fields.length
    /\ Write(n, lastPart)
    /\ UNCHANGED <<pc, requestVars, closeConnection, noContent, declared, thrown>>

Throw ==
    /\ Serving
    /\ thrown' = TRUE
    /\ UNCHANGED <<pc, requestVars, closeConnection, responseVars, declared, readVars>>

\* Faulty variant: the connection is kept although the response has no end.
MustCloseIfTold == closeConnection \/ fields'.connection

\* Faulty variant: the request handler's "Connection: close" is not looked at.
MustCloseIfAsked ==
    closeConnection \/ (fields'.length = NoLength /\ ~fields'.chunked)

\* Whether the response, as it has been sent, needs the connection to be closed.
MustClose ==
    closeConnection \/ fields'.connection
        \/ (fields'.length = NoLength /\ ~fields'.chunked)

\* service() has returned: the response is finished if it is not, and the
\* connection closed or kept.
Finish ==
    /\ pc = "service"
    /\ ~thrown /\ ~Bodyless /\ declared /\ sentHeaders => written = fields.length
    /\ IF sentLastPart THEN UNCHANGED <<responseVars, readVars>> ELSE Write(0, TRUE)
    /\ closeConnection' = MustClose
    /\ pc' = IF closeConnection' THEN "closed" ELSE "read"
    /\ UNCHANGED <<requestVars, noContent, declared, thrown>>

\* A request is refused: a fixed text, and the connection is closed.
SendError ==
    /\ pc = "read"
    /\ pc' = "closed"
    /\ closeConnection' = TRUE
    /\ client' = [Waiting EXCEPT !.framing = "close", !.told = TRUE]
    /\ written' = 0
    /\ UNCHANGED <<requestVars, responseVars, declared, thrown, surplus>>

\* No request comes in time: the connection is closed without a word.
ReadTimeout ==
    /\ pc = "read"
    /\ pc' = "timedOut"
    /\ UNCHANGED <<requestVars, closeConnection, responseVars, declared, thrown, readVars>>

\* The connection is lost: isOpen() is false, nothing more is written.
PeerGone ==
    /\ pc \in {"read", "service"}
    /\ pc' = "lost"
    /\ UNCHANGED <<requestVars, closeConnection, responseVars, declared, thrown, readVars>>

ResponseNext ==
    \/ \E version10, isHead, close \in BOOLEAN : Request(version10, isHead, close)
    \/ \E empty \in BOOLEAN : SetStatus(empty)
    \/ \E lower \in BOOLEAN : SetClose(lower)
    \/ \E n \in 0..MaxBody : SetLength(n) \/ WritePart(n, TRUE) \/ WritePart(n, FALSE)
    \/ Throw \/ Finish \/ SendError \/ ReadTimeout \/ PeerGone

ResponseSpec == ResponseInit /\ [][ResponseNext]_connectionVars

-----------------------------------------------------------------------------
\* How far the client has read, unless it was sent a body it does not expect.
HasRead ==
    /\ client.got = written
    /\ ~client.garbled
    /\ client.framing = "none" => client.ended
    /\ client.framing = "chunked" => client.ended = sentLastPart /\ ~client.told
    /\ client.framing = "length" =>
          /\ client.left = fields.length - written
          /\ client.ended = (client.left = 0)
          /\ client.ended \/ client.told
          /\ declared \/ client.ended
    /\ client.framing = "close" => ~client.ended /\ client.told

\* What it knows once it has the headers.
Heard ==
    /\ client.told = (fields.connection \/ fields.lowerCase)
    /\ client.framing = Framing(fields)
    /\ fields.length = NoLength /\ ~fields.chunked => client.told
    /\ ~surplus => HasRead

\* How the state of the response hangs together while it is served.
ServiceInv ==
    /\ http10 => closeConnection
    /\ closeConnection => fields.connection
    /\ chunkedMode = fields.chunked
    /\ fields.chunked => ~fields.connection /\ ~fields.lowerCase /\ ~http10
    /\ declared => fields.length # NoLength
    /\ sentLastPart => sentHeaders
    /\ IF sentHeaders
       THEN /\ Heard
            /\ declared /\ ~fields.chunked => written <= fields.length
            /\ ~declared /\ fields.length # NoLength => sentLastPart
       ELSE /\ client = Waiting
            /\ written = 0
            /\ ~fields.chunked
            /\ fields.length # NoLength => declared

\* The client can always tell where a response ends, and has all of it: when the
\* next request is read it has found the end of the last response; when the server
\* closes, the body ends there or has ended.  There are two exceptions: a request
\* handler that declares a length, tells that the connection will be closed and then
\* breaks off; and a body that write() is given for HEAD, or with status 204 or 304,
\* which it sends and the client takes for the beginning of the next response.
ClientFindsEnd ==
    ~surplus =>
        /\ ~client.garbled
        /\ pc = "read" => client.ended \/ (thrown /\ declared /\ client.told)
        /\ pc = "closed" => client.ended \/ client.framing = "close" \/ (thrown /\ declared)
        /\ pc \in {"read", "closed"} => client.got = written

\* The server closes after a response if the client has been told so, or cannot know
\* its end otherwise, and never else; a client may send its next request before.
\* (If the request handler spells it "connection: close", it is told and not closed.)
CloseAgreed ==
    /\ pc = "closed" => client.told \/ client.framing = "close"
    /\ pc = "read" /\ client.told => fields.lowerCase

\* The invariant the proof rests on.
ResponseInv ==
    /\ ResponseTypeOK
    /\ pc = "service" => ServiceInv
    /\ ClientFindsEnd
    /\ CloseAgreed

=============================================================================
