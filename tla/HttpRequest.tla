---------------------------- MODULE HttpRequest ----------------------------
(***************************************************************************)
(* The request parser: HttpRequest::readFromSocket(), called again and     *)
(* again with whatever bytes the socket holds, and the loop of             *)
(* HttpConnectionHandler::read() that starts a new parser after each       *)
(* complete request (pipelining).                                          *)
(*                                                                         *)
(* A byte is a record: only the first byte of a line, CR, LF and the bytes *)
(* of a body are told apart.  The first byte carries what the line says,   *)
(* and a value: of Content-Length the number, 0 for none, of Content-Type  *)
(* whether it is multipart with a boundary (1).                            *)
(***************************************************************************)
EXTENDS Integers, SequencesExt

CONSTANTS
    Streams,            \* what clients may send: sequences of bytes
    MaxSize,            \* maxRequestSize
    MaxMultiPartSize,   \* maxMultiPartSize
    MaxInt              \* the largest int, 2^31 - 1

HeaderKinds == {"header", "length", "type"}

Kinds == HeaderKinds \union {"request", "garbage", "text", "cr", "lf", "body"}

Bytes == [kind : Kinds, value : Int]

\* The limits are small enough that a request within them does not overflow an int.
LimitsFit ==
    /\ 2 * MaxSize + 1 <= MaxInt
    /\ 2 * MaxMultiPartSize <= MaxInt

ASSUME HttpRequestAssumption ==
    /\ Streams \subseteq Seq(Bytes)
    /\ MaxSize \in Nat
    /\ MaxMultiPartSize \in Nat
    /\ MaxInt \in Nat
    /\ LimitsFit

VARIABLES
    stream,        \* all the client sends
    received,      \* how many bytes of it have arrived at the socket
    lineEndCut,    \* history: whether a read has taken a CR and left its LF
    consumed,      \* how many have been read from the socket
    begun,         \* the value of consumed when this parser was created
    status,        \* HttpRequest::status
    lineBuffer,    \* HttpRequest::lineBuffer
    currentSize,   \* HttpRequest::currentSize
    headers,       \* HttpRequest::headers: what the lines received say, by their places
    boundary,      \* whether HttpRequest::boundary has been found
    expected,      \* HttpRequest::expectedBodySize
    bodySize       \* the size of bodyData or of tempFile

clientVars == <<stream, received>>
parserVars == <<begun, status, lineBuffer, currentSize, headers, boundary, expected, bodySize>>
vars == <<clientVars, lineEndCut, consumed, parserVars>>

Statuses == {"waitForRequest", "waitForHeader", "waitForBody", "complete", "abort"}

TypeOK ==
    /\ stream \in Streams
    /\ received \in 0..Len(stream)
    /\ lineEndCut \in BOOLEAN
    /\ consumed \in 0..received
    /\ begun \in 0..consumed
    /\ status \in Statuses
    /\ lineBuffer \in Seq(Bytes)
    /\ currentSize \in Int
    /\ DOMAIN headers \subseteq Int
    /\ headers \in [DOMAIN headers -> Bytes]
    /\ boundary \in BOOLEAN
    /\ expected \in Int
    /\ bodySize \in Nat

Init ==
    /\ stream \in Streams
    /\ received = 0
    /\ lineEndCut = FALSE
    /\ consumed = 0
    /\ begun = 0
    /\ status = "waitForRequest"
    /\ lineBuffer = <<>>
    /\ currentSize = 0
    /\ headers = <<>>
    /\ boundary = FALSE
    /\ expected = 0
    /\ bodySize = 0

-----------------------------------------------------------------------------
\* What a client sends that keeps to the protocol: requests, one behind the other,
\* up to a line that is none.  The request behind byte b of s ends its headers with
\* byte h and its body, of the length its headers give, with byte e.
IsStart(s, i) == i \in DOMAIN s /\ s[i].kind \in {"request", "garbage"}

WholeRequest(s, b, h, e) ==
    /\ \A i \in b + 2 .. h :
          /\ s[i].kind \in HeaderKinds \union {"text", "cr", "lf"}
          /\ s[i].kind \in HeaderKinds <=> s[i - 1].kind = "lf" /\ i <= h - 2
    /\ s[h - 2].kind = "lf" /\ s[h - 1].kind = "cr" /\ s[h].kind = "lf"
    /\ \A i \in b + 1 .. h : s[i].kind = "length" => s[i].value = e - h
    /\ e = h \/ \E i \in b + 1 .. h : s[i].kind = "length"
    /\ \A i \in h + 1 .. e : s[i].kind = "body"
    /\ e = Len(s) \/ IsStart(s, e + 1)

WellFormed(s) ==
    /\ IsStart(s, 1)
    /\ \A i \in DOMAIN s : s[i].kind = "cr" => i + 1 \in DOMAIN s /\ s[i + 1].kind = "lf"
    /\ \A b \in 0 .. Len(s) - 1 :
          s[b + 1].kind = "request" =>
             \E h \in b + 4 .. Len(s) : \E e \in h .. Len(s) : WholeRequest(s, b, h, e)

-----------------------------------------------------------------------------
\* What arrives next: TCP may cut the stream anywhere.
Receive ==
    /\ \E n \in received + 1 .. Len(stream) : received' = n
    /\ UNCHANGED <<stream, lineEndCut, consumed, parserVars>>

\* bytesAvailable(), read(n) and readLine(n) of the socket.  A limit of 0 means
\* no limit to readLine().
Available == received - consumed

\* read() of a negative size returns nothing.
Taken(n) == IF n < 0 THEN 0 ELSE IF n <= Available THEN n ELSE Available

ReadLine(n) ==
    LET limit == IF n = 0 THEN Available ELSE Taken(n)
        ends  == {i \in 1..limit : stream[consumed + i].kind = "lf" \/ i = limit}
    IN  SubSeq(stream, consumed + 1, consumed + Min(ends))

\* Faulty variant: no byte more than what is left of the limit, which is no limit
\* at all when nothing is left.
LineLimitExact == MaxSize - currentSize

\* "allow one byte more to be able to detect overflow"
LineLimit == MaxSize - currentSize + 1

HasLineEnd(line) == \E i \in DOMAIN line : line[i].kind \in {"cr", "lf"}

\* trimmed().isEmpty()
IsBlank(line) == \A i \in DOMAIN line : line[i].kind \in {"cr", "lf"}

\* The sum of two ints.  What one that does not fit gives is undefined: it wraps
\* around, or the comparison it is used in has been computed with more bits.
Sums(a, b) == IF a + b > MaxInt THEN {a + b, a + b - 2 * (MaxInt + 1)} ELSE {a + b}

\* The check at the end of readFromSocket().
Checked(st, size, multipart) ==
    IF size > (IF multipart THEN MaxMultiPartSize ELSE MaxSize) THEN "abort" ELSE st

CanRead(st) == Available > 0 /\ status = st

\* A line, or more of it, is read.  The size of the buffered line is added even
\* if part of it has been counted before.
TakeLine(line) ==
    LET new == ReadLine(LineLimit)
    IN  /\ line = lineBuffer \o new
        /\ consumed' = consumed + Len(new)
        /\ lineEndCut' = (lineEndCut \/ stream[consumed'].kind = "cr")
        /\ currentSize' = currentSize + Len(lineBuffer) + Len(new)

ReadPartOfLine(st) ==
    LET line == lineBuffer \o ReadLine(LineLimit)
    IN  /\ CanRead(st)
        /\ TakeLine(line)
        /\ ~HasLineEnd(line)
        /\ lineBuffer' = line
        /\ status' = Checked(st, currentSize', FALSE)
        /\ UNCHANGED <<clientVars, begun, headers, boundary, expected, bodySize>>

\* readRequest(), with a whole line; a blank one is skipped.
ReadRequest ==
    LET line == lineBuffer \o ReadLine(LineLimit)
        next == IF IsBlank(line) THEN "waitForRequest"
                ELSE IF line[1].kind = "request" THEN "waitForHeader" ELSE "abort"
    IN  /\ CanRead("waitForRequest")
        /\ TakeLine(line)
        /\ HasLineEnd(line)
        /\ lineBuffer' = <<>>
        /\ status' = Checked(next, currentSize', FALSE)
        /\ UNCHANGED <<clientVars, begun, headers, boundary, expected, bodySize>>

\* headers.insert() of a line that begins at place i of the stream.
Inserted(i, byte) ==
    [j \in DOMAIN headers \union {i} |-> IF j = i THEN byte ELSE headers[j]]

\* readHeader(), with a whole line that is not blank.
ReadHeader ==
    LET line == lineBuffer \o ReadLine(LineLimit)
    IN  /\ CanRead("waitForHeader")
        /\ TakeLine(line)
        /\ HasLineEnd(line)
        /\ ~IsBlank(line)
        /\ lineBuffer' = <<>>
        /\ headers' = Inserted(consumed' - Len(line) + 1, line[1])
        /\ status' = Checked("waitForHeader", currentSize', FALSE)
        /\ UNCHANGED <<clientVars, begun, boundary, expected, bodySize>>

\* headers.value(): of several lines of a kind the last, or what an empty one has.
LinesOf(kind) == {i \in DOMAIN headers : headers[i].kind = kind}

ValueOf(kind) == IF LinesOf(kind) = {} THEN 0 ELSE headers[Max(LinesOf(kind))].value

\* A number that is no int is 0 to toInt().
ToInt(n) == IF n \in -MaxInt - 1 .. MaxInt THEN n ELSE 0

\* total is what expectedBodySize + currentSize gives.
AfterHeaders(total) ==
    IF expected' = 0 THEN "complete"
    ELSE IF ~boundary' /\ total > MaxSize THEN "abort"
    ELSE IF boundary' /\ expected' > MaxMultiPartSize THEN "abort"
    ELSE "waitForBody"

\* readHeader(), with a blank line: "all headers have been received".
EndOfHeaders ==
    LET line == lineBuffer \o ReadLine(LineLimit)
    IN  /\ CanRead("waitForHeader")
        /\ TakeLine(line)
        /\ HasLineEnd(line)
        /\ IsBlank(line)
        /\ lineBuffer' = <<>>
        /\ expected' = ToInt(ValueOf("length"))
        /\ boundary' = (ValueOf("type") = 1)
        /\ \E total \in Sums(expected', currentSize') :
              status' = Checked(AfterHeaders(total), currentSize', boundary')
        /\ UNCHANGED <<clientVars, begun, headers, bodySize>>

\* Faulty variant: a body of exactly the expected size is not complete.
BodyCompleteLate(size) == size > expected

BodyComplete(size) == size >= expected

\* Faulty variant: read() is taken to return as much as it was asked for.
ReadBodyInFull ==
    LET n == expected - bodySize
    IN  /\ CanRead("waitForBody")
        /\ ~boundary
        /\ consumed' = consumed + n
        /\ currentSize' \in Sums(currentSize, n)
        /\ bodySize' = bodySize + n
        /\ status' = Checked(IF BodyComplete(bodySize') THEN "complete" ELSE "waitForBody",
                             currentSize', FALSE)
        /\ UNCHANGED <<clientVars, lineEndCut, begun, lineBuffer, headers, boundary, expected>>

\* Faulty variant: readAll() instead of read(toRead).
ReadBodyAll ==
    LET n == Available
    IN  /\ CanRead("waitForBody")
        /\ ~boundary
        /\ consumed' = consumed + n
        /\ currentSize' \in Sums(currentSize, n)
        /\ bodySize' = bodySize + n
        /\ status' = Checked(IF BodyComplete(bodySize') THEN "complete" ELSE "waitForBody",
                             currentSize', FALSE)
        /\ UNCHANGED <<clientVars, lineEndCut, begun, lineBuffer, headers, boundary, expected>>

\* readBody(), a body kept in memory.
ReadBody ==
    LET n == Taken(expected - bodySize)
    IN  /\ CanRead("waitForBody")
        /\ ~boundary
        /\ consumed' = consumed + n
        /\ currentSize' \in Sums(currentSize, n)
        /\ bodySize' = bodySize + n
        /\ status' = Checked(IF BodyComplete(bodySize') THEN "complete" ELSE "waitForBody",
                             currentSize', FALSE)
        /\ UNCHANGED <<clientVars, lineEndCut, begun, lineBuffer, headers, boundary, expected>>

\* readBody(), a multipart body written to a temporary file, 64 kB at most.  With
\* the last of it parseMultiPartFile() counts the form fields in it.
ReadMultiPart ==
    LET n    == Taken(expected - bodySize)
        next == IF bodySize' >= MaxMultiPartSize THEN "abort"
                ELSE IF BodyComplete(bodySize') THEN "complete" ELSE "waitForBody"
    IN  /\ CanRead("waitForBody")
        /\ boundary
        /\ consumed' = consumed + n
        /\ bodySize' = bodySize + n
        /\ \E formFields \in 0 .. bodySize' :
              currentSize' = IF next = "complete" THEN currentSize + formFields ELSE currentSize
        /\ status' = Checked(next, currentSize', TRUE)
        /\ UNCHANGED <<clientVars, lineEndCut, begun, lineBuffer, headers, boundary, expected>>

ReadFromSocket ==
    \/ ReadPartOfLine("waitForRequest")
    \/ ReadPartOfLine("waitForHeader")
    \/ ReadRequest
    \/ ReadHeader
    \/ EndOfHeaders
    \/ ReadBody
    \/ ReadMultiPart

\* HttpConnectionHandler::read() has served the request; more bytes are there, so
\* it creates the next parser.
NewRequest ==
    /\ CanRead("complete")
    /\ begun' = consumed
    /\ status' = "waitForRequest"
    /\ lineBuffer' = <<>>
    /\ currentSize' = 0
    /\ headers' = <<>>
    /\ boundary' = FALSE
    /\ expected' = 0
    /\ bodySize' = 0
    /\ UNCHANGED <<clientVars, lineEndCut, consumed>>

Next == Receive \/ ReadFromSocket \/ NewRequest

Spec == Init /\ [][Next]_vars

\* The handler's thread reads on while bytes are available.
FairSpec == Spec /\ WF_vars(ReadFromSocket) /\ WF_vars(NewRequest)

-----------------------------------------------------------------------------
\* The bytes of the request this parser works on, as the client sent it: up to
\* the next request line.
Starts(i) == IsStart(stream, i)

RequestEnd ==
    Min({i \in begun + 1 .. Len(stream) : i = Len(stream) \/ Starts(i + 1)})

SentIn(s, b, p) ==
    [i \in {j \in b + 1 .. p : s[j].kind \in HeaderKinds} |-> s[i]]

\* Where the parser loses its place in the stream: a line was read without its LF,
\* which is then taken for the blank line after the headers, or, when the limit left
\* it behind the headers of a multipart request, for its body; or the length of a
\* body was no int, which counts as no body.
LengthLost == \E i \in 1 .. consumed : stream[i].kind = "length" /\ stream[i].value > MaxInt

OutOfStep == lineEndCut \/ LengthLost

\* Pipelining: a complete request has consumed its own bytes and no byte of the
\* request behind it, wherever lines and bodies were cut, and has all its headers,
\* unless the parser has lost its place.
FramedExactly ==
    ~OutOfStep /\ begun < Len(stream) =>
        /\ Starts(begun + 1)
        /\ status = "complete" => consumed = RequestEnd /\ headers = SentIn(stream, begun, RequestEnd)

\* A Content-Length so close to MaxInt that the sum of it and of the size of the
\* headers may overflow.
SumOverflows == expected > MaxInt - MaxSize

\* "allow one byte more to be able to detect overflow": what one request makes the
\* server read, and keep, is limited by the settings, unless its Content-Length
\* overflows the sum that is compared with maxRequestSize: it is then refused, if
\* at all, when a part of its body has been read, which may have any size.
SizeBounded ==
    /\ ~boundary => consumed - begun <= MaxSize + 1 \/ SumOverflows
    /\ boundary => bodySize <= MaxMultiPartSize
    /\ status # "abort" => Len(lineBuffer) <= MaxSize

\* The loop of read() does not spin: whatever has arrived is read, unless the
\* request is refused.
AllRead == Available > 0 ~> Available = 0 \/ status = "abort"

=============================================================================
