----------------------------- MODULE Http_proof -----------------------------
(***************************************************************************)
(* TLAPS proofs about what goes over one connection.                       *)
(*                                                                         *)
(* HttpResponse: for every size of a body the client finds the end of each *)
(* response and the server closes the connection when, and only when, it   *)
(* must.                                                                   *)
(*                                                                         *)
(* HttpRequest: the types, the bounds on what a request makes the server   *)
(* read, and the framing of pipelined requests, for all streams of bytes.  *)
(***************************************************************************)
EXTENDS HttpRequest, HttpResponse, SequenceTheorems, WellFoundedInduction, TLAPS

-----------------------------------------------------------------------------
(***************************************************************************)
(* Responses                                                               *)
(***************************************************************************)
\* The fields of what the client makes of a part.
LEMMA TakesFields ==
    ASSUME NEW c \in Client, NEW n \in Nat, NEW chunk \in BOOLEAN
    PROVE  /\ Takes(c, n, chunk) \in Client
           /\ Takes(c, n, chunk).framing = c.framing
           /\ Takes(c, n, chunk).told = c.told
           /\ Takes(c, n, chunk).got = c.got + n
           /\ c.framing = "length" /\ n <= c.left => Takes(c, n, chunk).left = c.left - n
           /\ Takes(c, n, chunk).ended = (c.ended \/ Ends(c, n, chunk))
           /\ Takes(c, n, chunk).garbled = (c.garbled \/ Garbles(c, n, chunk))
<1> DEFINE left    == IF c.framing = "length" /\ n <= c.left THEN c.left - n ELSE c.left
           ended   == c.ended \/ Ends(c, n, chunk)
           garbled == c.garbled \/ Garbles(c, n, chunk)
<1>1. left \in Nat /\ c.got + n \in Nat
  BY DEF Client
<1>2. ended \in BOOLEAN /\ garbled \in BOOLEAN
  OBVIOUS
<1>3. Takes(c, n, chunk) = [c EXCEPT !.got = c.got + n, !.left = left, !.ended = ended,
                                     !.garbled = garbled]
  BY DEF Takes
<1>4. c.framing = "length" /\ n <= c.left => left = c.left - n
  OBVIOUS
<1> HIDE DEF left, ended, garbled
<1>5. /\ Takes(c, n, chunk) \in Client
      /\ Takes(c, n, chunk).framing = c.framing
      /\ Takes(c, n, chunk).told = c.told
      /\ Takes(c, n, chunk).got = c.got + n
      /\ Takes(c, n, chunk).left = left
      /\ Takes(c, n, chunk).ended = ended
      /\ Takes(c, n, chunk).garbled = garbled
  BY <1>1, <1>2, <1>3 DEF Client
<1> QED BY <1>4, <1>5 DEF ended, garbled

\* ... and of the headers.
LEMMA HearsFields ==
    ASSUME NEW c \in Client, NEW h \in Headers
    PROVE  /\ Hears(c, h) \in Client
           /\ Hears(c, h).framing = Framing(h)
           /\ Hears(c, h).told = (h.connection \/ h.lowerCase)
           /\ Hears(c, h).got = c.got
           /\ h.length # NoLength => Hears(c, h).left = h.length
           /\ Hears(c, h).ended = (Framing(h) = "none" \/ (Framing(h) = "length" /\ h.length = 0))
           /\ Hears(c, h).garbled = c.garbled
<1> DEFINE left  == IF h.length # NoLength THEN h.length ELSE 0
           told  == h.connection \/ h.lowerCase
           ended == Framing(h) = "none" \/ (Framing(h) = "length" /\ h.length = 0)
<1>1. left \in Nat /\ Framing(h) \in {"none", "length", "chunked", "close"}
  BY DEF Headers, Framing
<1>2. told \in BOOLEAN /\ ended \in BOOLEAN
  OBVIOUS
<1>3. Hears(c, h) = [c EXCEPT !.told = told, !.framing = Framing(h),
                              !.left = left, !.ended = ended]
  BY DEF Hears
<1>4. h.length # NoLength => left = h.length
  OBVIOUS
<1> HIDE DEF left, told, ended
<1>5. /\ Hears(c, h) \in Client
      /\ Hears(c, h).framing = Framing(h)
      /\ Hears(c, h).told = told
      /\ Hears(c, h).got = c.got
      /\ Hears(c, h).left = left
      /\ Hears(c, h).ended = ended
      /\ Hears(c, h).garbled = c.garbled
  BY <1>1, <1>2, <1>3 DEF Client
<1> QED BY <1>4, <1>5 DEF told, ended

LEMMA WaitingFields ==
    /\ Waiting \in Client
    /\ Waiting.got = 0 /\ Waiting.framing = "unknown"
    /\ ~Waiting.garbled /\ ~Waiting.ended /\ ~Waiting.told
BY DEF Waiting, Client

\* The headers of the first write().
LEMMA FirstHeadersType ==
    ASSUME ResponseTypeOK, ServiceInv, ~sentHeaders, NEW n \in Nat, NEW lastPart \in BOOLEAN,
           Write(n, lastPart)
    PROVE  /\ fields' \in Headers
           /\ chunkedMode' = fields'.chunked
           /\ fields'.connection = fields.connection
           /\ fields'.lowerCase = fields.lowerCase
           /\ fields'.chunked <=> ~lastPart /\ ~fields.connection /\ ~fields.lowerCase
           /\ fields'.length = IF lastPart THEN n ELSE fields.length
<1>1. fields' = FirstHeaders(n, lastPart)
  BY DEF Write
<1>2. /\ fields \in Headers
      /\ ~chunkedMode /\ ~fields.chunked
  BY DEF ServiceInv, ResponseTypeOK
<1>3. chunkedMode' = (~lastPart /\ ~fields.connection /\ ~fields.lowerCase)
  BY <1>2 DEF Write, Headers
<1>4. CASE lastPart
  BY <1>1, <1>2, <1>3, <1>4 DEF FirstHeaders, Headers
<1>5. CASE ~lastPart /\ (fields.connection \/ fields.lowerCase)
  BY <1>1, <1>2, <1>3, <1>5 DEF FirstHeaders, Headers
<1>6. CASE ~lastPart /\ ~fields.connection /\ ~fields.lowerCase
  BY <1>1, <1>2, <1>3, <1>6 DEF FirstHeaders, Headers
<1> QED BY <1>4, <1>5, <1>6

\* What the client has been told before a part, and how it is read.
LEMMA HeadersHeard ==
    ASSUME ResponseTypeOK, ServiceInv, NEW n \in Nat, NEW lastPart \in BOOLEAN,
           Write(n, lastPart),
           UNCHANGED <<http10, head, noContent>>,
           NEW heard, heard = IF sentHeaders THEN client ELSE Hears(client, fields')
    PROVE  /\ heard \in Client
           /\ heard.told = (fields'.connection \/ fields'.lowerCase)
           /\ heard.framing = Framing(fields)'
<1>t. fields \in Headers /\ client \in Client
  BY DEF ResponseTypeOK
<1>1. CASE sentHeaders
  <2>1. fields' = fields /\ heard = client /\ Heard
    BY <1>1 DEF Write, ServiceInv
  <2>2. Framing(fields)' = Framing(fields)
    BY <2>1 DEF Framing, Bodyless
  <2> QED BY <1>t, <2>1, <2>2 DEF Heard
<1>2. CASE ~sentHeaders
  <2>1. heard = Hears(Waiting, fields') /\ fields' \in Headers
    BY <1>2, FirstHeadersType DEF ServiceInv
  <2>2. Framing(fields)' = Framing(fields')
    BY DEF Framing, Bodyless
  <2> QED BY <2>1, <2>2, HearsFields, WaitingFields
<1> QED BY <1>1, <1>2

\* How far it has read before a part that respects a declared length and is no body
\* where none belongs.
LEMMA PartFits ==
    ASSUME ResponseTypeOK, ServiceInv, NEW n \in Nat, NEW lastPart \in BOOLEAN,
           Write(n, lastPart), ~surplus,
           declared /\ ~fields.chunked => written + n <= fields.length,
           UNCHANGED <<http10, head, noContent>>,
           NEW heard, heard = IF sentHeaders THEN client ELSE Hears(client, fields')
    PROVE  /\ heard.got = written /\ ~heard.garbled
           /\ heard.framing = "none" => heard.ended
           /\ heard.framing = "chunked" => ~heard.ended /\ ~heard.told
           /\ heard.framing = "length" =>
                 /\ heard.left = fields'.length - written
                 /\ heard.ended = (heard.left = 0)
                 /\ n <= heard.left
                 /\ n = heard.left \/ heard.told
                 /\ ~declared => lastPart /\ n = heard.left
           /\ heard.framing = "close" => ~heard.ended /\ heard.told
<1>t. fields \in Headers /\ client \in Client /\ written \in Nat /\ ~sentLastPart
  BY DEF ResponseTypeOK, Write
<1>h. /\ heard.told = (fields'.connection \/ fields'.lowerCase)
      /\ heard.framing = Framing(fields)'
  BY HeadersHeard
<1>1. CASE sentHeaders
  <2>1. fields' = fields /\ heard = client
    BY <1>1 DEF Write
  <2>2. HasRead /\ client.framing = Framing(fields)
    BY <1>1 DEF ServiceInv, Heard
  <2>3. client.framing = "length" => declared /\ ~fields.chunked
    BY <1>1, <1>t, <2>2 DEF ServiceInv, Framing
  <2>4. client.framing = "length" =>
            n <= client.left /\ declared /\ (n = client.left \/ client.told)
    BY <1>t, <2>2, <2>3 DEF HasRead, Client, Headers, NoLength
  <2>5. client.framing = "chunked" => ~client.ended /\ ~client.told
    BY <1>t, <2>2 DEF HasRead
  <2> QED BY <1>t, <2>1, <2>2, <2>4, <2>5 DEF HasRead
<1>2. CASE ~sentHeaders
  <2>1. heard = Hears(Waiting, fields') /\ written = 0
    BY <1>2 DEF ServiceInv
  <2>h. /\ fields' \in Headers
        /\ fields'.chunked <=> ~lastPart /\ ~fields.connection /\ ~fields.lowerCase
        /\ fields'.length = IF lastPart THEN n ELSE fields.length
        /\ fields'.connection = fields.connection /\ fields'.lowerCase = fields.lowerCase
    BY <1>2, FirstHeadersType
  <2>2. Framing(fields') = Framing(fields)'
    BY DEF Framing, Bodyless
  <2>3. /\ Framing(fields)' = "chunked" => fields'.chunked
        /\ Framing(fields)' = "length" => fields'.length # NoLength /\ ~fields'.chunked
        /\ Framing(fields)' = "close" => fields'.length = NoLength /\ ~fields'.chunked
    BY <1>2, <2>h DEF ServiceInv, Framing
  <2>4. fields'.length # NoLength /\ ~fields'.chunked =>
            /\ n <= fields'.length
            /\ ~declared => lastPart
            /\ lastPart \/ fields.connection \/ fields.lowerCase
    BY <1>2, <1>t, <2>h DEF ServiceInv, Headers
  <2>5. /\ heard.got = written /\ ~heard.garbled
        /\ fields'.length # NoLength => heard.left = fields'.length
        /\ heard.ended
              = (Framing(fields)' = "none" \/ (Framing(fields)' = "length" /\ fields'.length = 0))
    <3>1. /\ heard.got = Waiting.got /\ heard.garbled = Waiting.garbled
          /\ fields'.length # NoLength => heard.left = fields'.length
          /\ heard.ended
                = (Framing(fields') = "none" \/ (Framing(fields') = "length" /\ fields'.length = 0))
      <4>1. fields' \in Headers /\ Waiting \in Client
        BY <2>h, WaitingFields
      <4>2. /\ Hears(Waiting, fields').got = Waiting.got
            /\ Hears(Waiting, fields').garbled = Waiting.garbled
            /\ fields'.length # NoLength => Hears(Waiting, fields').left = fields'.length
            /\ Hears(Waiting, fields').ended
                  = (Framing(fields') = "none" \/ (Framing(fields') = "length" /\ fields'.length = 0))
        BY <4>1, HearsFields, Zenon
      <4>3. heard = Hears(Waiting, fields')
        BY <2>1
      <4> QED BY <4>2, <4>3, Zenon
    <3>2. heard.got = written /\ ~heard.garbled
      BY <3>1, <2>1, WaitingFields
    <3> QED BY <3>1, <3>2, <2>2, Zenon
  <2>6. Framing(fields)' = "chunked" => ~heard.ended /\ ~heard.told
    BY <1>h, <2>h, <2>3, <2>5
  <2>7. Framing(fields)' = "length" =>
           /\ heard.left = fields'.length - written
           /\ heard.ended = (heard.left = 0)
           /\ n <= heard.left
           /\ n = heard.left \/ heard.told
           /\ ~declared => lastPart /\ n = heard.left
    <3> SUFFICES ASSUME Framing(fields)' = "length"
                 PROVE  /\ heard.left = fields'.length - written
                        /\ heard.ended = (heard.left = 0)
                        /\ n <= heard.left
                        /\ n = heard.left \/ heard.told
                        /\ ~declared => lastPart /\ n = heard.left
      OBVIOUS
    <3>1. fields'.length # NoLength /\ ~fields'.chunked /\ written = 0
      BY <2>1, <2>3
    <3>2. fields'.length \in Nat /\ heard.left = fields'.length
      BY <2>h, <2>5, <3>1 DEF Headers
    <3>3. heard.ended = (fields'.length = 0)
      BY <2>5
    <3>4. n <= fields'.length /\ (~declared => lastPart)
      BY <2>4, <3>1
    <3>5. lastPart => n = fields'.length
      BY <2>h
    <3>6. lastPart \/ heard.told
      BY <1>h, <2>h, <2>4, <3>1
    <3> QED BY <3>1, <3>2, <3>3, <3>4, <3>5, <3>6
  <2>8. Framing(fields)' = "close" => ~heard.ended /\ heard.told
    <3>1. Framing(fields)' = "close" => ~lastPart /\ ~fields'.chunked
      BY <2>h, <2>3 DEF NoLength
    <3> QED BY <3>1, <1>h, <2>h, <2>5
  <2>9. Framing(fields)' = "none" => heard.ended
    BY <2>5
  <2> QED BY <1>h, <2>5, <2>6, <2>7, <2>8, <2>9
<1> QED BY <1>1, <1>2

\* What a first or later write() that respects a declared length leaves behind.
LEMMA WriteServes ==
    ASSUME ResponseTypeOK, ServiceInv, NEW n \in Nat, NEW lastPart \in BOOLEAN,
           Write(n, lastPart),
           declared /\ ~fields.chunked => written + n <= fields.length,
           UNCHANGED <<http10, head, noContent, declared>>
    PROVE  /\ fields' \in Headers /\ sentHeaders' = TRUE /\ sentLastPart' = lastPart
           /\ chunkedMode' \in BOOLEAN /\ written' \in Nat /\ client' \in Client
           /\ surplus' \in BOOLEAN
           /\ chunkedMode' = fields'.chunked
           /\ fields'.chunked => ~fields'.connection /\ ~fields'.lowerCase /\ ~http10
           /\ fields'.connection = fields.connection
           /\ declared => fields'.length # NoLength
           /\ Heard'
           /\ declared /\ ~fields'.chunked => written' <= fields'.length
           /\ ~declared /\ fields'.length # NoLength => lastPart
<1>t. fields \in Headers /\ client \in Client /\ written \in Nat
  BY DEF ResponseTypeOK
<1>w. /\ sentHeaders' = TRUE /\ sentLastPart' = lastPart /\ written' = written + n
      /\ written' \in Nat /\ ~sentLastPart
  BY <1>t DEF Write
<1>s. surplus' = (surplus \/ (Bodyless /\ (n > 0 \/ (lastPart /\ chunkedMode'))))
  BY DEF Write
<1>c. sentHeaders => chunkedMode' = chunkedMode
  BY DEF Write, ResponseTypeOK
<1>h. /\ fields' \in Headers
      /\ chunkedMode' = fields'.chunked
      /\ fields'.chunked => ~fields'.connection /\ ~fields'.lowerCase /\ ~http10
      /\ fields'.connection = fields.connection
      /\ declared => fields'.length # NoLength
      /\ declared /\ ~fields'.chunked => written' <= fields'.length
      /\ ~declared /\ fields'.length # NoLength => lastPart
  <2>1. CASE sentHeaders
    <3>1. fields' = fields /\ chunkedMode' = chunkedMode
      BY <2>1, <1>c DEF Write
    <3> QED BY <2>1, <1>t, <1>w, <3>1 DEF ServiceInv
  <2>2. CASE ~sentHeaders
    <3>1. /\ fields' \in Headers
          /\ chunkedMode' = fields'.chunked
          /\ fields'.connection = fields.connection
          /\ fields'.lowerCase = fields.lowerCase
          /\ fields'.chunked <=> ~lastPart /\ ~fields.connection /\ ~fields.lowerCase
          /\ fields'.length = IF lastPart THEN n ELSE fields.length
      BY <2>2, FirstHeadersType
    <3>2. written = 0 /\ ~fields.chunked /\ (fields.length # NoLength => declared)
      BY <2>2 DEF ServiceInv
    <3>3. http10 => fields.connection
      BY DEF ServiceInv
    <3> QED BY <1>t, <1>w, <3>1, <3>2, <3>3 DEF ServiceInv, NoLength
  <2> QED BY <2>1, <2>2
<1>n. fields'.length = NoLength /\ ~fields'.chunked =>
          fields'.connection \/ fields'.lowerCase
  <2>1. CASE sentHeaders
    <3>1. fields' = fields /\ Heard
      BY <2>1 DEF Write, ServiceInv
    <3> QED BY <3>1 DEF Heard
  <2>2. CASE ~sentHeaders
    <3>1. /\ fields'.connection = fields.connection
          /\ fields'.lowerCase = fields.lowerCase
          /\ fields'.chunked <=> ~lastPart /\ ~fields.connection /\ ~fields.lowerCase
          /\ fields'.length = IF lastPart THEN n ELSE fields.length
      BY <2>2, FirstHeadersType
    <3>2. lastPart => fields'.length # NoLength
      BY <3>1 DEF NoLength
    <3> QED BY <3>1, <3>2
  <2> QED BY <2>1, <2>2
<1> DEFINE heard == IF sentHeaders THEN client ELSE Hears(client, fields')
           read  == Body(heard, n)
<1>e. client' = IF lastPart /\ chunkedMode' THEN Takes(read, 0, TRUE) ELSE read
  BY DEF Write
<1>1. /\ heard \in Client
      /\ heard.told = (fields'.connection \/ fields'.lowerCase)
      /\ heard.framing = Framing(fields)'
  BY HeadersHeard
<1>f. /\ Framing(fields)' = "none" <=> Bodyless
      /\ Framing(fields)' = "chunked" <=> ~Bodyless /\ fields'.chunked
      /\ Framing(fields)' = "length" <=>
            ~Bodyless /\ fields'.length # NoLength /\ ~fields'.chunked
      /\ Framing(fields)' \in {"none", "chunked", "length", "close"}
  BY <1>h DEF Framing, Bodyless
<1>8. chunkedMode' \in BOOLEAN
  BY <1>h DEF Headers
<1> HIDE DEF heard
<1>r. read \in Client /\ read.told = heard.told /\ read.framing = heard.framing
  <2>1. CASE n = 0
    BY <2>1, <1>1 DEF Body
  <2>2. CASE n # 0
    BY <2>2, <1>1, <1>8, TakesFields DEF Body
  <2> QED BY <2>1, <2>2
<1>k. client' \in Client /\ client'.told = read.told /\ client'.framing = read.framing
  <2>1. CASE lastPart /\ chunkedMode'
    <3>1. client' = Takes(read, 0, TRUE)
      BY <2>1, <1>e
    <3> HIDE DEF read
    <3> QED BY <3>1, <1>r, TakesFields
  <2>2. CASE ~(lastPart /\ chunkedMode')
    BY <2>2, <1>e, <1>r
  <2> QED BY <2>1, <2>2
<1>4. ASSUME ~surplus' PROVE HasRead'
  <2>s. ~surplus /\ (Bodyless => n = 0 /\ ~(lastPart /\ chunkedMode'))
    <3>1. ~(surplus \/ (Bodyless /\ (n > 0 \/ (lastPart /\ chunkedMode'))))
      BY <1>4, <1>s, Zenon
    <3>2. n > 0 \/ n = 0
      OBVIOUS
    <3> QED BY <3>1, <3>2, Zenon
  <2>1. /\ heard.got = written /\ ~heard.garbled
        /\ heard.framing = "none" => heard.ended
        /\ heard.framing = "chunked" => ~heard.ended /\ ~heard.told
        /\ heard.framing = "length" =>
              /\ heard.left = fields'.length - written
              /\ heard.ended = (heard.left = 0)
              /\ n <= heard.left
              /\ n = heard.left \/ heard.told
              /\ ~declared => lastPart /\ n = heard.left
        /\ heard.framing = "close" => ~heard.ended /\ heard.told
    BY <2>s, PartFits DEF heard
\* With the part ...
  <2>2. /\ read.got = written + n /\ ~read.garbled
        /\ read.framing = "none" => read.ended
        /\ read.framing = "chunked" => ~read.ended
        /\ read.framing = "length" =>
              /\ read.left = fields'.length - (written + n)
              /\ read.ended = (read.left = 0)
              /\ read.ended \/ read.told
              /\ declared \/ read.ended
        /\ read.framing = "close" => ~read.ended
    <3>1. CASE n = 0
      BY <3>1, <1>1, <2>1, <1>t, <1>h DEF Body, Client, Headers
    <3>2. CASE n # 0
      <4>1. read = Takes(heard, n, chunkedMode') /\ ~Bodyless
        BY <3>2, <2>s DEF Body
      <4>2. chunkedMode' = (heard.framing = "chunked") /\ heard.framing # "none"
        BY <4>1, <1>1, <1>f, <1>h, <1>8
      <4>3. ~Garbles(heard, n, chunkedMode')
        BY <4>1, <4>2, <3>2, <1>1, <2>1, <1>t, <1>f, <1>h, <1>8 DEF Garbles, Client, Headers,
           NoLength
      <4>4. Ends(heard, n, chunkedMode') <=> heard.framing = "length" /\ n = heard.left
        BY <4>1, <4>2, <3>2 DEF Ends
      <4> QED BY <4>1, <4>2, <4>3, <4>4, <3>2, <1>1, <2>1, <1>t, <1>h, <1>f, <1>8, TakesFields
              DEF Client, Headers, NoLength
    <3> QED BY <3>1, <3>2
  <2> HIDE DEF read
\* ... and the end.
  <2>3. /\ client'.got = written' /\ ~client'.garbled
        /\ client'.framing = "chunked" => client'.ended = lastPart
        /\ client'.framing # "chunked" => client' = read
    <3>1. CASE lastPart /\ chunkedMode'
      <4>1. client' = Takes(read, 0, TRUE) /\ read.framing = "chunked" /\ ~read.ended
        BY <3>1, <2>s, <1>e, <1>1, <1>r, <2>2, <1>f, <1>h
      <4>2. ~Garbles(read, 0, TRUE) /\ Ends(read, 0, TRUE)
        BY <4>1 DEF Garbles, Ends
      <4>3. /\ client'.got = read.got + 0
            /\ client'.ended = (read.ended \/ Ends(read, 0, TRUE))
            /\ client'.garbled = (read.garbled \/ Garbles(read, 0, TRUE))
        BY <4>1, <1>r, TakesFields
      <4>4. client'.got = written'
        BY <4>3, <2>2, <1>w, <1>t
      <4>5. client'.ended = lastPart /\ ~client'.garbled
        BY <3>1, <4>2, <4>3, <2>2
      <4> QED BY <4>1, <4>4, <4>5, <1>k
    <3>2. CASE ~(lastPart /\ chunkedMode')
      <4>1. client' = read
        BY <3>2, <1>e
      <4>2. client'.framing = "chunked" => chunkedMode'
        BY <1>k, <1>r, <1>1, <1>f, <1>h
      <4>3. client'.framing = "chunked" => client'.ended = lastPart
        BY <3>2, <4>1, <4>2, <2>2, <1>k DEF Client
      <4> QED BY <4>1, <4>3, <2>2, <1>w
    <3> QED BY <3>1, <3>2
  <2> QED BY <2>1, <2>2, <2>3, <1>k, <1>r, <1>h, <1>w, <1>f DEF HasRead
<1>5. Heard'
  <2>1. client'.told = (fields'.connection \/ fields'.lowerCase)
    BY <1>1, <1>r, <1>k
  <2>2. client'.framing = Framing(fields)'
    BY <1>1, <1>r, <1>k
  <2>3. fields'.length = NoLength /\ ~fields'.chunked => client'.told
    BY <2>1, <1>n
  <2> QED BY <2>1, <2>2, <2>3, <1>4 DEF Heard
<1>6. surplus' \in BOOLEAN
  BY <1>s DEF ResponseTypeOK
<1> QED BY <1>h, <1>w, <1>k, <1>5, <1>6, <1>8

LEMMA InitInv == ResponseInit => ResponseInv
<1> SUFFICES ASSUME ResponseInit PROVE ResponseInv
  OBVIOUS
<1>1. /\ client \in Client /\ client.ended = TRUE /\ client.got = 0
      /\ client.garbled = FALSE /\ client.told = FALSE
  BY DEF ResponseInit, Waiting, Client
<1>2. fields \in Headers
  BY DEF ResponseInit, NoHeaders, Headers
<1> QED BY <1>1, <1>2 DEF ResponseInit, ResponseInv, ResponseTypeOK, ClientFindsEnd, CloseAgreed

LEMMA RequestInv ==
    ASSUME ResponseInv, NEW version10 \in BOOLEAN, NEW isHead \in BOOLEAN,
           NEW close \in BOOLEAN, Request(version10, isHead, close)
    PROVE  ResponseInv'
<1>1. ResponseTypeOK'
  BY DEF ResponseInv, ResponseTypeOK, Request, NoHeaders, Headers, Waiting, Client, NoLength
<1>2. ServiceInv'
  BY DEF ResponseInv, ResponseTypeOK, Request, NoHeaders, Headers, Waiting, ServiceInv, NoLength
<1> QED BY <1>1, <1>2 DEF ResponseInv, ClientFindsEnd, CloseAgreed, Request, Waiting

LEMMA SetStatusInv ==
    ASSUME ResponseInv, NEW empty \in BOOLEAN, SetStatus(empty)
    PROVE  ResponseInv'
<1>1. /\ pc = "service" /\ pc' = "service" /\ ~sentHeaders /\ sentHeaders' = sentHeaders
      /\ ResponseTypeOK /\ ServiceInv
      /\ UNCHANGED <<requestVars, closeConnection, fields, sentHeaders, sentLastPart,
                     chunkedMode, declared, thrown, readVars>>
  BY DEF ResponseInv, SetStatus, Serving
<1>2. ResponseTypeOK'
  BY <1>1 DEF ResponseTypeOK, SetStatus, requestVars, readVars
<1>3. ServiceInv'
  BY <1>1 DEF ServiceInv, requestVars, readVars
<1> QED BY <1>1, <1>2, <1>3 DEF ResponseInv, ClientFindsEnd, CloseAgreed, readVars

LEMMA SetCloseInv ==
    ASSUME ResponseInv, NEW lower \in BOOLEAN, SetClose(lower)
    PROVE  ResponseInv'
<1>1. /\ fields \in Headers /\ pc = "service" /\ pc' = "service" /\ ~sentHeaders
      /\ ResponseTypeOK /\ ServiceInv /\ client' = client /\ surplus' = surplus
  BY DEF ResponseInv, ResponseTypeOK, SetClose, Serving, readVars
<1>2. /\ fields' \in Headers /\ fields'.chunked = fields.chunked
      /\ fields'.length = fields.length
      /\ fields.connection => fields'.connection
  BY <1>1 DEF SetClose, Headers
<1>3. ResponseTypeOK'
  BY <1>1, <1>2 DEF ResponseTypeOK, SetClose, requestVars, readVars
<1>4. ServiceInv'
  BY <1>1, <1>2 DEF ServiceInv, SetClose, requestVars, readVars
<1> QED BY <1>1, <1>3, <1>4 DEF ResponseInv, ClientFindsEnd, CloseAgreed

LEMMA SetLengthInv ==
    ASSUME ResponseInv, NEW n \in 0..MaxBody, SetLength(n)
    PROVE  ResponseInv'
<1>1. /\ fields \in Headers /\ pc = "service" /\ pc' = "service" /\ ~sentHeaders
      /\ ResponseTypeOK /\ ServiceInv /\ client' = client /\ surplus' = surplus /\ n \in Nat
  BY HttpResponseAssumption DEF ResponseInv, ResponseTypeOK, SetLength, Serving, readVars
<1>2. /\ fields' \in Headers /\ fields'.chunked = fields.chunked
      /\ fields'.length = n
      /\ fields'.connection = fields.connection
  BY <1>1 DEF SetLength, Headers
<1>3. ResponseTypeOK'
  BY <1>1, <1>2 DEF ResponseTypeOK, SetLength, requestVars, readVars
<1>4. ServiceInv'
  BY <1>1, <1>2 DEF ServiceInv, SetLength, NoLength, requestVars, readVars
<1> QED BY <1>1, <1>3, <1>4 DEF ResponseInv, ClientFindsEnd, CloseAgreed

LEMMA WritePartInv ==
    ASSUME ResponseInv, NEW n \in 0..MaxBody, NEW lastPart \in BOOLEAN, WritePart(n, lastPart)
    PROVE  ResponseInv'
<1>1. pc = "service" /\ pc' = "service" /\ ResponseTypeOK /\ ServiceInv /\ n \in Nat
  BY HttpResponseAssumption DEF ResponseInv, WritePart, Serving
<1>2. /\ fields' \in Headers /\ sentHeaders' = TRUE /\ sentLastPart' = lastPart
      /\ chunkedMode' \in BOOLEAN /\ written' \in Nat /\ client' \in Client
      /\ surplus' \in BOOLEAN
      /\ chunkedMode' = fields'.chunked
      /\ fields'.chunked => ~fields'.connection /\ ~fields'.lowerCase /\ ~http10
      /\ fields'.connection = fields.connection
      /\ declared => fields'.length # NoLength
      /\ Heard'
      /\ declared /\ ~fields'.chunked => written' <= fields'.length
      /\ ~declared /\ fields'.length # NoLength => lastPart
  <2>1. Write(n, lastPart) /\ UNCHANGED <<http10, head, noContent, declared>>
    BY DEF WritePart, requestVars
  <2>2. declared /\ ~fields.chunked => written + n <= fields.length
    BY DEF WritePart
  <2> QED BY <1>1, <2>1, <2>2, WriteServes
<1>3. UNCHANGED <<http10, head, closeConnection, noContent, declared, thrown>>
  BY DEF WritePart, requestVars
<1>4. ResponseTypeOK'
  BY <1>1, <1>2, <1>3 DEF ResponseTypeOK
<1>5. ServiceInv'
  BY <1>1, <1>2, <1>3 DEF ServiceInv
<1>6. ~surplus' => ~client'.garbled
  BY <1>2 DEF Heard, HasRead
<1> QED BY <1>1, <1>4, <1>5, <1>6 DEF ResponseInv, ClientFindsEnd, CloseAgreed

LEMMA ThrowInv ==
    ASSUME ResponseInv, Throw
    PROVE  ResponseInv'
<1>1. ResponseTypeOK' /\ pc = "service" /\ pc' = "service" /\ UNCHANGED <<client, surplus>>
  BY DEF ResponseInv, ResponseTypeOK, Throw, Serving, requestVars, responseVars, readVars
<1>2. ServiceInv'
  BY <1>1 DEF ResponseInv, Throw, requestVars, responseVars, readVars, ServiceInv, Heard, HasRead,
     Framing, Bodyless
<1> QED BY <1>1, <1>2 DEF ResponseInv, ClientFindsEnd, CloseAgreed

\* The response after service(), with the last part if it was missing.
LEMMA FinishServes ==
    ASSUME ResponseInv, Finish
    PROVE  /\ fields' \in Headers /\ sentHeaders' = TRUE /\ sentLastPart' = TRUE
           /\ chunkedMode' \in BOOLEAN /\ written' \in Nat /\ client' \in Client
           /\ surplus' \in BOOLEAN
           /\ closeConnection => fields'.connection
           /\ fields'.chunked => ~fields'.connection /\ ~fields'.lowerCase
           /\ Heard'
           /\ ~surplus' /\ client'.framing = "length" =>
                 client'.ended \/ (thrown /\ declared)
<1>t. /\ ResponseTypeOK /\ ServiceInv /\ sentHeaders \in BOOLEAN /\ sentLastPart \in BOOLEAN
      /\ fields \in Headers /\ written \in Nat
      /\ UNCHANGED <<http10, head, noContent, declared>>
  BY DEF Finish, ResponseInv, ResponseTypeOK, requestVars
<1>b. Framing(fields)' = "length" => ~Bodyless /\ fields'.length # NoLength
  BY <1>t DEF Framing, Bodyless
<1>1. CASE sentLastPart
  <2>1. /\ UNCHANGED <<fields, sentHeaders, sentLastPart, chunkedMode, readVars, http10, head,
                       noContent>>
        /\ sentHeaders /\ Heard
    BY <1>1, <1>t DEF Finish, responseVars, requestVars, ServiceInv
  <2>2. Heard'
    <3>1. Framing(fields)' = Framing(fields)
      BY <2>1 DEF Framing, Bodyless
    <3>2. HasRead => HasRead'
      BY <2>1, <1>t DEF HasRead, readVars
    <3> QED BY <2>1, <3>1, <3>2 DEF Heard, readVars
  <2>3. ~thrown /\ ~Bodyless /\ declared => written = fields.length
    BY <2>1 DEF Finish
  <2>4. ~surplus /\ client.framing = "length" => client.ended \/ (thrown /\ declared)
    <3>1. client.framing = "length" => ~Bodyless
      BY <2>1 DEF Heard, Framing
    <3>2. ~surplus /\ ~thrown /\ declared /\ client.framing = "length" => client.left = 0
      BY <2>1, <2>3, <3>1, <1>t DEF Heard, HasRead, Headers, NoLength
    <3> QED BY <2>1, <3>2 DEF Heard, HasRead
  <2> QED BY <1>1, <1>t, <2>1, <2>2, <2>4 DEF ResponseTypeOK, ServiceInv, readVars
<1>2. CASE ~sentLastPart
  <2>1. Write(0, TRUE)
    BY <1>2 DEF Finish
  <2>2. declared /\ ~fields.chunked => written + 0 <= fields.length
    BY <1>t DEF ServiceInv, Headers, NoLength
  <2>3. /\ fields' \in Headers /\ sentHeaders' = TRUE /\ sentLastPart' = TRUE
        /\ chunkedMode' \in BOOLEAN /\ written' \in Nat /\ client' \in Client
        /\ surplus' \in BOOLEAN
        /\ fields'.chunked => ~fields'.connection /\ ~fields'.lowerCase /\ ~http10
        /\ fields'.connection = fields.connection
        /\ Heard'
    BY <1>t, <2>1, <2>2, WriteServes
  <2>4. closeConnection => fields'.connection
    BY <1>t, <2>3 DEF ServiceInv
  <2>5. ~thrown /\ ~Bodyless /\ declared => written' = fields'.length
    <3>1. CASE sentHeaders
      BY <3>1, <1>t, <2>1 DEF Finish, Write
    <3>2. CASE ~sentHeaders
      <4>1. written' = 0
        BY <3>2, <2>1, <1>t DEF Write, ServiceInv
      <4>2. fields'.length = 0
        BY <3>2, <2>1, <1>t, FirstHeadersType
      <4> QED BY <4>1, <4>2
    <3> QED BY <3>1, <3>2
  <2>6. ~surplus' /\ client'.framing = "length" => client'.ended \/ (thrown /\ declared)
    <3> SUFFICES ASSUME ~surplus', client'.framing = "length", ~thrown \/ ~declared
                 PROVE  client'.ended
      OBVIOUS
    <3>1. HasRead' /\ client'.framing = Framing(fields)'
      BY <2>3 DEF Heard
    <3>2. CASE declared
      <4>1. ~Bodyless /\ fields'.length # NoLength
        BY <3>1, <1>b
      <4>2. written' = fields'.length
        BY <4>1, <3>2, <2>5
      <4>3. fields'.length \in Nat
        BY <4>1, <2>3 DEF Headers
      <4>4. client'.left = fields'.length - written' /\ client'.ended = (client'.left = 0)
        BY <3>1 DEF HasRead
      <4>5. fields'.length - written' = 0
        BY <4>2, <4>3
      <4>6. client'.left = 0
        BY <4>4, <4>5
      <4>7. client'.ended = (client'.left = 0)
        BY <4>4
      <4> QED BY <4>6, <4>7
    <3>3. CASE ~declared
      BY <3>1, <3>3, <1>t DEF HasRead
    <3> QED BY <3>2, <3>3
  <2> QED BY <2>3, <2>4, <2>6
<1> QED BY <1>1, <1>2, <1>t

LEMMA FinishInv ==
    ASSUME ResponseInv, Finish
    PROVE  ResponseInv'
<1>1. /\ fields' \in Headers /\ sentHeaders' = TRUE /\ sentLastPart' = TRUE
      /\ chunkedMode' \in BOOLEAN /\ written' \in Nat /\ client' \in Client
      /\ surplus' \in BOOLEAN
      /\ closeConnection => fields'.connection
      /\ fields'.chunked => ~fields'.connection /\ ~fields'.lowerCase
      /\ Heard'
      /\ ~surplus' /\ client'.framing = "length" => client'.ended \/ (thrown /\ declared)
  BY FinishServes
<1>2. /\ UNCHANGED <<http10, head, noContent, declared, thrown>>
      /\ closeConnection' <=> closeConnection \/ fields'.connection
                                \/ (fields'.length = NoLength /\ ~fields'.chunked)
      /\ pc' = IF closeConnection' THEN "closed" ELSE "read"
      /\ closeConnection' \in BOOLEAN
  BY DEF Finish, MustClose, requestVars
<1>3. ResponseTypeOK'
  BY <1>1, <1>2 DEF ResponseInv, ResponseTypeOK
<1>4. /\ Framing(fields)' = "chunked" => fields'.chunked
      /\ Framing(fields)' = "length" => fields'.length # NoLength
      /\ Framing(fields)' = "close" => fields'.length = NoLength
      /\ Framing(fields)' \in {"none", "chunked", "length", "close"}
  BY DEF Framing
<1>5. http10 => fields'.connection
  BY <1>1 DEF ResponseInv, Finish, ServiceInv
<1>6. ClientFindsEnd'
  <2> SUFFICES ASSUME ~surplus'
               PROVE  /\ ~client'.garbled /\ client'.got = written'
                      /\ pc' = "read" => client'.ended \/ (thrown /\ declared /\ client'.told)
                      /\ pc' = "closed" =>
                            client'.ended \/ client'.framing = "close" \/ (thrown /\ declared)
    BY <1>2 DEF ClientFindsEnd
  <2>1. HasRead' /\ client'.framing = Framing(fields)'
    BY <1>1 DEF Heard
  <2>2. pc' = "read" => client'.ended \/ (thrown /\ declared /\ client'.told)
    <3> SUFFICES ASSUME pc' = "read"
                 PROVE  client'.ended \/ (thrown /\ declared /\ client'.told)
      OBVIOUS
    <3>1. /\ ~fields'.connection /\ ~http10
          /\ fields'.length # NoLength \/ fields'.chunked
      BY <1>2, <1>5
    <3>2. Framing(fields)' # "close"
      BY <3>1, <1>2 DEF Framing
    <3>3. CASE client'.framing \in {"none", "chunked"}
      BY <3>3, <2>1, <1>1 DEF HasRead
    <3>4. CASE client'.framing = "length"
      BY <3>4, <2>1, <1>1 DEF HasRead
    <3> QED BY <3>2, <3>3, <3>4, <2>1, <1>4
  <2>3. pc' = "closed" => client'.ended \/ client'.framing = "close" \/ (thrown /\ declared)
    BY <2>1, <1>1, <1>4 DEF HasRead
  <2> QED BY <2>1, <2>2, <2>3 DEF HasRead
<1>7. CloseAgreed'
  <2>1. /\ client'.told = (fields'.connection \/ fields'.lowerCase)
        /\ fields'.length = NoLength /\ ~fields'.chunked => client'.told
    BY <1>1 DEF Heard
  <2>2. pc' = "closed" => client'.told
    <3>1. pc' = "closed" => closeConnection'
      BY <1>2
    <3>2. closeConnection' => fields'.connection
                                  \/ (fields'.length = NoLength /\ ~fields'.chunked)
      BY <1>1, <1>2
    <3> QED BY <2>1, <3>1, <3>2
  <2>3. pc' = "read" /\ client'.told => fields'.lowerCase
    BY <2>1, <1>2
  <2> QED BY <2>2, <2>3 DEF CloseAgreed
<1> QED BY <1>2, <1>3, <1>6, <1>7 DEF ResponseInv

LEMMA ClosingInv ==
    ASSUME ResponseInv, SendError \/ ReadTimeout \/ PeerGone \/ UNCHANGED connectionVars
    PROVE  ResponseInv'
<1>1. CASE SendError
  <2>1. /\ client' = [Waiting EXCEPT !.framing = "close", !.told = TRUE]
        /\ pc' = "closed" /\ written' = 0 /\ closeConnection' = TRUE
        /\ UNCHANGED <<http10, head, fields, noContent, sentHeaders, sentLastPart, chunkedMode,
                       declared, thrown, surplus>>
    BY <1>1 DEF SendError, requestVars, responseVars
  <2>2. /\ client' \in Client /\ client'.framing = "close" /\ client'.told = TRUE
        /\ client'.got = 0 /\ client'.garbled = FALSE
    BY <2>1 DEF Waiting, Client
  <2>3. ResponseTypeOK'
    BY <2>1, <2>2 DEF ResponseInv, ResponseTypeOK
  <2> QED BY <2>1, <2>2, <2>3 DEF ResponseInv, ClientFindsEnd, CloseAgreed
<1>2. CASE ReadTimeout
  <2>1. ResponseTypeOK' /\ pc' = "timedOut" /\ UNCHANGED <<client, surplus>>
    BY <1>2 DEF ReadTimeout, ResponseInv, ResponseTypeOK, requestVars, responseVars, readVars
  <2> QED BY <2>1 DEF ResponseInv, ClientFindsEnd, CloseAgreed
<1>3. CASE PeerGone
  <2>1. ResponseTypeOK' /\ pc' = "lost" /\ UNCHANGED <<client, surplus>>
    BY <1>3 DEF PeerGone, ResponseInv, ResponseTypeOK, requestVars, responseVars, readVars
  <2> QED BY <2>1 DEF ResponseInv, ClientFindsEnd, CloseAgreed
<1>4. CASE UNCHANGED connectionVars
  BY <1>4 DEF connectionVars, requestVars, responseVars, readVars, ResponseInv, ResponseTypeOK,
     ServiceInv, Heard, HasRead, Framing, Bodyless, ClientFindsEnd, CloseAgreed
<1> QED BY <1>1, <1>2, <1>3, <1>4

-----------------------------------------------------------------------------
\* The response, what has been sent of it and what the client has made of it agree in
\* every state of a connection.
THEOREM ResponseInvariance == ResponseSpec => []ResponseInv
<1>1. ResponseInv /\ [ResponseNext]_connectionVars => ResponseInv'
  <2> SUFFICES ASSUME ResponseInv, [ResponseNext]_connectionVars PROVE ResponseInv'
    OBVIOUS
  <2>1. ASSUME NEW version10 \in BOOLEAN, NEW isHead \in BOOLEAN, NEW close \in BOOLEAN,
               Request(version10, isHead, close)
        PROVE  ResponseInv'
    BY <2>1, RequestInv
  <2>2. ASSUME NEW lower \in BOOLEAN, SetClose(lower)
        PROVE  ResponseInv'
    BY <2>2, SetCloseInv
  <2>3. ASSUME NEW n \in 0..MaxBody,
               SetLength(n) \/ WritePart(n, TRUE) \/ WritePart(n, FALSE)
        PROVE  ResponseInv'
    BY <2>3, SetLengthInv, WritePartInv
  <2>4. CASE Throw
    BY <2>4, ThrowInv
  <2>5. CASE Finish
    BY <2>5, FinishInv
  <2>6. CASE SendError \/ ReadTimeout \/ PeerGone \/ UNCHANGED connectionVars
    BY <2>6, ClosingInv
  <2>7. ASSUME NEW empty \in BOOLEAN, SetStatus(empty)
        PROVE  ResponseInv'
    BY <2>7, SetStatusInv
  <2> QED BY <2>1, <2>2, <2>3, <2>4, <2>5, <2>6, <2>7 DEF ResponseNext
<1> QED BY <1>1, InitInv, PTL DEF ResponseSpec

\* The client finds the end of every response that HttpResponse::write() and
\* HttpConnectionHandler::read() send, for bodies of every size, as long as no body has
\* been written for HEAD or with status 204 or 304.
THEOREM EveryResponseEnds == ResponseSpec => []ClientFindsEnd
BY ResponseInvariance, PTL DEF ResponseInv

\* The server and the client agree on whether the connection is closed.
THEOREM CloseIsAgreed == ResponseSpec => []CloseAgreed
BY ResponseInvariance, PTL DEF ResponseInv

-----------------------------------------------------------------------------
(***************************************************************************)
(* Requests: reading a line                                                *)
(***************************************************************************)
USE HttpRequestAssumption

\* A non-empty set of numbers has a least one, and Min() is it.
LEMMA MinOf ==
  ASSUME NEW S \in SUBSET Nat, S # {}
  PROVE  Min(S) \in S /\ \A y \in S : Min(S) <= y
  <1>1. PICK n \in S : \A m \in S : <<m, n>> \notin OpToRel(<, Nat)
    BY WFMin, NatLessThanWellFounded, Zenon
  <1>2. \A m \in Nat : m < n => <<m, n>> \in OpToRel(<, Nat)
    BY Zenon DEF OpToRel
  <1>3. \A m \in S : ~ (m < n)
    BY <1>1, <1>2, Zenon
  <1>4. \A m \in S : n <= m
    BY <1>3
  <1> QED  BY <1>4 DEF Min

\* So has one with an upper bound a greatest one, and Max() is it.
LEMMA MaxOf ==
  ASSUME NEW S \in SUBSET Nat, S # {}, NEW n \in Nat, \A x \in S : x <= n
  PROVE  Max(S) \in S
  <1> DEFINE T == {n - x : x \in S}
  <1>1. T \in SUBSET Nat /\ T # {}
    <2>1. ASSUME NEW x \in S PROVE n - x \in Nat
      BY <2>1
    <2>2. PICK x \in S : TRUE
      OBVIOUS
    <2>3. n - x \in T
      BY <2>2
    <2> QED  BY <2>1, <2>3
  <1> HIDE DEF T
  <1>2. Min(T) \in T /\ \A y \in T : Min(T) <= y
    BY <1>1, MinOf
  <1>3. PICK x \in S : Min(T) = n - x
    BY <1>2 DEF T
  <1>4. \A y \in S : n - y \in T
    BY DEF T
  <1>5. \A y \in S : x >= y
    <2> TAKE y \in S
    <2>1. n - x <= n - y
      BY <1>2, <1>3, <1>4
    <2> QED  BY <2>1
  <1> QED  BY <1>5 DEF Max

\* A sum that fits is what it should be.
LEMMA SumOf ==
  ASSUME NEW a \in Int, NEW b \in Int, NEW c \in Sums(a, b)
  PROVE  c \in Int /\ (a + b <= MaxInt => c = a + b)
  BY DEF Sums

\* readLine(n) takes at least one of the bytes that have arrived and at most n, up to
\* and including the first LF.
LEMMA ReadLineTakes ==
  ASSUME TypeOK, Available > 0, NEW n \in Nat \ {0}
  PROVE  LET new == ReadLine(n)
             k   == Len(new)
         IN  /\ new \in Seq(Bytes)
             /\ k \in 1 .. Available /\ k <= n
             /\ \A i \in 1 .. k : new[i] = stream[consumed + i]
             /\ \A i \in 1 .. k - 1 : new[i].kind # "lf"
             /\ new[k].kind = "lf" \/ k = n \/ k = Available
  <1>1. /\ stream \in Seq(Bytes) /\ Len(stream) \in Nat
        /\ consumed \in Nat /\ received \in Nat /\ consumed < received
        /\ received <= Len(stream)
    BY DEF TypeOK, Available
  <1> DEFINE limit == Taken(n)
             ends  == {i \in 1 .. limit : stream[consumed + i].kind = "lf" \/ i = limit}
             k     == Min(ends)
  <1>2. limit \in 1 .. Available /\ limit <= n /\ (limit = n \/ limit = Available)
    BY <1>1 DEF Taken, Available
  <1>3. Available \in Nat /\ consumed + Available = received
    BY <1>1 DEF Available
  <1>4. k \in ends /\ \A y \in ends : k <= y
    <2>1. limit \in ends /\ ends \in SUBSET Nat
      BY <1>2, <1>3
    <2> HIDE DEF ends
    <2> QED  BY <2>1, MinOf
  <1>5. ReadLine(n) = SubSeq(stream, consumed + 1, consumed + k)
    BY DEF ReadLine
  <1>6. k \in 1 .. limit /\ (stream[consumed + k].kind = "lf" \/ k = limit)
    BY <1>4
  <1>7. \A i \in 1 .. k - 1 : stream[consumed + i].kind # "lf"
    BY <1>2, <1>3, <1>4
  <1> HIDE DEF limit, ends, k
  <1>8. /\ ReadLine(n) \in Seq(Bytes) /\ Len(ReadLine(n)) = k
        /\ \A i \in 1 .. k : ReadLine(n)[i] = stream[consumed + i]
    BY <1>1, <1>2, <1>3, <1>5, <1>6, SubSeqProperties
  <1> QED  BY <1>2, <1>3, <1>6, <1>7, <1>8

LineStatuses == {"waitForRequest", "waitForHeader"}

\* What the sizes of a request have to do with each other.
SizeInv ==
    /\ status \in LineStatuses =>
          Len(lineBuffer) <= currentSize /\ ~boundary /\ bodySize = 0 /\ expected = 0
    /\ status \notin LineStatuses \union {"abort"} => lineBuffer = <<>>
    /\ status # "abort" /\ ~boundary => currentSize <= MaxSize
    /\ ~boundary => consumed - begun <= currentSize \/ SumOverflows
    /\ status = "waitForBody" =>
          /\ bodySize < expected \/ bodySize = 0
          /\ ~boundary => currentSize - bodySize + expected <= MaxSize \/ SumOverflows
          /\ boundary => expected <= MaxMultiPartSize
    /\ SizeBounded

\* k bytes are taken from the socket and appended to what has been read of the line.
Taking(line, k) ==
    /\ k \in 1 .. Available /\ k <= LineLimit
    /\ line \in Seq(Bytes) /\ Len(line) = Len(lineBuffer) + k
    /\ \A i \in 1 .. Len(lineBuffer) : line[i] = lineBuffer[i]
    /\ \A i \in 1 .. k : line[Len(lineBuffer) + i] = stream[consumed + i]
    /\ \A i \in 1 .. k - 1 : stream[consumed + i].kind # "lf"
    /\ stream[consumed + k].kind = "lf" \/ k = LineLimit \/ k = Available
    /\ consumed' = consumed + k
    /\ currentSize' = currentSize + Len(lineBuffer) + k
    /\ lineEndCut' \in BOOLEAN
    /\ ~ lineEndCut' => ~ lineEndCut /\ stream[consumed'].kind # "cr"

LEMMA LineTaken ==
  ASSUME TypeOK, SizeInv, Available > 0, status \in LineStatuses,
         NEW line, TakeLine(line)
  PROVE  \E k \in 1 .. Available : Taking(line, k)
  <1> DEFINE new == ReadLine(LineLimit)
             k   == Len(new)
  <1>1. currentSize \in Nat /\ MaxSize \in Nat /\ currentSize <= MaxSize
    <2>1. currentSize \in Int /\ Len(lineBuffer) \in Nat /\ MaxSize \in Nat
      BY DEF TypeOK
    <2>2. Len(lineBuffer) <= currentSize /\ currentSize <= MaxSize
      BY Zenon DEF SizeInv, LineStatuses
    <2> QED  BY <2>1, <2>2
  <1>2. LineLimit \in Nat \ {0}
    BY <1>1 DEF LineLimit
  <1>3. /\ new \in Seq(Bytes)
        /\ k \in 1 .. Available /\ k <= LineLimit
        /\ \A i \in 1 .. k : new[i] = stream[consumed + i]
        /\ \A i \in 1 .. k - 1 : new[i].kind # "lf"
        /\ new[k].kind = "lf" \/ k = LineLimit \/ k = Available
    BY <1>2, ReadLineTakes
  <1>4. line = lineBuffer \o new /\ consumed' = consumed + k
        /\ currentSize' = currentSize + Len(lineBuffer) + k
    BY DEF TakeLine
  <1>5. lineBuffer \in Seq(Bytes) /\ Len(lineBuffer) \in Nat /\ k \in Nat
    BY <1>3 DEF TypeOK
  <1> HIDE DEF new
  <1>6. /\ line \in Seq(Bytes) /\ Len(line) = Len(lineBuffer) + k
        /\ \A i \in 1 .. Len(lineBuffer) + k :
              line[i] = IF i <= Len(lineBuffer) THEN lineBuffer[i] ELSE new[i - Len(lineBuffer)]
    BY <1>3, <1>4, <1>5, ConcatProperties
  <1> HIDE DEF k
  <1>7. \A i \in 1 .. Len(lineBuffer) : line[i] = lineBuffer[i]
    BY <1>5, <1>6
  <1>8. \A i \in 1 .. k : line[Len(lineBuffer) + i] = new[i]
    <2> TAKE i \in 1 .. k
    <2>1. /\ Len(lineBuffer) + i \in 1 .. Len(lineBuffer) + k
          /\ ~ (Len(lineBuffer) + i <= Len(lineBuffer))
          /\ (Len(lineBuffer) + i) - Len(lineBuffer) = i
      BY <1>5
    <2> QED  BY <1>6, <2>1
  <1>9. k \in 1 .. k /\ \A i \in 1 .. k - 1 : i \in 1 .. k
    BY <1>3, <1>5
  <1>10. lineEndCut' = (lineEndCut \/ stream[consumed'].kind = "cr")
    BY DEF TakeLine
  <1>11. /\ lineEndCut' \in BOOLEAN
         /\ ~ lineEndCut' => ~ lineEndCut /\ stream[consumed'].kind # "cr"
    BY <1>10, Zenon
  <1> QED  BY <1>3, <1>4, <1>6, <1>7, <1>8, <1>9, <1>11 DEF Taking

\* A parser begins without headers.
LEMMA NoHeadersYet == DOMAIN <<>> \subseteq Int /\ <<>> \in [DOMAIN <<>> -> Bytes]
  OBVIOUS

LEMMA InitSize == Init => TypeOK /\ SizeInv
  <1> SUFFICES ASSUME Init PROVE TypeOK /\ SizeInv  OBVIOUS
  <1>1. stream \in Seq(Bytes) /\ Len(stream) \in Nat /\ <<>> \in Seq(Bytes) /\ Len(<<>>) = 0
    BY DEF Init
  <1>2. /\ stream \in Streams /\ received = 0 /\ lineEndCut = FALSE
        /\ consumed = 0 /\ begun = 0 /\ status = "waitForRequest" /\ lineBuffer = <<>>
        /\ currentSize = 0 /\ headers = <<>> /\ boundary = FALSE /\ expected = 0 /\ bodySize = 0
    BY DEF Init
  <1>3. 0 \in 0 .. Len(stream) /\ 0 \in 0 .. 0 /\ 0 \in Nat /\ MaxSize \in Nat
    BY <1>1
  <1>4. TypeOK
    <2>1. received \in 0 .. Len(stream) /\ consumed \in 0 .. received /\ begun \in 0 .. consumed
      BY <1>2, <1>3
    <2>2. DOMAIN headers \subseteq Int /\ headers \in [DOMAIN headers -> Bytes]
      BY <1>2, NoHeadersYet, Zenon
    <2>3. /\ lineEndCut \in BOOLEAN /\ boundary \in BOOLEAN
          /\ status \in Statuses /\ lineBuffer \in Seq(Bytes)
      BY <1>1, <1>2 DEF Statuses
    <2>4. currentSize \in Int /\ expected \in Int /\ bodySize \in Nat
      BY <1>2
    <2> QED  BY <1>2, <2>1, <2>2, <2>3, <2>4, Zenon DEF TypeOK
  <1>5. SizeInv
    BY <1>1, <1>2, <1>3 DEF SizeInv, SizeBounded, LineStatuses
  <1> QED  BY <1>4, <1>5

\* A line, or a part of it, keeps the sizes of the request within their bounds.
LEMMA LineSizes ==
  ASSUME TypeOK, SizeInv, status \in LineStatuses,
         NEW line, NEW k \in 1 .. Available, Taking(line, k)
  PROVE  /\ consumed \in Nat /\ consumed' \in 0 .. received /\ begun \in 0 .. consumed'
         /\ currentSize' \in Nat /\ Len(line) \in Nat /\ Len(line) <= currentSize'
         /\ consumed' - begun <= currentSize' /\ consumed' - begun <= MaxSize + 1
         /\ ~ boundary /\ bodySize = 0 /\ expected = 0
  <1>1. /\ consumed \in Nat /\ received \in Nat /\ begun \in Nat /\ begun <= consumed
        /\ currentSize \in Int /\ Len(lineBuffer) \in Nat /\ MaxSize \in Nat
    BY DEF TypeOK
  <1>2. /\ Len(lineBuffer) <= currentSize
        /\ ~boundary /\ consumed - begun <= currentSize /\ currentSize <= MaxSize /\ bodySize = 0
        /\ expected = 0
    <2>1. /\ Len(lineBuffer) <= currentSize /\ ~boundary /\ bodySize = 0 /\ expected = 0
          /\ status # "abort"
      BY Zenon DEF SizeInv, LineStatuses
    <2>2. ~ SumOverflows
      BY <1>1, <2>1 DEF SumOverflows, LimitsFit
    <2> QED  BY <2>1, <2>2, Zenon DEF SizeInv
  <1>3. /\ k \in Nat /\ k <= received - consumed /\ k <= MaxSize - currentSize + 1
        /\ consumed' = consumed + k /\ currentSize' = currentSize + Len(lineBuffer) + k
        /\ Len(line) = Len(lineBuffer) + k
    BY DEF Taking, LineLimit, Available
  <1> QED  BY <1>1, <1>2, <1>3

LEMMA PartOfLineSize ==
  ASSUME TypeOK, SizeInv, NEW st \in LineStatuses, ReadPartOfLine(st)
  PROVE  TypeOK' /\ SizeInv'
  <1> DEFINE line == lineBuffer \o ReadLine(LineLimit)
  <1>1. /\ Available > 0 /\ status = st /\ TakeLine(line)
        /\ lineBuffer' = line
        /\ status' = Checked(st, currentSize', FALSE)
        /\ UNCHANGED <<clientVars, begun, headers, boundary, expected, bodySize>>
    BY DEF ReadPartOfLine, CanRead
  <1> HIDE DEF line
  <1>2. PICK k \in 1 .. Available : Taking(line, k)
    BY <1>1, LineTaken
  <1>3. /\ consumed' \in 0 .. received /\ begun \in 0 .. consumed'
        /\ currentSize' \in Nat /\ Len(line) \in Nat /\ Len(line) <= currentSize'
        /\ consumed' - begun <= currentSize' /\ consumed' - begun <= MaxSize + 1
        /\ ~ boundary /\ bodySize = 0 /\ expected = 0
    BY <1>1, <1>2, LineSizes
  <1>4. line \in Seq(Bytes)
    BY <1>2 DEF Taking
  <1>5. status' \in {st, "abort"} /\ (status' = st => currentSize' <= MaxSize)
    BY <1>1, <1>3 DEF Checked, LineStatuses
  <1>6. TypeOK'
    <2>1. /\ stream' = stream /\ received' = received
          /\ begun' = begun /\ headers' = headers /\ boundary' = boundary
          /\ expected' = expected /\ bodySize' = bodySize
      BY <1>1 DEF clientVars
    <2>2. status' \in Statuses
      BY <1>5 DEF Statuses, LineStatuses
    <2>3. lineEndCut' \in BOOLEAN
      BY <1>2 DEF Taking
    <2>4. lineBuffer' \in Seq(Bytes) /\ currentSize' \in Int
      BY <1>1, <1>3, <1>4
    <2>5. /\ stream' \in Streams /\ received' \in 0 .. Len(stream')
          /\ consumed' \in 0 .. received' /\ begun' \in 0 .. consumed'
      BY <1>3, <2>1 DEF TypeOK
    <2>6. /\ DOMAIN headers' \subseteq Int /\ headers' \in [DOMAIN headers' -> Bytes]
          /\ boundary' \in BOOLEAN /\ expected' \in Int /\ bodySize' \in Nat
      BY <2>1 DEF TypeOK
    <2> QED  BY <2>2, <2>3, <2>4, <2>5, <2>6, Zenon DEF TypeOK
  <1>7. SizeInv'
    <2>1. /\ begun' = begun /\ boundary' = boundary /\ bodySize' = bodySize /\ lineBuffer' = line
          /\ expected' = 0
      BY <1>1, <1>3
    <2>2. consumed' \in Nat /\ begun \in Nat /\ MaxSize \in Nat
      BY <1>3 DEF TypeOK
    <2>3. Len(lineBuffer') <= currentSize' /\ consumed' - begun' <= currentSize'
      BY <1>3, <2>1
    <2>4. status' \in LineStatuses => currentSize' <= MaxSize
      BY <1>5 DEF LineStatuses
    <2>5. status' \in LineStatuses \union {"abort"} /\ status' # "waitForBody"
      BY <1>5 DEF LineStatuses
    <2>6. ~ boundary'
      BY <1>3, <2>1, Zenon
    <2>7. Len(lineBuffer') \in Nat /\ bodySize' = 0 /\ currentSize' \in Nat
      BY <1>3, <2>1
    <2>8. status' # "abort" => Len(lineBuffer') <= MaxSize
      BY <2>2, <2>3, <2>4, <2>5, <2>7
    <2>9. consumed' - begun' <= MaxSize + 1
      BY <1>3, <2>1
    <2>10. SizeBounded'
      BY <2>6, <2>8, <2>9, Zenon DEF SizeBounded
    <2>11. status' # "abort" => currentSize' <= MaxSize
      BY <2>4, <2>5
    <2> QED  BY <2>1, <2>3, <2>5, <2>6, <2>7, <2>10, <2>11 DEF SizeInv
  <1> QED  BY <1>6, <1>7

\* A whole line has been read, and is done with.
LEMMA WholeLineSize ==
  ASSUME TypeOK, SizeInv, status \in LineStatuses, NEW line, TakeLine(line), Available > 0,
         lineBuffer' = <<>>, UNCHANGED <<clientVars, begun, bodySize>>,
         DOMAIN headers' \subseteq Int, headers' \in [DOMAIN headers' -> Bytes],
         boundary' \in BOOLEAN, expected' \in Int, status' \in Statuses,
         status' \in LineStatuses => ~ boundary' /\ expected' = 0,
         ~ boundary' => status' = "abort" \/ currentSize' <= MaxSize,
         status' = "waitForBody" =>
            /\ ~ boundary' => expected' + currentSize' <= MaxSize \/ SumOverflows'
            /\ boundary' => expected' <= MaxMultiPartSize
  PROVE  TypeOK' /\ SizeInv'
  <1>1. PICK k \in 1 .. Available : Taking(line, k)
    BY LineTaken
  <1>2. /\ consumed' \in 0 .. received /\ begun \in 0 .. consumed'
        /\ currentSize' \in Nat
        /\ consumed' - begun <= currentSize' /\ consumed' - begun <= MaxSize + 1
        /\ bodySize = 0
    BY <1>1, LineSizes
  <1>3. <<>> \in Seq(Bytes) /\ Len(<<>>) = 0
    OBVIOUS
  <1>4. TypeOK'
    <2>1. /\ stream' = stream /\ received' = received
          /\ begun' = begun /\ bodySize' = bodySize
      BY DEF clientVars
    <2>2. lineEndCut' \in BOOLEAN
      BY <1>1 DEF Taking
    <2> QED  BY <1>2, <1>3, <2>1, <2>2 DEF TypeOK
  <1>5. SizeInv'
    <2>1. begun' = begun /\ bodySize' = 0 /\ lineBuffer' = <<>>
      BY <1>2
    <2>2. consumed' \in Nat /\ begun \in Nat /\ MaxSize \in Nat /\ MaxMultiPartSize \in Nat
          /\ expected' \in Int
      BY <1>2 DEF TypeOK
    <2>3. Len(lineBuffer') = 0 /\ currentSize' \in Nat
      BY <1>2, <1>3, <2>1
    <2>4. Len(lineBuffer') <= currentSize' /\ Len(lineBuffer') <= MaxSize
      BY <2>2, <2>3
    <2>5. consumed' - begun' <= currentSize' /\ consumed' - begun' <= MaxSize + 1
      BY <1>2, <2>1
    <2>6. bodySize' <= MaxMultiPartSize
      BY <2>1, <2>2
    <2>7. SizeBounded'
      BY <2>4, <2>5, <2>6, Zenon DEF SizeBounded
    <2>8. status' \in LineStatuses => ~ boundary' /\ bodySize' = 0 /\ expected' = 0
      BY <2>1, Zenon
    <2>9. status' = "waitForBody" => bodySize' < expected' \/ bodySize' = 0
      BY <2>1
    <2>10. status' = "waitForBody" /\ ~ boundary' =>
              currentSize' - bodySize' + expected' <= MaxSize \/ SumOverflows'
      <3>1. status' = "waitForBody" /\ ~ boundary' => expected' + currentSize' <= MaxSize \/ SumOverflows'
        BY Zenon
      <3>2. currentSize' - bodySize' + expected' = expected' + currentSize'
        BY <2>1, <2>2, <2>3
      <3> QED  BY <3>1, <3>2, Zenon
    <2>11. status' = "waitForBody" /\ boundary' => expected' <= MaxMultiPartSize
      OBVIOUS
    <2> QED  BY <2>1, <2>4, <2>5, <2>7, <2>8, <2>9, <2>10, <2>11, Zenon DEF SizeInv
  <1> QED  BY <1>4, <1>5

LEMMA RequestSize == ASSUME TypeOK, SizeInv, ReadRequest PROVE TypeOK' /\ SizeInv'
  <1> DEFINE line == lineBuffer \o ReadLine(LineLimit)
             next == IF IsBlank(line) THEN "waitForRequest"
                     ELSE IF line[1].kind = "request" THEN "waitForHeader" ELSE "abort"
  <1>1. /\ Available > 0 /\ status = "waitForRequest" /\ TakeLine(line)
        /\ lineBuffer' = <<>>
        /\ status' = Checked(next, currentSize', FALSE)
        /\ UNCHANGED <<clientVars, begun, headers, boundary, expected, bodySize>>
    BY DEF ReadRequest, CanRead
  <1>2. next \in LineStatuses \union {"abort"}
    BY DEF LineStatuses
  <1> HIDE DEF line, next
  <1>3. status' \in LineStatuses \union {"abort"} /\ (status' # "abort" => ~ (currentSize' > MaxSize))
    BY <1>1, <1>2 DEF Checked
  <1>4. ~ boundary /\ boundary' = boundary /\ headers' = headers /\ expected' = expected
    BY <1>1 DEF SizeInv, LineStatuses
  <1>5. currentSize' \in Nat /\ MaxSize \in Nat
    <2>1. PICK k \in 1 .. Available : Taking(line, k)
      BY <1>1, LineTaken DEF LineStatuses
    <2> QED  BY <1>1, <2>1, LineSizes DEF LineStatuses
  <1>6. status' = "abort" \/ currentSize' <= MaxSize
    BY <1>3, <1>5
  <1>7. status' \in Statuses /\ status' # "complete" /\ status' # "waitForBody"
    BY <1>3 DEF LineStatuses, Statuses
  <1>8. /\ DOMAIN headers' \subseteq Int /\ headers' \in [DOMAIN headers' -> Bytes]
        /\ boundary' \in BOOLEAN /\ expected' \in Int
    BY <1>4 DEF TypeOK
  <1>10. status \in LineStatuses
    BY <1>1 DEF LineStatuses
  <1>9. ~ boundary' /\ expected' = 0
    <2>1. ~ boundary /\ expected = 0
      BY <1>10, Zenon DEF SizeInv
    <2> QED  BY <1>4, <2>1, Zenon
  <1>11. UNCHANGED <<clientVars, begun, bodySize>>
    BY <1>1
  <1> QED  BY <1>1, <1>6, <1>7, <1>8, <1>9, <1>10, <1>11, WholeLineSize, Zenon

\* The first byte of a line that is not blank.
LEMMA FirstOfLine ==
  ASSUME NEW line \in Seq(Bytes), ~ IsBlank(line)
  PROVE  line[1] \in Bytes
  BY DEF IsBlank

LEMMA HeaderSize == ASSUME TypeOK, SizeInv, ReadHeader PROVE TypeOK' /\ SizeInv'
  <1> DEFINE line == lineBuffer \o ReadLine(LineLimit)
  <1>1. /\ Available > 0 /\ status = "waitForHeader" /\ TakeLine(line)
        /\ ~ IsBlank(line) /\ lineBuffer' = <<>>
        /\ headers' = Inserted(consumed' - Len(line) + 1, line[1])
        /\ status' = Checked("waitForHeader", currentSize', FALSE)
        /\ UNCHANGED <<clientVars, begun, boundary, expected, bodySize>>
    BY DEF ReadHeader, CanRead
  <1> HIDE DEF line
  <1>2. status \in LineStatuses
    BY <1>1 DEF LineStatuses
  <1>3. PICK k \in 1 .. Available : Taking(line, k)
    BY <1>1, <1>2, LineTaken
  <1>4. ~ boundary /\ boundary' = boundary /\ expected' = expected /\ expected = 0
    BY <1>1, <1>2 DEF SizeInv
  <1>5. currentSize' \in Nat /\ MaxSize \in Nat
    BY <1>2, <1>3, LineSizes
  <1>6. status' \in {"waitForHeader", "abort"} /\ (status' = "abort" \/ currentSize' <= MaxSize)
    BY <1>1, <1>5 DEF Checked
  <1>7. status' \in Statuses /\ status' # "complete" /\ status' # "waitForBody"
    BY <1>6 DEF Statuses
  <1>8. /\ DOMAIN headers' \subseteq Int /\ headers' \in [DOMAIN headers' -> Bytes]
        /\ boundary' \in BOOLEAN /\ expected' \in Int
    <2>1. line \in Seq(Bytes) /\ Len(line) \in Nat /\ consumed' \in Nat
      BY <1>2, <1>3, LineSizes DEF Taking
    <2>2. line[1] \in Bytes
      BY <1>1, <2>1, FirstOfLine
    <2> DEFINE i == consumed' - Len(line) + 1
    <2>3. i \in Int
      BY <2>1
    <2>4. headers' = Inserted(i, line[1])
      BY <1>1
    <2> HIDE DEF i
    <2>5. DOMAIN headers \subseteq Int /\ headers \in [DOMAIN headers -> Bytes]
      BY DEF TypeOK
    <2>6. DOMAIN headers' = DOMAIN headers \union {i}
      BY <2>4 DEF Inserted
    <2>7. headers' \in [DOMAIN headers \union {i} -> Bytes]
      BY <2>2, <2>4, <2>5 DEF Inserted
    <2> QED  BY <1>4, <2>3, <2>5, <2>6, <2>7 DEF TypeOK
  <1>9. ~ boundary' /\ expected' = 0
    BY <1>4, Zenon
  <1>10. UNCHANGED <<clientVars, begun, bodySize>>
    BY <1>1
  <1> QED  BY <1>1, <1>2, <1>6, <1>7, <1>8, <1>9, <1>10, WholeLineSize, Zenon

LEMMA EndOfHeadersSize == ASSUME TypeOK, SizeInv, EndOfHeaders PROVE TypeOK' /\ SizeInv'
  <1> DEFINE line == lineBuffer \o ReadLine(LineLimit)
  <1>1. /\ Available > 0 /\ status = "waitForHeader" /\ TakeLine(line)
        /\ lineBuffer' = <<>>
        /\ expected' = ToInt(ValueOf("length"))
        /\ boundary' = (ValueOf("type") = 1)
        /\ \E total \in Sums(expected', currentSize') :
              status' = Checked(AfterHeaders(total), currentSize', boundary')
        /\ UNCHANGED <<clientVars, begun, headers, bodySize>>
    BY DEF EndOfHeaders, CanRead
  <1> HIDE DEF line
  <1>2. expected' \in Int
    BY <1>1 DEF ToInt
  <1>3. boundary' \in BOOLEAN
    BY <1>1, Zenon
  <1>4. PICK total \in Sums(expected', currentSize') :
           status' = Checked(AfterHeaders(total), currentSize', boundary')
    BY <1>1
  <1> DEFINE next == AfterHeaders(total)
  <1>5. /\ next \in {"complete", "abort", "waitForBody"}
        /\ next = "waitForBody" =>
              /\ ~ boundary' => ~ (total > MaxSize)
              /\ boundary' => ~ (expected' > MaxMultiPartSize)
    BY Zenon DEF AfterHeaders
  <1> HIDE DEF next
  <1>6. status \in LineStatuses
    BY <1>1 DEF LineStatuses
  <1>7. PICK k \in 1 .. Available : Taking(line, k)
    BY <1>1, <1>6, LineTaken
  <1>8. currentSize' \in Nat /\ MaxSize \in Nat /\ MaxMultiPartSize \in Nat /\ bodySize = 0
    BY <1>6, <1>7, LineSizes
  <1>9. status' = "abort" \/ (status' = next /\ (~ boundary' => ~ (currentSize' > MaxSize)))
    BY <1>4, Zenon DEF Checked, next
  <1>10. ~ (currentSize' > MaxSize) => currentSize' <= MaxSize
    BY <1>8
  <1>11. ~ (expected' > MaxMultiPartSize) => expected' <= MaxMultiPartSize
    BY <1>2, <1>8
  <1>12. currentSize' <= MaxSize /\ ~ (total > MaxSize) =>
            expected' + currentSize' <= MaxSize \/ SumOverflows'
    <2>1. ASSUME NEW c \in Nat, NEW x \in Int, NEW t \in Sums(x, c),
                 c <= MaxSize, ~ (t > MaxSize), ~ (x > MaxInt - MaxSize)
          PROVE  x + c <= MaxSize
      <3>1. x + c <= MaxInt
        BY <2>1
      <3>2. t = x + c
        BY <2>1, <3>1, SumOf
      <3> QED  BY <2>1, <3>2
    <2> QED  BY <1>2, <1>4, <1>8, <2>1, Zenon DEF SumOverflows
  <1>13. status' \in {"complete", "abort", "waitForBody"}
    BY <1>5, <1>9
  <1>14. status' \in Statuses /\ status' \notin LineStatuses
    BY <1>13 DEF Statuses, LineStatuses
  <1>15. ~ boundary' => status' = "abort" \/ currentSize' <= MaxSize
    BY <1>9, <1>10, Zenon
  <1>16. status' = "waitForBody" =>
            /\ ~ boundary' => expected' + currentSize' <= MaxSize \/ SumOverflows'
            /\ boundary' => expected' <= MaxMultiPartSize
    <2>1. status' = "waitForBody" => next = "waitForBody" /\ (~ boundary' => currentSize' <= MaxSize)
      <3>1. "waitForBody" # "abort"
        OBVIOUS
      <3> QED  BY <1>9, <1>10, <3>1, Zenon
    <2> QED  BY <1>5, <1>11, <1>12, <2>1, Zenon
  <1>17. DOMAIN headers' \subseteq Int /\ headers' \in [DOMAIN headers' -> Bytes]
    BY <1>1 DEF TypeOK
  <1>18. UNCHANGED <<clientVars, begun, bodySize>>
    BY <1>1
  <1> QED  BY <1>1, <1>2, <1>3, <1>6, <1>14, <1>15, <1>16, <1>17, <1>18, WholeLineSize, Zenon

\* read(n) takes no more than there is, and nothing for a negative n.
LEMMA TakenRange ==
  ASSUME TypeOK, Available > 0, NEW n \in Int
  PROVE  /\ Taken(n) \in Nat /\ Taken(n) <= Available /\ consumed + Taken(n) \in 0 .. received
         /\ n >= 0 => Taken(n) <= n
         /\ n < 0 => Taken(n) = 0
  <1>1. consumed \in Nat /\ received \in Nat /\ consumed <= received
    BY DEF TypeOK
  <1> QED  BY <1>1 DEF Taken, Available

LEMMA BodySize == ASSUME TypeOK, SizeInv, ReadBody PROVE TypeOK' /\ SizeInv'
  <1> DEFINE n == Taken(expected - bodySize)
             next == IF BodyComplete(bodySize') THEN "complete" ELSE "waitForBody"
  <1>1. /\ Available > 0 /\ status = "waitForBody" /\ ~ boundary
        /\ consumed' = consumed + n
        /\ currentSize' \in Sums(currentSize, n)
        /\ bodySize' = bodySize + n
        /\ status' = Checked(next, currentSize', FALSE)
        /\ UNCHANGED <<clientVars, lineEndCut, begun, lineBuffer, headers, boundary, expected>>
    BY DEF ReadBody, CanRead
  <1>2. /\ consumed \in Nat /\ begun \in Nat /\ begun <= consumed /\ currentSize \in Int
        /\ expected \in Int /\ bodySize \in Nat /\ MaxSize \in Nat
    BY DEF TypeOK
  <1>3. /\ bodySize < expected \/ bodySize = 0
        /\ currentSize - bodySize + expected <= MaxSize \/ SumOverflows
        /\ consumed - begun <= currentSize \/ SumOverflows
        /\ currentSize <= MaxSize /\ lineBuffer = <<>> /\ Len(lineBuffer) = 0
    <2>1. lineBuffer = <<>>
      BY <1>1 DEF SizeInv, LineStatuses
    <2>2. status # "abort"
      BY <1>1
    <2>3. /\ bodySize < expected \/ bodySize = 0
          /\ currentSize - bodySize + expected <= MaxSize \/ SumOverflows
          /\ consumed - begun <= currentSize \/ SumOverflows
          /\ currentSize <= MaxSize
      BY <1>1, <2>2, Zenon DEF SizeInv
    <2> QED  BY <2>1, <2>3
  <1>4. expected - bodySize \in Int
    BY <1>2
  <1>5. /\ n \in Nat /\ consumed + n \in 0 .. received
        /\ expected - bodySize >= 0 => n <= expected - bodySize
        /\ expected - bodySize < 0 => n = 0
    BY <1>1, <1>4, TakenRange
  <1>6. next \in {"complete", "waitForBody"} /\ (next = "waitForBody" => ~ (bodySize' >= expected))
    BY DEF BodyComplete
  <1> HIDE DEF n, next
  <1>7. /\ status' \in {"abort", next} /\ (status' # "abort" => ~ (currentSize' > MaxSize))
        /\ ~ boundary' /\ boundary' = boundary /\ begun' = begun /\ lineBuffer' = <<>>
        /\ stream' = stream /\ received' = received /\ lineEndCut' = lineEndCut
        /\ headers' = headers /\ expected' = expected
    <2>1. boundary' = boundary
      BY <1>1
    <2>2. ~ boundary
      BY <1>1
    <2>3. ~ boundary'
      BY <2>1, <2>2, Zenon
    <2> QED  BY <1>1, <1>3, <2>1, <2>3 DEF Checked, clientVars
  <1>8. currentSize' \in Int /\ (currentSize + n <= MaxInt => currentSize' = currentSize + n)
    BY <1>1, <1>2, <1>5, SumOf
  <1>9. /\ consumed' \in 0 .. received /\ bodySize' \in Nat /\ begun' \in 0 .. consumed'
    BY <1>1, <1>2, <1>5, <1>7
  <1>10. SumOverflows' <=> SumOverflows
    BY <1>7, Zenon DEF SumOverflows
  <1>11. ASSUME ~ SumOverflows
         PROVE  /\ consumed' - begun' <= currentSize' /\ currentSize' <= MaxSize
                /\ expected - bodySize >= 0 => currentSize' - bodySize' + expected <= MaxSize
    <2>1. currentSize + n <= MaxSize
      BY <1>2, <1>3, <1>5, <1>11
    <2>2. MaxSize <= MaxInt /\ MaxInt \in Nat
      BY <1>2 DEF LimitsFit
    <2>3. currentSize' = currentSize + n
      BY <1>2, <1>5, <1>8, <2>1, <2>2
    <2> QED  BY <1>1, <1>2, <1>3, <1>5, <1>7, <1>11, <2>1, <2>3
  <1>12. TypeOK'
    BY <1>6, <1>7, <1>8, <1>9 DEF TypeOK, Statuses
  <1>13. SizeInv'
    <2>1. Len(lineBuffer') = 0 /\ Len(lineBuffer') <= MaxSize
      BY <1>2, <1>7
    <2>2. consumed' - begun' <= MaxSize + 1 \/ SumOverflows'
      <3>1. consumed' \in Nat /\ begun' \in Nat
        BY <1>9 DEF TypeOK
      <3>2. \A a, b, d \in Nat : \A c \in Int : a - b <= c /\ c <= d => a - b <= d + 1
        OBVIOUS
      <3> QED  BY <1>2, <1>8, <1>10, <1>11, <3>1, <3>2, Zenon
    <2>3. SizeBounded'
      BY <1>7, <2>1, <2>2, Zenon DEF SizeBounded
    <2>4. status' \notin LineStatuses
      BY <1>6, <1>7 DEF LineStatuses
    <2>5. status' # "abort" => currentSize' <= MaxSize
      BY <1>2, <1>7, <1>8
    <2>6. status' = "waitForBody" => bodySize' < expected'
      <3>1. expected' = expected
        BY <1>7
      <3>2. status' = "waitForBody" => ~ (bodySize' >= expected)
        <4>1. status' = "waitForBody" => next = "waitForBody"
          BY <1>7
        <4> QED  BY <1>6, <4>1, Zenon
      <3> QED  BY <1>2, <1>9, <3>1, <3>2
    <2>7. status' = "waitForBody" =>
             currentSize' - bodySize' + expected' <= MaxSize \/ SumOverflows'
      <3>2. expected' = expected
        BY <1>7
      <3>1. status' = "waitForBody" => expected - bodySize >= 0
        <4>1. bodySize' = bodySize + n
          BY <1>1
        <4>2. status' = "waitForBody" => bodySize + n < expected
          BY <2>6, <3>2, <4>1
        <4> QED  BY <1>2, <1>5, <4>2
      <3> QED  BY <1>10, <1>11, <3>1, <3>2, Zenon
    <2>8. consumed' - begun' <= currentSize' \/ SumOverflows'
      BY <1>10, <1>11, Zenon
    <2> QED  BY <1>7, <2>3, <2>4, <2>5, <2>6, <2>7, <2>8, Zenon DEF SizeInv
  <1> QED  BY <1>12, <1>13

LEMMA MultiPartSize == ASSUME TypeOK, SizeInv, ReadMultiPart PROVE TypeOK' /\ SizeInv'
  <1> DEFINE n == Taken(expected - bodySize)
             next == IF bodySize' >= MaxMultiPartSize THEN "abort"
                     ELSE IF BodyComplete(bodySize') THEN "complete" ELSE "waitForBody"
  <1>1. /\ Available > 0 /\ status = "waitForBody" /\ boundary
        /\ consumed' = consumed + n
        /\ bodySize' = bodySize + n
        /\ \E formFields \in 0 .. bodySize' :
              currentSize' = IF next = "complete" THEN currentSize + formFields ELSE currentSize
        /\ status' = Checked(next, currentSize', TRUE)
        /\ UNCHANGED <<clientVars, lineEndCut, begun, lineBuffer, headers, boundary, expected>>
    BY DEF ReadMultiPart, CanRead
  <1>2. /\ consumed \in Nat /\ begun \in Nat /\ begun <= consumed /\ currentSize \in Int
        /\ expected \in Int /\ bodySize \in Nat /\ MaxSize \in Nat /\ MaxMultiPartSize \in Nat
    BY DEF TypeOK
  <1>3. /\ bodySize < expected \/ bodySize = 0
        /\ expected <= MaxMultiPartSize /\ lineBuffer = <<>> /\ Len(lineBuffer) = 0
    <2>1. lineBuffer = <<>>
      BY <1>1 DEF SizeInv, LineStatuses
    <2>2. (bodySize < expected \/ bodySize = 0) /\ expected <= MaxMultiPartSize
      BY <1>1, Zenon DEF SizeInv
    <2> QED  BY <2>1, <2>2
  <1>4. expected - bodySize \in Int
    BY <1>2
  <1>5. /\ n \in Nat /\ consumed + n \in 0 .. received
        /\ expected - bodySize >= 0 => n <= expected - bodySize
        /\ expected - bodySize < 0 => n = 0
    BY <1>1, <1>4, TakenRange
  <1>6. /\ next \in {"abort", "complete", "waitForBody"}
        /\ next = "waitForBody" => ~ (bodySize' >= expected)
    BY DEF BodyComplete
  <1> HIDE DEF n, next
  <1>7. boundary' = boundary
    BY <1>1
  <1>8. boundary'
    <2>1. boundary
      BY <1>1
    <2> QED  BY <1>7, <2>1, Zenon
  <1>9. /\ status' \in {"abort", next} /\ begun' = begun /\ lineBuffer' = <<>>
        /\ stream' = stream /\ received' = received /\ lineEndCut' = lineEndCut
        /\ headers' = headers /\ expected' = expected
    BY <1>1, <1>3 DEF Checked, clientVars
  <1>10. /\ consumed' \in 0 .. received /\ bodySize' \in Nat /\ begun' \in 0 .. consumed'
         /\ bodySize' <= MaxMultiPartSize
    BY <1>1, <1>2, <1>3, <1>5, <1>9
  <1>11. currentSize' \in Int
    <2>1. PICK formFields \in 0 .. bodySize' :
             currentSize' = IF next = "complete" THEN currentSize + formFields ELSE currentSize
      BY <1>1
    <2>2. formFields \in Int
      OBVIOUS
    <2> QED  BY <1>2, <2>1, <2>2
  <1>12. TypeOK'
    BY <1>6, <1>7, <1>9, <1>10, <1>11 DEF TypeOK, Statuses
  <1>13. SizeInv'
    <2>1. Len(lineBuffer') = 0 /\ Len(lineBuffer') <= MaxSize
      BY <1>2, <1>9
    <2>2. SizeBounded'
      BY <1>8, <1>10, <2>1, Zenon DEF SizeBounded
    <2>3. status' \notin LineStatuses
      BY <1>6, <1>9 DEF LineStatuses
    <2>4. status' = "waitForBody" => bodySize' < expected'
      <3>1. status' = "waitForBody" => ~ (bodySize' >= expected)
        <4>1. status' = "waitForBody" => next = "waitForBody"
          BY <1>9
        <4> QED  BY <1>6, <4>1, Zenon
      <3> QED  BY <1>2, <1>9, <1>10, <3>1
    <2>5. expected' <= MaxMultiPartSize
      BY <1>3, <1>9
    <2> QED  BY <1>8, <1>9, <2>2, <2>3, <2>4, <2>5, Zenon DEF SizeInv
  <1> QED  BY <1>12, <1>13

LEMMA NewRequestSize == ASSUME TypeOK, SizeInv, NewRequest PROVE TypeOK' /\ SizeInv'
  <1>1. /\ begun' = consumed /\ status' = "waitForRequest" /\ lineBuffer' = <<>>
        /\ currentSize' = 0 /\ headers' = <<>> /\ boundary' = FALSE /\ expected' = 0 /\ bodySize' = 0
        /\ stream' = stream /\ received' = received /\ lineEndCut' = lineEndCut
        /\ consumed' = consumed
    BY DEF NewRequest, clientVars
  <1>2. consumed \in 0 .. consumed /\ consumed - consumed = 0 /\ consumed \in Nat /\ MaxSize \in Nat
        /\ <<>> \in Seq(Bytes) /\ Len(<<>>) = 0
    BY DEF TypeOK
  <1>3. TypeOK'
    <2>1. /\ consumed' \in 0 .. received' /\ received' \in 0 .. Len(stream')
          /\ stream' \in Streams /\ begun' \in 0 .. consumed'
      BY <1>1, <1>2 DEF TypeOK
    <2>2. DOMAIN headers' \subseteq Int /\ headers' \in [DOMAIN headers' -> Bytes]
      BY <1>1, NoHeadersYet, Zenon
    <2>3. /\ boundary' \in BOOLEAN /\ status' \in Statuses /\ lineBuffer' \in Seq(Bytes)
      BY <1>1, <1>2 DEF Statuses
    <2>4. lineEndCut' \in BOOLEAN
      BY <1>1 DEF TypeOK
    <2>5. currentSize' \in Int /\ expected' \in Int /\ bodySize' \in Nat
      BY <1>1
    <2> QED  BY <2>1, <2>2, <2>3, <2>4, <2>5, Zenon DEF TypeOK
  <1>4. SizeInv'
    BY <1>1, <1>2 DEF SizeInv, SizeBounded, LineStatuses
  <1> QED  BY <1>3, <1>4

LEMMA ReceiveSize == ASSUME TypeOK, SizeInv, Receive PROVE TypeOK' /\ SizeInv'
  <1>1. PICK n \in received + 1 .. Len(stream) : received' = n
    BY DEF Receive
  <1>2. /\ lineEndCut' = lineEndCut /\ stream' = stream /\ consumed' = consumed /\ begun' = begun /\ status' = status
        /\ lineBuffer' = lineBuffer /\ currentSize' = currentSize /\ headers' = headers
        /\ boundary' = boundary /\ expected' = expected /\ bodySize' = bodySize
    BY DEF Receive, parserVars
  <1>3. Len(stream) \in Nat /\ received' \in 0 .. Len(stream) /\ consumed \in 0 .. received'
    BY <1>1 DEF TypeOK
  <1>4. TypeOK'
    BY <1>2, <1>3 DEF TypeOK
  <1>5. SizeInv'
    BY <1>2, Zenon DEF SizeInv, SizeBounded, SumOverflows
  <1> QED  BY <1>4, <1>5

\* No step of the handler or of the client leads out of the types or the bounds.
LEMMA StepSize == TypeOK /\ SizeInv /\ [Next]_vars => TypeOK' /\ SizeInv'
  <1> SUFFICES ASSUME TypeOK, SizeInv, [Next]_vars PROVE TypeOK' /\ SizeInv'  OBVIOUS
  <1>1. CASE Receive
    BY <1>1, ReceiveSize
  <1>2. ASSUME NEW st \in LineStatuses, ReadPartOfLine(st) PROVE TypeOK' /\ SizeInv'
    BY <1>2, PartOfLineSize
  <1>3. CASE ReadRequest
    BY <1>3, RequestSize
  <1>4. CASE ReadHeader
    BY <1>4, HeaderSize
  <1>5. CASE EndOfHeaders
    BY <1>5, EndOfHeadersSize
  <1>6. CASE ReadBody
    BY <1>6, BodySize
  <1>7. CASE ReadMultiPart
    BY <1>7, MultiPartSize
  <1>8. CASE NewRequest
    BY <1>8, NewRequestSize
  <1>9. CASE UNCHANGED vars
    BY <1>9, Zenon DEF vars, clientVars, parserVars, TypeOK, SizeInv, SizeBounded, SumOverflows
  <1>10. "waitForRequest" \in LineStatuses /\ "waitForHeader" \in LineStatuses
    BY DEF LineStatuses
  <1> QED
    BY <1>1, <1>2, <1>3, <1>4, <1>5, <1>6, <1>7, <1>8, <1>9, <1>10, Zenon DEF Next, ReadFromSocket

\* Every variable of the parser keeps its type, whatever is sent and however it is cut.
THEOREM Typed == Spec => []TypeOK
  <1>1. TypeOK /\ SizeInv /\ [Next]_vars => (TypeOK /\ SizeInv)'
    BY StepSize
  <1> QED  BY <1>1, InitSize, PTL DEF Spec

\* readFromSocket(): a request makes the server read at most one byte more than
\* maxRequestSize and keep at most maxMultiPartSize of a multipart body, unless its
\* Content-Length is within maxRequestSize of the largest int.
THEOREM RequestsAreBounded == Spec => []SizeBounded
  <1>1. TypeOK /\ SizeInv /\ [Next]_vars => (TypeOK /\ SizeInv)'
    BY StepSize
  <1>2. SizeInv => SizeBounded
    BY DEF SizeInv
  <1> QED  BY <1>1, <1>2, InitSize, PTL DEF Spec

-----------------------------------------------------------------------------
(***************************************************************************)
(* Framing                                                                 *)
(***************************************************************************)

\* The headers f and one more, in the line that begins with the byte of place i.
WithHeader(f, i, byte) == [j \in DOMAIN f \union {i} |-> IF j = i THEN byte ELSE f[j]]

\* The last byte before the line that the parser is reading.
LineBegun == consumed - Len(lineBuffer)

\* What has been read of a line has no line end yet.
Unfinished(s, L, buffer) ==
    \A i \in 1 .. Len(buffer) : buffer[i] = s[L + i] /\ s[L + i].kind \notin {"cr", "lf"}

\* Where the parser is in the request with the ends h and e.
Within(h, e) ==
    /\ WholeRequest(stream, begun, h, e)
    /\ status = "waitForHeader" =>
          begun < LineBegun /\ LineBegun < h /\ stream[LineBegun].kind = "lf"
    /\ status = "waitForBody" => consumed = h + bodySize /\ expected = e - h
    /\ status = "complete" => consumed = e

\* The bytes behind L up to p are a line of the stream s.
IsLine(s, L, p) ==
    /\ L \in Nat /\ p \in L + 1 .. Len(s) /\ s[p].kind = "lf"
    /\ \A i \in L + 1 .. p - 1 : s[i].kind # "lf"

\* Unless the parser has lost its place, it began with a request, knows all headers
\* before the line it is reading, and is at home in the request.
Placed ==
    /\ begun < Len(stream) /\ IsStart(stream, begun + 1)
    /\ status # "abort" => headers = SentIn(stream, begun, LineBegun)
    /\ status \in LineStatuses => Unfinished(stream, LineBegun, lineBuffer)
    /\ status = "waitForRequest" => LineBegun = begun
    /\ status \notin {"abort", "waitForRequest"} =>
          /\ stream[begun + 1].kind = "request"
          /\ \E h \in begun + 4 .. Len(stream) : \E e \in h .. Len(stream) : Within(h, e)

FramingInv == ~ OutOfStep => Placed

\* The parser does not find its place again.
LEMMA InStep ==
  ASSUME TypeOK, NEW k \in Nat, consumed' = consumed + k, stream' = stream,
         ~ lineEndCut' => ~ lineEndCut, ~ OutOfStep', FramingInv
  PROVE  /\ Placed /\ ~ lineEndCut'
         /\ \A i \in 1 .. consumed' : stream[i].kind = "length" => ~ (stream[i].value > MaxInt)
  <1>1. ~ lineEndCut'
    BY Zenon DEF OutOfStep
  <1>2. \A i \in 1 .. consumed' : ~ (stream'[i].kind = "length" /\ stream'[i].value > MaxInt)
    BY Zenon DEF OutOfStep, LengthLost
  <1>3. consumed \in Nat
    BY DEF TypeOK
  <1>4. \A i \in 1 .. consumed : i \in 1 .. consumed'
    BY <1>3
  <1>5. ~ LengthLost
    BY <1>2, <1>4 DEF LengthLost
  <1>6. Placed
    BY <1>1, <1>5, Zenon DEF OutOfStep, FramingInv
  <1> QED  BY <1>1, <1>2, <1>6

\* Reading a line, in particular.
LEMMA LineInStep ==
  ASSUME TypeOK, NEW line, NEW k \in 1 .. Available, Taking(line, k), stream' = stream,
         ~ OutOfStep', FramingInv
  PROVE  /\ Placed /\ ~ lineEndCut'
         /\ \A i \in 1 .. consumed' : stream[i].kind = "length" => ~ (stream[i].value > MaxInt)
  <1>1. k \in Nat
    BY DEF TypeOK, Available
  <1>2. consumed' = consumed + k /\ (~ lineEndCut' => ~ lineEndCut)
    BY DEF Taking
  <1> QED  BY <1>1, <1>2, InStep, Zenon

\* The positions are numbers in this order.
LEMMA Positions ==
  ASSUME TypeOK, SizeInv, Placed
  PROVE  /\ stream \in Seq(Bytes) /\ Len(stream) \in Nat /\ consumed \in Nat /\ received \in Nat
         /\ begun \in Nat /\ begun <= consumed /\ consumed <= received /\ received <= Len(stream)
         /\ LineBegun = consumed - Len(lineBuffer) /\ Len(lineBuffer) \in Nat
         /\ status \in LineStatuses => LineBegun \in begun .. consumed
  <1>1. /\ stream \in Seq(Bytes) /\ Len(stream) \in Nat /\ consumed \in Nat /\ received \in Nat
        /\ begun \in Nat /\ begun <= consumed /\ consumed <= received /\ received <= Len(stream)
        /\ Len(lineBuffer) \in Nat
    BY DEF TypeOK
  <1>2. CASE status = "waitForRequest"
    <2>1. LineBegun = begun
      BY <1>2 DEF Placed
    <2> QED  BY <1>1, <2>1 DEF LineBegun
  <1>3. CASE status = "waitForHeader"
    <2>1. \E h, e : Within(h, e)
      BY <1>3 DEF Placed
    <2>2. begun < LineBegun
      BY <1>3, <2>1 DEF Within
    <2> QED  BY <1>1, <2>2 DEF LineBegun
  <1> QED  BY <1>1, <1>2, <1>3 DEF LineBegun, LineStatuses

\* The line, with what has been read of it before, is the next part of the stream.
LEMMA LineIsNext ==
  ASSUME TypeOK, SizeInv, Placed, status \in LineStatuses,
         NEW line, NEW k \in 1 .. Available, Taking(line, k)
  PROVE  /\ line \in Seq(Bytes) /\ Len(line) = consumed + k - LineBegun
         /\ consumed' = consumed + k
         /\ \A i \in 1 .. Len(line) : line[i] = stream[LineBegun + i]
  <1>1. /\ consumed \in Nat /\ LineBegun = consumed - Len(lineBuffer) /\ Len(lineBuffer) \in Nat
        /\ LineBegun \in Nat /\ k \in Nat
    BY Positions
  <1>2. /\ line \in Seq(Bytes) /\ Len(line) = Len(lineBuffer) + k /\ consumed' = consumed + k
        /\ \A i \in 1 .. Len(lineBuffer) : line[i] = lineBuffer[i]
        /\ \A i \in 1 .. k : line[Len(lineBuffer) + i] = stream[consumed + i]
    BY DEF Taking
  <1>3. \A i \in 1 .. Len(lineBuffer) : lineBuffer[i] = stream[LineBegun + i]
    BY DEF Placed, Unfinished
  <1>4. ASSUME NEW i \in 1 .. Len(line) PROVE line[i] = stream[LineBegun + i]
    <2>1. CASE i <= Len(lineBuffer)
      <3>1. i \in 1 .. Len(lineBuffer)
        BY <1>1, <1>2, <2>1
      <3> QED  BY <1>2, <1>3, <3>1
    <2>2. CASE ~ (i <= Len(lineBuffer))
      <3> DEFINE j == i - Len(lineBuffer)
      <3>1. j \in 1 .. k /\ Len(lineBuffer) + j = i /\ consumed + j = LineBegun + i
        BY <1>1, <1>2, <2>2
      <3> HIDE DEF j
      <3> QED  BY <1>2, <3>1
    <2> QED  BY <2>1, <2>2
  <1> QED  BY <1>1, <1>2, <1>4

\* A line with a line end, if its LF has not been left behind, ends with the first LF.
LEMMA LineIsWhole ==
  ASSUME TypeOK, SizeInv, WellFormed(stream), Placed, status \in LineStatuses,
         NEW line, NEW k \in 1 .. Available, Taking(line, k),
         ~ lineEndCut', HasLineEnd(line)
  PROVE  /\ IsLine(stream, LineBegun, consumed')
         /\ line \in Seq(Bytes) /\ Len(line) = consumed' - LineBegun
         /\ \A i \in 1 .. Len(line) : line[i] = stream[LineBegun + i]
  <1>1. /\ consumed \in Nat /\ LineBegun = consumed - Len(lineBuffer) /\ Len(lineBuffer) \in Nat
        /\ LineBegun \in Nat /\ begun <= LineBegun /\ LineBegun <= consumed /\ k \in Nat
        /\ received \in Nat /\ received <= Len(stream) /\ Len(stream) \in Nat
        /\ stream \in Seq(Bytes)
    BY Positions
  <1>2. /\ line \in Seq(Bytes) /\ Len(line) = consumed + k - LineBegun
        /\ consumed' = consumed + k
        /\ \A i \in 1 .. Len(line) : line[i] = stream[LineBegun + i]
    BY LineIsNext
  <1>3. k >= 1 /\ consumed + k <= received
    BY <1>1 DEF Available
  <1>4. \A j \in 1 .. k - 1 : stream[consumed + j].kind # "lf"
    BY DEF Taking
  <1>5. stream[consumed + k].kind # "cr"
    BY <1>2 DEF Taking
  <1>6. \A i \in LineBegun + 1 .. consumed : stream[i].kind \notin {"cr", "lf"}
    <2> TAKE i \in LineBegun + 1 .. consumed
    <2> DEFINE j == i - LineBegun
    <2>1. j \in 1 .. Len(lineBuffer) /\ LineBegun + j = i
      BY <1>1
    <2> HIDE DEF j
    <2> QED  BY <2>1 DEF Placed, Unfinished
  <1>7. \A i \in LineBegun + 1 .. consumed + k - 1 : stream[i].kind # "lf"
    <2> TAKE i \in LineBegun + 1 .. consumed + k - 1
    <2>1. CASE i <= consumed
      <3>1. i \in LineBegun + 1 .. consumed
        BY <1>1, <2>1
      <3> QED  BY <1>6, <3>1
    <2>2. CASE ~ (i <= consumed)
      <3> DEFINE j == i - consumed
      <3>1. j \in 1 .. k - 1 /\ consumed + j = i
        BY <1>1, <2>2
      <3> HIDE DEF j
      <3> QED  BY <1>4, <3>1
    <2> QED  BY <2>1, <2>2
  <1>8. PICK n \in DOMAIN line : line[n].kind \in {"cr", "lf"}
    BY DEF HasLineEnd
  <1> DEFINE end == LineBegun + n
  <1>9. /\ end \in LineBegun + 1 .. consumed + k /\ stream[end].kind \in {"cr", "lf"}
        /\ end \in DOMAIN stream
    <2>1. n \in 1 .. Len(line)
      BY <1>2, <1>8
    <2>2. line[n] = stream[end]
      BY <1>2, <2>1
    <2>3. end \in LineBegun + 1 .. consumed + k /\ end \in 1 .. Len(stream)
      BY <1>1, <1>2, <1>3, <2>1
    <2> QED  BY <1>1, <1>8, <2>2, <2>3
  <1> HIDE DEF end
  <1>10. stream[consumed + k].kind = "lf"
    <2>1. CASE stream[end].kind = "lf"
      <3>1. end = consumed + k
        BY <1>1, <1>7, <1>9, <2>1
      <3> QED  BY <2>1, <3>1
    <2>2. CASE stream[end].kind = "cr"
      <3>1. stream[end + 1].kind = "lf"
        BY <1>9, <2>2 DEF WellFormed
      <3>2. end # consumed + k
        BY <1>5, <2>2
      <3>3. end + 1 \in LineBegun + 1 .. consumed + k
        BY <1>1, <1>9, <3>2
      <3>4. ~ (end + 1 \in LineBegun + 1 .. consumed + k - 1)
        BY <1>7, <3>1
      <3>5. end + 1 = consumed + k
        BY <1>1, <3>3, <3>4
      <3> QED  BY <3>1, <3>5
    <2> QED  BY <1>9, <2>1, <2>2
  <1>11. consumed' \in LineBegun + 1 .. Len(stream)
    BY <1>1, <1>2, <1>3
  <1>12. IsLine(stream, LineBegun, consumed')
    <2>1. consumed' = consumed + k
      BY <1>2
    <2>2. \A i \in LineBegun + 1 .. consumed' - 1 : stream[i].kind # "lf"
      BY <1>1, <1>7, <2>1
    <2>3. stream[consumed'].kind = "lf" /\ LineBegun \in Nat
      BY <1>1, <1>10, <2>1
    <2> QED  BY <1>11, <2>2, <2>3 DEF IsLine
  <1>13. Len(line) = consumed' - LineBegun
    BY <1>1, <1>2
  <1> QED  BY <1>2, <1>12, <1>13

\* No headers.
LEMMA NoneSent ==
  ASSUME NEW s, NEW b, NEW p, \A i \in b + 1 .. p : s[i].kind \notin HeaderKinds
  PROVE  SentIn(s, b, p) = <<>>
  <1>1. {j \in b + 1 .. p : s[j].kind \in HeaderKinds} = {}
    OBVIOUS
  <1>2. SentIn(s, b, p) = [i \in {} |-> s[i]]
    BY <1>1 DEF SentIn
  <1> QED  BY <1>2

\* The same.
LEMMA SameSent ==
  ASSUME NEW s, NEW b, NEW L, NEW p,
         \A j : j \in b + 1 .. p /\ s[j].kind \in HeaderKinds
                <=> j \in b + 1 .. L /\ s[j].kind \in HeaderKinds
  PROVE  SentIn(s, b, p) = SentIn(s, b, L)
  <1>1. {j \in b + 1 .. p : s[j].kind \in HeaderKinds} = {j \in b + 1 .. L : s[j].kind \in HeaderKinds}
    OBVIOUS
  <1> QED  BY <1>1, Zenon DEF SentIn

\* The line that starts a request ends before the blank line and holds no header.
LEMMA AfterRequestLine ==
  ASSUME NEW s \in Seq(Bytes), NEW b \in Nat, NEW h \in b + 4 .. Len(s), NEW e \in h .. Len(s),
         WholeRequest(s, b, h, e), s[b + 1].kind = "request", NEW p, IsLine(s, b, p)
  PROVE  b < p /\ p < h /\ SentIn(s, b, p) = <<>>
  <1>1. /\ Len(s) \in Nat /\ h \in Nat /\ p \in Nat /\ p \in b + 1 .. Len(s)
        /\ s[p].kind = "lf" /\ \A i \in b + 1 .. p - 1 : s[i].kind # "lf"
    BY DEF IsLine
  <1>2. s[h - 2].kind = "lf"
    BY DEF WholeRequest
  <1>3. ~ (h - 2 \in b + 1 .. p - 1)
    BY <1>1, <1>2
  <1>4. p <= h - 2
    BY <1>1, <1>3
  <1>5. \A i \in b + 2 .. p : s[i].kind \notin HeaderKinds
    <2> TAKE i \in b + 2 .. p
    <2>1. i \in b + 2 .. h /\ i - 1 \in b + 1 .. p - 1
      BY <1>1, <1>4
    <2>2. s[i - 1].kind # "lf"
      BY <1>1, <2>1
    <2> QED  BY <2>1, <2>2 DEF WholeRequest
  <1>6. s[b + 1].kind \notin HeaderKinds
    BY DEF HeaderKinds
  <1>7. \A i \in b + 1 .. p : i = b + 1 \/ i \in b + 2 .. p
    BY <1>1
  <1>8. \A i \in b + 1 .. p : s[i].kind \notin HeaderKinds
    BY <1>5, <1>6, <1>7
  <1>9. SentIn(s, b, p) = <<>>
    BY <1>8, NoneSent
  <1> QED  BY <1>1, <1>4, <1>9

\* Any later line starts with a header, or it is the blank one.
LEMMA AfterHeaderLine ==
  ASSUME NEW s \in Seq(Bytes), NEW b \in Nat, NEW h \in b + 4 .. Len(s), NEW e \in h .. Len(s),
         WholeRequest(s, b, h, e),
         NEW L, NEW p, IsLine(s, L, p), b < L, L < h, s[L].kind = "lf"
  PROVE  \/ /\ s[L + 1].kind \in HeaderKinds /\ p < h
            /\ SentIn(s, b, p) = WithHeader(SentIn(s, b, L), L + 1, s[L + 1])
         \/ L = h - 2 /\ p = h /\ s[L + 1].kind = "cr" /\ SentIn(s, b, L) = SentIn(s, b, h)
  <1>1. /\ Len(s) \in Nat /\ h \in Nat /\ p \in Nat /\ L \in Nat /\ L + 1 <= p
        /\ p \in L + 1 .. Len(s)
    BY DEF IsLine
  <1>9. s[p].kind = "lf" /\ \A i \in L + 1 .. p - 1 : s[i].kind # "lf"
    BY DEF IsLine
  <1>2. s[h - 2].kind = "lf" /\ s[h - 1].kind = "cr" /\ s[h].kind = "lf"
    BY DEF WholeRequest
  <1>3. L # h - 1
    BY <1>2
  <1>4. \A i \in b + 2 .. h : s[i].kind \in HeaderKinds <=> s[i - 1].kind = "lf" /\ i <= h - 2
    BY DEF WholeRequest
  <1>5. CASE L = h - 2
    <2>1. L + 1 = h - 1 /\ s[L + 1].kind = "cr" /\ s[L + 1].kind # "lf"
      BY <1>1, <1>2, <1>5
    <2>2. p # L + 1
      BY <1>9, <2>1
    <2>3. ~ (h \in L + 1 .. p - 1)
      BY <1>9, <1>2
    <2>4. p = h
      BY <1>1, <1>5, <2>2, <2>3
    <2>5. s[h - 1].kind \notin HeaderKinds /\ s[h].kind \notin HeaderKinds
      BY <1>2 DEF HeaderKinds
    <2>6. \A i \in b + 1 .. h : i \in b + 1 .. L \/ i = h - 1 \/ i = h
      BY <1>1, <1>5
    <2>7. \A i \in b + 1 .. L : i \in b + 1 .. h
      BY <1>1, <1>5
    <2>8. SentIn(s, b, L) = SentIn(s, b, h)
      <3>1. \A j : j \in b + 1 .. L /\ s[j].kind \in HeaderKinds
                   <=> j \in b + 1 .. h /\ s[j].kind \in HeaderKinds
        BY <2>5, <2>6, <2>7
      <3> QED  BY <3>1, SameSent, Zenon
    <2> QED  BY <1>5, <2>1, <2>4, <2>8
  <1>6. CASE L # h - 2
    <2>1. L + 1 \in b + 2 .. h /\ (L + 1) - 1 = L /\ L + 1 <= h - 2
      BY <1>1, <1>3, <1>6
    <2>2. s[L + 1].kind \in HeaderKinds
      BY <1>4, <2>1
    <2>3. ~ (h - 2 \in L + 1 .. p - 1)
      BY <1>9, <1>2
    <2>4. p <= h - 2
      BY <1>1, <2>1, <2>3
    <2>5. \A i \in L + 2 .. p : s[i].kind \notin HeaderKinds
      <3> TAKE i \in L + 2 .. p
      <3>1. i \in b + 2 .. h /\ i - 1 \in L + 1 .. p - 1
        BY <1>1, <2>4
      <3> QED  BY <1>9, <1>4, <3>1
    <2>6. \A i \in b + 1 .. p : i \in b + 1 .. L \/ i = L + 1 \/ i \in L + 2 .. p
      BY <1>1
    <2>7. L + 1 \in b + 1 .. p /\ \A i \in b + 1 .. L : i \in b + 1 .. p
      BY <1>1
    <2>8. SentIn(s, b, p) = WithHeader(SentIn(s, b, L), L + 1, s[L + 1])
      <3>1. \A j : j \in b + 1 .. p /\ s[j].kind \in HeaderKinds
                   <=> j = L + 1 \/ (j \in b + 1 .. L /\ s[j].kind \in HeaderKinds)
        BY <2>2, <2>5, <2>6, <2>7
      <3> DEFINE D == {j \in b + 1 .. L : s[j].kind \in HeaderKinds}
                 E == {j \in b + 1 .. p : s[j].kind \in HeaderKinds}
      <3>2. E = D \union {L + 1}
        BY <3>1
      <3>3. SentIn(s, b, L) = [j \in D |-> s[j]] /\ SentIn(s, b, p) = [j \in E |-> s[j]]
        BY DEF SentIn
      <3> HIDE DEF D, E
      <3> QED  BY <3>2, <3>3 DEF WithHeader
    <2> QED  BY <1>1, <2>2, <2>4, <2>8
  <1> QED  BY <1>5, <1>6

\* The body holds no headers.
LEMMA BodyHasNoHeaders ==
  ASSUME NEW s \in Seq(Bytes), NEW b \in Nat, NEW h \in b + 4 .. Len(s), NEW e \in h .. Len(s),
         WholeRequest(s, b, h, e), NEW j \in h .. e
  PROVE  SentIn(s, b, j) = SentIn(s, b, h)
  <1>1. Len(s) \in Nat /\ h \in Nat /\ j \in Nat /\ h <= j
    OBVIOUS
  <1>2. \A i \in h + 1 .. j : s[i].kind \notin HeaderKinds
    <2> TAKE i \in h + 1 .. j
    <2>1. i \in h + 1 .. e
      BY <1>1
    <2>2. s[i].kind = "body"
      BY <2>1 DEF WholeRequest
    <2> QED  BY <2>2 DEF HeaderKinds
  <1>3. \A i \in b + 1 .. j : i \in b + 1 .. h \/ i \in h + 1 .. j
    BY <1>1
  <1>4. \A i \in b + 1 .. h : i \in b + 1 .. j
    BY <1>1
  <1>5. \A i : i \in b + 1 .. j /\ s[i].kind \in HeaderKinds
               <=> i \in b + 1 .. h /\ s[i].kind \in HeaderKinds
    BY <1>2, <1>3, <1>4
  <1> QED  BY <1>5, SameSent, Zenon

\* The headers of a whole request give the length of its body.
LEMMA LengthOfBody ==
  ASSUME TypeOK, NEW h \in begun + 4 .. Len(stream), NEW e \in h .. Len(stream),
         WholeRequest(stream, begun, h, e), headers = SentIn(stream, begun, h),
         \A i \in begun + 1 .. h : stream[i].kind = "length" => ~ (stream[i].value > MaxInt)
  PROVE  ToInt(ValueOf("length")) = e - h
  <1> DEFINE S == LinesOf("length")
  <1>1. begun \in Nat /\ Len(stream) \in Nat /\ h \in Nat /\ e \in Nat /\ h <= e /\ MaxInt \in Nat
    BY DEF TypeOK
  <1>2. S = {i \in begun + 1 .. h : stream[i].kind = "length"}
    BY DEF LinesOf, SentIn, HeaderKinds
  <1>3. \A i \in S : headers[i] = stream[i] /\ stream[i].value = e - h /\ ~ (stream[i].value > MaxInt)
    <2> TAKE i \in S
    <2>1. i \in begun + 1 .. h /\ stream[i].kind = "length"
      BY <1>2
    <2>2. headers[i] = stream[i]
      BY <2>1 DEF SentIn, HeaderKinds
    <2>3. stream[i].value = e - h
      BY <2>1 DEF WholeRequest
    <2> QED  BY <2>1, <2>2, <2>3
  <1> HIDE DEF S
  <1>4. CASE S = {}
    <2>1. e = h
      BY <1>2, <1>4 DEF WholeRequest
    <2>2. e - h = 0
      BY <1>1, <2>1
    <2>3. ValueOf("length") = 0
      BY <1>4 DEF ValueOf, S
    <2>4. 0 \in -MaxInt - 1 .. MaxInt
      BY <1>1
    <2> QED  BY <2>2, <2>3, <2>4 DEF ToInt
  <1>5. CASE S # {}
    <2>1. S \in SUBSET Nat /\ \A i \in S : i <= h
      BY <1>1, <1>2
    <2>2. Max(S) \in S
      BY <1>1, <1>5, <2>1, MaxOf
    <2>3. ValueOf("length") = headers[Max(S)].value
      BY <1>5 DEF ValueOf, S
    <2>4. ValueOf("length") = e - h /\ ~ (e - h > MaxInt)
      BY <1>3, <2>2, <2>3
    <2>5. e - h \in -MaxInt - 1 .. MaxInt
      BY <1>1, <2>4
    <2> QED  BY <2>4, <2>5 DEF ToInt
  <1> QED  BY <1>4, <1>5

\* A request in whose middle the parser is.
LEMMA InRequest ==
  ASSUME TypeOK, Placed, status \notin {"abort", "waitForRequest"}
  PROVE  \E h \in begun + 4 .. Len(stream) : \E e \in h .. Len(stream) : Within(h, e)
  BY DEF Placed

LEMMA InitFraming == ASSUME Init, \A s \in Streams : WellFormed(s) PROVE FramingInv
  <1>1. /\ stream \in Streams /\ consumed = 0 /\ begun = 0 /\ status = "waitForRequest"
        /\ lineBuffer = <<>> /\ headers = <<>>
    BY DEF Init
  <1>2. stream \in Seq(Bytes) /\ IsStart(stream, 1) /\ Len(<<>>) = 0
    BY <1>1 DEF WellFormed
  <1>3. 0 < Len(stream) /\ IsStart(stream, begun + 1)
    <2>1. Len(stream) \in Nat /\ DOMAIN stream = 1 .. Len(stream) /\ begun + 1 = 1
      BY <1>1, <1>2
    <2>2. 1 \in DOMAIN stream
      BY <1>2 DEF IsStart
    <2> QED  BY <1>2, <2>1, <2>2
  <1>4. LineBegun = 0
    <2>1. Len(lineBuffer) = 0 /\ 0 - 0 = 0
      BY <1>1, <1>2
    <2> QED  BY <1>1, <2>1, Zenon DEF LineBegun
  <1>5. headers = SentIn(stream, begun, LineBegun)
    <2>1. \A i \in begun + 1 .. LineBegun : FALSE
      BY <1>1, <1>4
    <2> QED  BY <1>1, <2>1, NoneSent
  <1>6. Unfinished(stream, LineBegun, lineBuffer)
    BY <1>1, <1>2 DEF Unfinished
  <1> QED  BY <1>1, <1>3, <1>4, <1>5, <1>6 DEF FramingInv, Placed

LEMMA PartOfLineFraming ==
  ASSUME TypeOK, SizeInv, FramingInv, NEW st \in LineStatuses, ReadPartOfLine(st)
  PROVE  FramingInv'
  <1> SUFFICES ASSUME ~ OutOfStep' PROVE Placed'
    BY DEF FramingInv
  <1> DEFINE line == lineBuffer \o ReadLine(LineLimit)
  <1>1. /\ Available > 0 /\ status = st /\ TakeLine(line) /\ ~ HasLineEnd(line)
        /\ lineBuffer' = line
        /\ status' = Checked(st, currentSize', FALSE)
        /\ stream' = stream /\ begun' = begun /\ headers' = headers
    BY DEF ReadPartOfLine, CanRead, clientVars
  <1> HIDE DEF line
  <1>2. PICK k \in 1 .. Available : Taking(line, k)
    BY <1>1, LineTaken
  <1>3. Placed
    BY <1>1, <1>2, LineInStep
  <1>4. /\ line \in Seq(Bytes) /\ Len(line) = consumed + k - LineBegun
        /\ consumed' = consumed + k
        /\ \A i \in 1 .. Len(line) : line[i] = stream[LineBegun + i]
    BY <1>1, <1>2, <1>3, LineIsNext
  <1>5. LineBegun' = LineBegun
    <2>1. LineBegun \in Nat /\ consumed \in Nat /\ k \in Nat
      BY <1>1, <1>3, Positions
    <2> QED  BY <1>1, <1>4, <2>1 DEF LineBegun
  <1>6. Unfinished(stream, LineBegun, line)
    BY <1>1, <1>4 DEF Unfinished, HasLineEnd
  <1>7. status' \in {st, "abort"} /\ st \in {"waitForRequest", "waitForHeader"}
    BY <1>1 DEF Checked, LineStatuses
  <1>8. status' # "abort" => headers' = SentIn(stream', begun', LineBegun')
    <2>1. headers = SentIn(stream, begun, LineBegun)
      BY <1>1, <1>3, <1>7 DEF Placed
    <2> QED  BY <1>1, <1>5, <2>1
  <1>9. Unfinished(stream', LineBegun', lineBuffer')
    BY <1>1, <1>5, <1>6
  <1>10. status' = "waitForRequest" => LineBegun' = begun'
    BY <1>1, <1>3, <1>5, <1>7 DEF Placed
  <1>11. begun' < Len(stream') /\ IsStart(stream', begun' + 1)
    BY <1>1, <1>3 DEF Placed
  <1>12. ASSUME status' \notin {"abort", "waitForRequest"}
         PROVE  /\ stream'[begun' + 1].kind = "request"
                /\ \E h \in begun' + 4 .. Len(stream') : \E e \in h .. Len(stream') : Within(h, e)'
    <2>1. status' = "waitForHeader" /\ status = "waitForHeader"
      BY <1>1, <1>7, <1>12
    <2>2. PICK h \in begun + 4 .. Len(stream) : \E e \in h .. Len(stream) : Within(h, e)
      BY <1>3, <2>1, InRequest
    <2>3. PICK e \in h .. Len(stream) : Within(h, e)
      BY <2>2
    <2>4. Within(h, e)'
      BY <1>1, <1>5, <2>1, <2>3 DEF Within
    <2>5. stream[begun + 1].kind = "request"
      BY <1>3, <2>1 DEF Placed
    <2> QED  BY <1>1, <2>4, <2>5
  <1> QED  BY <1>8, <1>9, <1>10, <1>11, <1>12 DEF Placed

\* The line was the first one of a request.
LEMMA RequestFraming ==
  ASSUME TypeOK, SizeInv, WellFormed(stream), FramingInv, ReadRequest
  PROVE  FramingInv'
  <1> SUFFICES ASSUME ~ OutOfStep' PROVE Placed'
    BY DEF FramingInv
  <1> DEFINE line == lineBuffer \o ReadLine(LineLimit)
             next == IF IsBlank(line) THEN "waitForRequest"
                     ELSE IF line[1].kind = "request" THEN "waitForHeader" ELSE "abort"
  <1>1. /\ Available > 0 /\ status = "waitForRequest" /\ TakeLine(line) /\ HasLineEnd(line)
        /\ lineBuffer' = <<>>
        /\ status' = Checked(next, currentSize', FALSE)
        /\ stream' = stream /\ begun' = begun /\ headers' = headers
    BY DEF ReadRequest, CanRead, clientVars
  <1> HIDE DEF line
  <1>2. status \in LineStatuses
    BY <1>1 DEF LineStatuses
  <1>3. PICK k \in 1 .. Available : Taking(line, k)
    BY <1>1, <1>2, LineTaken
  <1>4. Placed /\ ~ lineEndCut'
    BY <1>1, <1>3, LineInStep
  <1>5. /\ IsLine(stream, LineBegun, consumed')
        /\ line \in Seq(Bytes) /\ Len(line) = consumed' - LineBegun
        /\ \A i \in 1 .. Len(line) : line[i] = stream[LineBegun + i]
    BY <1>1, <1>2, <1>3, <1>4, LineIsWhole
  <1>6. LineBegun = begun /\ headers = SentIn(stream, begun, begun) /\ begun < Len(stream)
        /\ IsStart(stream, begun + 1)
    BY <1>1, <1>4 DEF Placed
  <1>7. /\ begun \in Nat /\ Len(stream) \in Nat /\ stream \in Seq(Bytes)
        /\ consumed' \in Nat /\ consumed' \in begun + 1 .. Len(stream)
        /\ stream[consumed'].kind = "lf"
    <2>1. begun \in Nat /\ Len(stream) \in Nat /\ stream \in Seq(Bytes)
      BY <1>4, Positions
    <2>2. consumed' \in begun + 1 .. Len(stream) /\ stream[consumed'].kind = "lf"
      BY <1>5, <1>6, Zenon DEF IsLine
    <2> QED  BY <2>1, <2>2
  <1>8. LineBegun' = consumed'
    <2>1. Len(lineBuffer') = 0
      BY <1>1
    <2>2. consumed' \in Nat
      BY <1>7
    <2>3. \A x \in Nat : x - 0 = x
      OBVIOUS
    <2> QED  BY <2>1, <2>2, <2>3, Zenon DEF LineBegun
  <1>9. 1 \in 1 .. Len(line) /\ line[1] = stream[begun + 1]
    <2> DEFINE p == consumed'
    <2>1. Len(line) = p - begun /\ begun \in Nat /\ p \in Nat /\ p \in begun + 1 .. Len(stream)
      BY <1>5, <1>6, <1>7, Zenon
    <2>2. Len(stream) \in Nat
      BY <1>7
    <2> HIDE DEF p
    <2>3. 1 \in 1 .. Len(line)
      BY <2>1, <2>2
    <2> QED  BY <1>5, <1>6, <2>3
  <1>10. ~ IsBlank(line)
    BY <1>5, <1>6, <1>9 DEF IsBlank, IsStart
  <1>11. next = IF stream[begun + 1].kind = "request" THEN "waitForHeader" ELSE "abort"
    BY <1>9, <1>10
  <1> HIDE DEF next
  <1>12. /\ status' \in {"waitForHeader", "abort"}
         /\ status' = "waitForHeader" => stream[begun + 1].kind = "request"
    BY <1>1, <1>11 DEF Checked
  <1>13. headers = <<>>
    <2>1. \A i \in begun + 1 .. begun : FALSE
      BY <1>7
    <2> QED  BY <1>6, <2>1, NoneSent
  <1>14. begun' < Len(stream') /\ IsStart(stream', begun' + 1)
    BY <1>1, <1>6
  <1>15. Unfinished(stream', LineBegun', lineBuffer')
    BY <1>1 DEF Unfinished
  <1>16. CASE status' = "abort"
    BY <1>14, <1>16 DEF Placed, LineStatuses
  <1>17. CASE status' = "waitForHeader"
    <2>1. stream[begun + 1].kind = "request" /\ begun \in 0 .. Len(stream) - 1
      BY <1>6, <1>7, <1>12, <1>17
    <2>2. PICK h \in begun + 4 .. Len(stream) :
             \E e \in h .. Len(stream) : WholeRequest(stream, begun, h, e)
      BY <2>1 DEF WellFormed
    <2>3. PICK e \in h .. Len(stream) : WholeRequest(stream, begun, h, e)
      BY <2>2
    <2>4. begun < consumed' /\ consumed' < h /\ SentIn(stream, begun, consumed') = <<>>
      <3> DEFINE p == consumed'
      <3>1. IsLine(stream, begun, p)
        BY <1>5, <1>6
      <3> HIDE DEF p
      <3>2. begun < p /\ p < h /\ SentIn(stream, begun, p) = <<>>
        BY <1>7, <2>1, <2>3, <3>1, AfterRequestLine
      <3> QED  BY <3>2 DEF p
    <2>5. Within(h, e)'
      BY <1>1, <1>7, <1>8, <1>17, <2>3, <2>4 DEF Within
    <2>6. headers' = SentIn(stream', begun', LineBegun')
      BY <1>1, <1>8, <1>13, <2>4
    <2>7. /\ stream'[begun' + 1].kind = "request"
          /\ \E x \in begun' + 4 .. Len(stream') : \E y \in x .. Len(stream') : Within(x, y)'
      BY <1>1, <2>1, <2>5
    <2> QED  BY <1>14, <1>15, <1>17, <2>6, <2>7 DEF Placed
  <1> QED  BY <1>12, <1>16, <1>17

\* The line was a header.
LEMMA HeaderFraming ==
  ASSUME TypeOK, SizeInv, WellFormed(stream), FramingInv, ReadHeader
  PROVE  FramingInv'
  <1> SUFFICES ASSUME ~ OutOfStep' PROVE Placed'
    BY DEF FramingInv
  <1> DEFINE line == lineBuffer \o ReadLine(LineLimit)
             L    == LineBegun
             p    == consumed'
  <1>1. /\ Available > 0 /\ status = "waitForHeader" /\ TakeLine(line) /\ HasLineEnd(line)
        /\ ~ IsBlank(line) /\ lineBuffer' = <<>>
        /\ headers' = Inserted(consumed' - Len(line) + 1, line[1])
        /\ status' = Checked("waitForHeader", currentSize', FALSE)
        /\ stream' = stream /\ begun' = begun
    BY DEF ReadHeader, CanRead, clientVars
  <1> HIDE DEF line
  <1>2. status \in LineStatuses
    BY <1>1 DEF LineStatuses
  <1>3. PICK k \in 1 .. Available : Taking(line, k)
    BY <1>1, <1>2, LineTaken
  <1>4. Placed /\ ~ lineEndCut'
    BY <1>1, <1>3, LineInStep
  <1>5. /\ IsLine(stream, L, p)
        /\ line \in Seq(Bytes) /\ Len(line) = p - L
        /\ \A i \in 1 .. Len(line) : line[i] = stream[L + i]
    BY <1>1, <1>2, <1>3, <1>4, LineIsWhole
  <1>6. /\ begun \in Nat /\ Len(stream) \in Nat /\ stream \in Seq(Bytes)
        /\ L \in Nat /\ p \in Nat /\ p \in L + 1 .. Len(stream) /\ stream[p].kind = "lf"
    <2>1. begun \in Nat /\ Len(stream) \in Nat /\ stream \in Seq(Bytes)
      BY <1>4, Positions
    <2>2. L \in Nat /\ p \in L + 1 .. Len(stream) /\ stream[p].kind = "lf"
      BY <1>5, Zenon DEF IsLine
    <2> QED  BY <2>1, <2>2
  <1>7. LineBegun' = p
    <2>1. Len(lineBuffer') = 0
      BY <1>1
    <2>2. consumed' \in Nat
      BY <1>6
    <2>3. \A x \in Nat : x - 0 = x
      OBVIOUS
    <2> QED  BY <2>1, <2>2, <2>3, Zenon DEF LineBegun
  <1>8. PICK h \in begun + 4 .. Len(stream) : \E e \in h .. Len(stream) : Within(h, e)
    BY <1>1, <1>4, InRequest
  <1>9. PICK e \in h .. Len(stream) : Within(h, e)
    BY <1>8
  <1>10. /\ WholeRequest(stream, begun, h, e)
         /\ begun < L /\ L < h /\ stream[L].kind = "lf"
    BY <1>1, <1>9 DEF Within
  <1>11. /\ stream[begun + 1].kind = "request" /\ headers = SentIn(stream, begun, L)
         /\ begun < Len(stream) /\ IsStart(stream, begun + 1)
    BY <1>1, <1>4 DEF Placed
  <1> HIDE DEF L, p
  <1>12. 1 \in 1 .. Len(line) /\ line[1] = stream[L + 1]
    BY <1>5, <1>6
  <1>13. \/ /\ stream[L + 1].kind \in HeaderKinds /\ p < h
            /\ SentIn(stream, begun, p) = WithHeader(SentIn(stream, begun, L), L + 1, stream[L + 1])
         \/ L = h - 2 /\ p = h /\ stream[L + 1].kind = "cr"
            /\ SentIn(stream, begun, L) = SentIn(stream, begun, h)
    <2>1. stream \in Seq(Bytes) /\ begun \in Nat /\ IsLine(stream, L, p)
      BY <1>5, <1>6
    <2>2. WholeRequest(stream, begun, h, e) /\ begun < L /\ L < h /\ stream[L].kind = "lf"
      BY <1>10
    <2> QED  BY <2>1, <2>2, AfterHeaderLine, SMTT(30)
  <1>14. ~ (L = h - 2 /\ p = h /\ stream[L + 1].kind = "cr")
    <2> SUFFICES ASSUME L = h - 2, p = h, stream[L + 1].kind = "cr" PROVE FALSE
      OBVIOUS
    <2>1. \A i \in 1 .. Len(line) : i = 1 \/ L + i = p
      <3>1. Len(line) = p - L /\ L \in Nat /\ p \in Nat
        BY <1>5, <1>6
      <3>2. p = L + 2
        BY <3>1
      <3>3. Len(line) = 2
        BY <3>1, <3>2
      <3>4. \A i \in 1 .. 2 : i = 1 \/ i = 2
        OBVIOUS
      <3> QED  BY <3>2, <3>3, <3>4, Zenon
    <2>2. DOMAIN line = 1 .. Len(line)
      BY <1>5
    <2>3. \A i \in DOMAIN line : line[i].kind \in {"cr", "lf"}
      BY <1>5, <1>6, <1>12, <2>1, <2>2
    <2> QED  BY <1>1, <2>3 DEF IsBlank
  <1>15. begun < p /\ p < h /\ headers' = SentIn(stream, begun, p)
    <2>1. p - Len(line) + 1 = L + 1
      BY <1>5, <1>6
    <2>2. headers' = WithHeader(headers, L + 1, stream[L + 1])
      BY <1>1, <1>12, <2>1 DEF p, Inserted, WithHeader
    <2>3. p < h /\ SentIn(stream, begun, p) = WithHeader(headers, L + 1, stream[L + 1])
      BY <1>11, <1>13, <1>14
    <2> QED  BY <1>6, <1>10, <2>2, <2>3
  <1>16. status' \in {"waitForHeader", "abort"}
    BY <1>1 DEF Checked
  <1>17. /\ begun' < Len(stream') /\ IsStart(stream', begun' + 1)
         /\ Unfinished(stream', LineBegun', lineBuffer')
         /\ headers' = SentIn(stream', begun', LineBegun')
    BY <1>1, <1>7, <1>11, <1>15 DEF Unfinished
  <1>18. Within(h, e)'
    BY <1>1, <1>6, <1>7, <1>10, <1>15, <1>16 DEF Within
  <1>19. /\ stream'[begun' + 1].kind = "request"
         /\ \E x \in begun' + 4 .. Len(stream') : \E y \in x .. Len(stream') : Within(x, y)'
    BY <1>1, <1>11, <1>18
  <1> QED  BY <1>16, <1>17, <1>19 DEF Placed

\* The line was the blank one behind the headers.
LEMMA EndOfHeadersFraming ==
  ASSUME TypeOK, SizeInv, WellFormed(stream), FramingInv, EndOfHeaders
  PROVE  FramingInv'
  <1> SUFFICES ASSUME ~ OutOfStep' PROVE Placed'
    BY DEF FramingInv
  <1> DEFINE line == lineBuffer \o ReadLine(LineLimit)
             L    == LineBegun
             p    == consumed'
  <1>1. /\ Available > 0 /\ status = "waitForHeader" /\ TakeLine(line) /\ HasLineEnd(line)
        /\ IsBlank(line) /\ lineBuffer' = <<>>
        /\ expected' = ToInt(ValueOf("length"))
        /\ \E total \in Sums(expected', currentSize') :
              status' = Checked(AfterHeaders(total), currentSize', boundary')
        /\ stream' = stream /\ begun' = begun /\ headers' = headers /\ bodySize' = bodySize
    BY DEF EndOfHeaders, CanRead, clientVars
  <1> HIDE DEF line
  <1>2. ASSUME NEW total
        PROVE  /\ AfterHeaders(total) \in {"complete", "abort", "waitForBody"}
               /\ AfterHeaders(total) = "complete" => expected' = 0
    BY Zenon DEF AfterHeaders
  <1>3. status \in LineStatuses
    BY <1>1 DEF LineStatuses
  <1>4. PICK k \in 1 .. Available : Taking(line, k)
    BY <1>1, <1>3, LineTaken
  <1>5. /\ Placed /\ ~ lineEndCut'
        /\ \A i \in 1 .. consumed' : stream[i].kind = "length" => ~ (stream[i].value > MaxInt)
    BY <1>1, <1>4, LineInStep
  <1>6. /\ IsLine(stream, L, p)
        /\ line \in Seq(Bytes) /\ Len(line) = p - L
        /\ \A i \in 1 .. Len(line) : line[i] = stream[L + i]
    BY <1>1, <1>3, <1>4, <1>5, LineIsWhole
  <1>7. /\ begun \in Nat /\ Len(stream) \in Nat /\ stream \in Seq(Bytes)
        /\ L \in Nat /\ p \in Nat /\ p \in L + 1 .. Len(stream) /\ stream[p].kind = "lf"
    <2>1. begun \in Nat /\ Len(stream) \in Nat /\ stream \in Seq(Bytes)
      BY <1>5, Positions
    <2>2. L \in Nat /\ p \in L + 1 .. Len(stream) /\ stream[p].kind = "lf"
      BY <1>6, Zenon DEF IsLine
    <2> QED  BY <2>1, <2>2
  <1>8. LineBegun' = p
    <2>1. Len(lineBuffer') = 0
      BY <1>1
    <2>2. consumed' \in Nat
      BY <1>7
    <2>3. \A x \in Nat : x - 0 = x
      OBVIOUS
    <2> QED  BY <2>1, <2>2, <2>3, Zenon DEF LineBegun
  <1>9. PICK h \in begun + 4 .. Len(stream) : \E e \in h .. Len(stream) : Within(h, e)
    BY <1>1, <1>5, InRequest
  <1>10. PICK e \in h .. Len(stream) : Within(h, e)
    BY <1>9
  <1>11. /\ WholeRequest(stream, begun, h, e)
         /\ begun < L /\ L < h /\ stream[L].kind = "lf"
    BY <1>1, <1>10 DEF Within
  <1>12. /\ stream[begun + 1].kind = "request" /\ headers = SentIn(stream, begun, L)
         /\ begun < Len(stream) /\ IsStart(stream, begun + 1)
    BY <1>1, <1>5 DEF Placed
  <1>13. bodySize = 0
    BY <1>3 DEF SizeInv
  <1> HIDE DEF L, p
  <1>14. 1 \in DOMAIN line /\ line[1] = stream[L + 1]
    BY <1>6, <1>7
  <1>15. \/ /\ stream[L + 1].kind \in HeaderKinds /\ p < h
            /\ SentIn(stream, begun, p) = WithHeader(SentIn(stream, begun, L), L + 1, stream[L + 1])
         \/ L = h - 2 /\ p = h /\ stream[L + 1].kind = "cr"
            /\ SentIn(stream, begun, L) = SentIn(stream, begun, h)
    <2>1. stream \in Seq(Bytes) /\ begun \in Nat /\ IsLine(stream, L, p)
      BY <1>6, <1>7
    <2>2. WholeRequest(stream, begun, h, e) /\ begun < L /\ L < h /\ stream[L].kind = "lf"
      BY <1>11
    <2> QED  BY <2>1, <2>2, AfterHeaderLine, SMTT(30)
  <1>16. stream[L + 1].kind \notin HeaderKinds
    BY <1>1, <1>14 DEF IsBlank, HeaderKinds
  <1>17. p = h /\ headers = SentIn(stream, begun, h)
    BY <1>12, <1>15, <1>16
  <1>18. expected' = e - h
    <2>1. \A i \in begun + 1 .. h : i \in 1 .. p
      BY <1>7, <1>17
    <2>2. \A i \in begun + 1 .. h : stream[i].kind = "length" => ~ (stream[i].value > MaxInt)
      BY <1>5, <2>1 DEF p
    <2> QED  BY <1>1, <1>11, <1>17, <2>2, LengthOfBody
  <1>19. status' \in {"complete", "abort", "waitForBody"} /\ (status' = "complete" => expected' = 0)
    BY <1>1, <1>2, Zenon DEF Checked
  <1>20. /\ begun' < Len(stream') /\ IsStart(stream', begun' + 1)
         /\ headers' = SentIn(stream', begun', LineBegun')
    BY <1>1, <1>8, <1>12, <1>17
  <1>21. Within(h, e)'
    <2>1. e \in Nat /\ h \in Nat /\ (e - h = 0 => e = h) /\ h = h + 0
      BY <1>7
    <2>2. consumed' = h /\ bodySize' = 0
      BY <1>1, <1>13, <1>17 DEF p
    <2>3. WholeRequest(stream', begun', h, e)
      BY <1>1, <1>11
    <2>4. status' # "waitForHeader"
      BY <1>19
    <2> QED  BY <1>18, <1>19, <2>1, <2>2, <2>3, <2>4 DEF Within
  <1>22. /\ stream'[begun' + 1].kind = "request"
         /\ \E x \in begun' + 4 .. Len(stream') : \E y \in x .. Len(stream') : Within(x, y)'
    BY <1>1, <1>12, <1>21
  <1> QED  BY <1>19, <1>20, <1>22 DEF Placed, LineStatuses

\* A part of the body, or all that was left of it, whichever way it is kept.
LEMMA BodyFraming ==
  ASSUME TypeOK, SizeInv, FramingInv, ReadBody \/ ReadMultiPart
  PROVE  FramingInv'
  <1> SUFFICES ASSUME ~ OutOfStep' PROVE Placed'
    BY DEF FramingInv
  <1> DEFINE n == Taken(expected - bodySize)
  <1>1. /\ Available > 0 /\ status = "waitForBody"
        /\ consumed' = consumed + n /\ bodySize' = bodySize + n
        /\ status' \in {"abort", "complete", "waitForBody"}
        /\ status' = "complete" => BodyComplete(bodySize')
        /\ stream' = stream /\ lineEndCut' = lineEndCut /\ begun' = begun
        /\ lineBuffer' = lineBuffer /\ headers' = headers /\ expected' = expected
    BY DEF ReadBody, ReadMultiPart, CanRead, clientVars, Checked
  <1>2. Placed
    <2>1. n \in Nat
      <3>1. expected - bodySize \in Int
        BY DEF TypeOK
      <3> QED  BY <1>1, <3>1, TakenRange
    <2> QED  BY <1>1, <2>1, InStep, Zenon
  <1>3. /\ stream \in Seq(Bytes) /\ Len(stream) \in Nat /\ consumed \in Nat /\ begun \in Nat
        /\ LineBegun = consumed - Len(lineBuffer) /\ expected \in Int /\ bodySize \in Nat
        /\ received \in Nat /\ received <= Len(stream)
    BY <1>2, Positions DEF TypeOK
  <1>4. Len(lineBuffer) = 0 /\ (bodySize < expected \/ bodySize = 0)
    <2>1. lineBuffer = <<>>
      BY <1>1 DEF SizeInv, LineStatuses
    <2>2. bodySize < expected \/ bodySize = 0
      BY <1>1 DEF SizeInv
    <2> QED  BY <2>1, <2>2
  <1>5. PICK h \in begun + 4 .. Len(stream) : \E e \in h .. Len(stream) : Within(h, e)
    BY <1>1, <1>2, InRequest
  <1>6. PICK e \in h .. Len(stream) : Within(h, e)
    BY <1>5
  <1>7. WholeRequest(stream, begun, h, e) /\ consumed = h + bodySize /\ expected = e - h
    BY <1>1, <1>6 DEF Within
  <1>8. expected - bodySize \in Nat
    BY <1>3, <1>4, <1>7
  <1>9. n \in Nat /\ n <= expected - bodySize
    BY <1>1, <1>8, TakenRange
  <1>10. /\ stream[begun + 1].kind = "request" /\ headers = SentIn(stream, begun, LineBegun)
         /\ begun < Len(stream) /\ IsStart(stream, begun + 1)
    BY <1>1, <1>2 DEF Placed
  <1> HIDE DEF n
  <1>11. /\ consumed \in h .. e /\ consumed' \in h .. e /\ LineBegun = consumed
         /\ LineBegun' = consumed' /\ consumed' = h + bodySize'
    BY <1>1, <1>3, <1>4, <1>7, <1>8, <1>9 DEF LineBegun
  <1>12. SentIn(stream, begun, consumed) = SentIn(stream, begun, h)
    BY <1>3, <1>7, <1>11, BodyHasNoHeaders
  <1>13. SentIn(stream, begun, consumed') = SentIn(stream, begun, h)
    <2> DEFINE p == consumed'
    <2>1. p \in h .. e
      BY <1>11
    <2> HIDE DEF p
    <2>2. SentIn(stream, begun, p) = SentIn(stream, begun, h)
      BY <1>3, <1>7, <2>1, BodyHasNoHeaders
    <2> QED  BY <2>2 DEF p
  <1>14. /\ begun' < Len(stream') /\ IsStart(stream', begun' + 1)
         /\ headers' = SentIn(stream', begun', LineBegun')
    BY <1>1, <1>10, <1>11, <1>12, <1>13
  <1>15. status' = "complete" => consumed' = e
    <2>1. status' = "complete" => bodySize' >= expected
      BY <1>1 DEF BodyComplete
    <2>2. bodySize' \in Nat /\ e \in Nat /\ h \in Nat
      BY <1>1, <1>3, <1>9
    <2> QED  BY <1>1, <1>3, <1>7, <1>9, <1>11, <2>1, <2>2
  <1>16. Within(h, e)'
    BY <1>1, <1>7, <1>11, <1>15 DEF Within
  <1>17. /\ stream'[begun' + 1].kind = "request"
         /\ \E x \in begun' + 4 .. Len(stream') : \E y \in x .. Len(stream') : Within(x, y)'
    BY <1>1, <1>10, <1>16
  <1> QED  BY <1>1, <1>14, <1>17 DEF Placed, LineStatuses

\* More bytes are there behind a complete request: the next one starts with them.
LEMMA NewRequestFraming ==
  ASSUME TypeOK, SizeInv, FramingInv, NewRequest
  PROVE  FramingInv'
  <1> SUFFICES ASSUME ~ OutOfStep' PROVE Placed'
    BY DEF FramingInv
  <1>1. /\ Available > 0 /\ status = "complete"
        /\ begun' = consumed /\ status' = "waitForRequest" /\ lineBuffer' = <<>> /\ headers' = <<>>
        /\ stream' = stream /\ lineEndCut' = lineEndCut /\ consumed' = consumed
    BY DEF NewRequest, CanRead, clientVars
  <1>2. Placed
    <2>1. OutOfStep' <=> OutOfStep
      BY <1>1, Zenon DEF OutOfStep, LengthLost
    <2> QED  BY <2>1, Zenon DEF FramingInv
  <1>3. /\ Len(stream) \in Nat /\ consumed \in Nat /\ received \in Nat /\ consumed < received
        /\ received <= Len(stream)
    BY <1>1, <1>2, Positions DEF Available
  <1>4. PICK h \in begun + 4 .. Len(stream) : \E e \in h .. Len(stream) : Within(h, e)
    BY <1>1, <1>2, InRequest
  <1>5. PICK e \in h .. Len(stream) : Within(h, e)
    BY <1>4
  <1>6. WholeRequest(stream, begun, h, e) /\ consumed = e
    BY <1>1, <1>5 DEF Within
  <1>7. consumed < Len(stream) /\ IsStart(stream, consumed + 1)
    BY <1>3, <1>6 DEF WholeRequest
  <1>8. LineBegun' = consumed'
    <2>1. Len(lineBuffer') = 0
      BY <1>1
    <2>2. \A x \in Nat : x - 0 = x
      OBVIOUS
    <2> QED  BY <1>1, <1>3, <2>1, <2>2, Zenon DEF LineBegun
  <1>9. headers' = SentIn(stream', begun', LineBegun')
    <2>1. \A i \in consumed + 1 .. consumed : FALSE
      BY <1>3
    <2>2. SentIn(stream, consumed, consumed) = <<>>
      BY <2>1, NoneSent
    <2> QED  BY <1>1, <1>8, <2>2
  <1>10. Unfinished(stream', LineBegun', lineBuffer')
    BY <1>1 DEF Unfinished
  <1> QED  BY <1>1, <1>7, <1>8, <1>9, <1>10 DEF Placed

\* What is true of the variables of the framing stays so if they do not change.
LEMMA FramingUnchanged ==
  ASSUME FramingInv,
         UNCHANGED <<stream, lineEndCut, consumed, begun, status, lineBuffer, headers, expected,
                     bodySize>>
  PROVE  FramingInv'
  <1>1. /\ stream' = stream /\ lineEndCut' = lineEndCut /\ consumed' = consumed /\ begun' = begun
        /\ status' = status /\ lineBuffer' = lineBuffer /\ headers' = headers
        /\ expected' = expected /\ bodySize' = bodySize
    OBVIOUS
  <1>2. LineBegun' = LineBegun
    BY <1>1, Zenon DEF LineBegun
  <1>3. ASSUME NEW h, NEW e PROVE Within(h, e)' <=> Within(h, e)
    BY <1>1, <1>2, Zenon DEF Within
  <1>4. ASSUME Placed PROVE Placed'
    <2>1. /\ begun' < Len(stream') /\ IsStart(stream', begun' + 1)
          /\ status' # "abort" => headers' = SentIn(stream', begun', LineBegun')
          /\ status' \in LineStatuses => Unfinished(stream', LineBegun', lineBuffer')
          /\ status' = "waitForRequest" => LineBegun' = begun'
      BY <1>1, <1>2, <1>4, Zenon DEF Placed
    <2>2. ASSUME status' \notin {"abort", "waitForRequest"}
          PROVE  /\ stream'[begun' + 1].kind = "request"
                 /\ \E h \in begun' + 4 .. Len(stream') : \E e \in h .. Len(stream') : Within(h, e)'
      BY <1>1, <1>3, <1>4, <2>2 DEF Placed
    <2> QED  BY <2>1, <2>2 DEF Placed
  <1>5. OutOfStep' <=> OutOfStep
    <2>1. LengthLost' <=> LengthLost
      BY <1>1 DEF LengthLost
    <2>2. lineEndCut' <=> lineEndCut
      BY <1>1
    <2> QED  BY <2>1, <2>2, Zenon DEF OutOfStep
  <1> QED  BY <1>4, <1>5, Zenon DEF FramingInv

\* No step loses the framing.
LEMMA StepFraming ==
  ASSUME TypeOK, SizeInv, WellFormed(stream), FramingInv, [Next]_vars
  PROVE  FramingInv'
  <1>1. CASE Receive \/ UNCHANGED vars
    BY <1>1, FramingUnchanged DEF Receive, vars, clientVars, parserVars
  <1>2. ASSUME NEW st \in LineStatuses, ReadPartOfLine(st) PROVE FramingInv'
    BY <1>2, PartOfLineFraming
  <1>3. CASE ReadRequest
    BY <1>3, RequestFraming
  <1>4. CASE ReadHeader
    BY <1>4, HeaderFraming
  <1>5. CASE EndOfHeaders
    BY <1>5, EndOfHeadersFraming
  <1>6. CASE ReadBody \/ ReadMultiPart
    BY <1>6, BodyFraming
  <1>7. CASE NewRequest
    BY <1>7, NewRequestFraming
  <1>8. "waitForRequest" \in LineStatuses /\ "waitForHeader" \in LineStatuses
    BY DEF LineStatuses
  <1> QED
    BY <1>1, <1>2, <1>3, <1>4, <1>5, <1>6, <1>7, <1>8, Zenon DEF Next, ReadFromSocket

\* The end of the request is where the next one starts.
LEMMA EndOfRequest ==
  ASSUME TypeOK, NEW h \in begun + 4 .. Len(stream), NEW e \in h .. Len(stream),
         WholeRequest(stream, begun, h, e)
  PROVE  RequestEnd = e
  <1> DEFINE ends == {i \in begun + 1 .. Len(stream) : i = Len(stream) \/ Starts(i + 1)}
  <1>1. begun \in Nat /\ Len(stream) \in Nat /\ e \in Nat /\ h \in Nat
    BY DEF TypeOK
  <1>2. e \in ends
    BY <1>1 DEF WholeRequest, Starts
  <1>3. \A i \in begun + 2 .. e : ~ Starts(i)
    <2> TAKE i \in begun + 2 .. e
    <2>1. i \in begun + 2 .. h \/ i \in h + 1 .. e
      BY <1>1
    <2> QED  BY <2>1 DEF WholeRequest, Starts, IsStart, HeaderKinds
  <1>4. ASSUME NEW i \in ends PROVE e <= i
    <2> SUFFICES ASSUME ~ (e <= i) PROVE FALSE
      OBVIOUS
    <2>1. i # Len(stream) /\ i + 1 \in begun + 2 .. e
      BY <1>1
    <2>2. Starts(i + 1)
      BY <2>1
    <2> QED  BY <1>3, <2>1, <2>2
  <1>5. ends \in SUBSET Nat /\ ends # {}
    BY <1>1, <1>2
  <1> HIDE DEF ends
  <1>6. Min(ends) \in ends /\ Min(ends) <= e
    BY <1>2, <1>5, MinOf
  <1>7. e <= Min(ends) /\ Min(ends) \in Nat
    BY <1>4, <1>5, <1>6
  <1>8. Min(ends) = e
    BY <1>1, <1>6, <1>7
  <1> QED  BY <1>8 DEF RequestEnd, ends

LEMMA FramingImplies == TypeOK /\ SizeInv /\ FramingInv => FramedExactly
  <1> SUFFICES ASSUME TypeOK, SizeInv, FramingInv, ~ OutOfStep
               PROVE  Starts(begun + 1)
                      /\ (status = "complete" =>
                            consumed = RequestEnd /\ headers = SentIn(stream, begun, RequestEnd))
    BY DEF FramedExactly
  <1>1. Placed
    BY DEF FramingInv
  <1>2. Starts(begun + 1)
    BY <1>1 DEF Placed, Starts
  <1>3. ASSUME status = "complete"
        PROVE  consumed = RequestEnd /\ headers = SentIn(stream, begun, RequestEnd)
    <2>1. PICK h \in begun + 4 .. Len(stream) : \E e \in h .. Len(stream) : Within(h, e)
      BY <1>1, <1>3, InRequest
    <2>2. PICK e \in h .. Len(stream) : Within(h, e)
      BY <2>1
    <2>3. consumed = e /\ RequestEnd = e
      BY <1>3, <2>2, EndOfRequest DEF Within
    <2>4. LineBegun = consumed
      <3>1. lineBuffer = <<>> /\ consumed \in Nat
        BY <1>3 DEF SizeInv, LineStatuses, TypeOK
      <3>2. Len(lineBuffer) = 0 /\ \A x \in Nat : x - 0 = x
        BY <3>1
      <3> QED  BY <3>1, <3>2, Zenon DEF LineBegun
    <2>5. headers = SentIn(stream, begun, RequestEnd)
      BY <1>1, <1>3, <2>3, <2>4 DEF Placed
    <2> QED  BY <2>3, <2>5
  <1> QED  BY <1>2, <1>3

\* Pipelining: if the client keeps to the protocol, every complete request has consumed its own
\* bytes and no others, and has all its headers, however they were cut, unless a line was read
\* without its LF or a Content-Length is no int.
THEOREM RequestsAreFramed ==
  ASSUME \A s \in Streams : WellFormed(s)
  PROVE  Spec => []FramedExactly
  <1>1. Init => TypeOK /\ SizeInv /\ FramingInv
    BY InitSize, InitFraming
  <1>2. TypeOK /\ SizeInv /\ FramingInv /\ [Next]_vars => (TypeOK /\ SizeInv /\ FramingInv)'
    <2> SUFFICES ASSUME TypeOK, SizeInv, FramingInv, [Next]_vars PROVE (TypeOK /\ SizeInv /\ FramingInv)'
      OBVIOUS
    <2>1. WellFormed(stream)
      BY DEF TypeOK
    <2> QED  BY <2>1, StepSize, StepFraming
  <1> QED  BY <1>1, <1>2, FramingImplies, PTL DEF Spec

=============================================================================
