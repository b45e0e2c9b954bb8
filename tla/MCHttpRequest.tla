--------------------------- MODULE MCHttpRequest ---------------------------
(***************************************************************************)
(* Model checking of HttpRequest: what clients send.                       *)
(***************************************************************************)
EXTENDS HttpRequest

Byte(kind) == [kind |-> kind, value |-> 0]

Copies(n, kind) == [i \in 1..n |-> Byte(kind)]

LineEnd == <<Byte("cr"), Byte("lf")>>

\* A line of n bytes, its line end not counted.
Line(first, n) == <<first>> \o Copies(n - 1, "text") \o LineEnd

Length(n) == [kind |-> "length", value |-> n]

\* A request without body, with one header of n bytes.
Get(n) == Line(Byte("request"), 2) \o Line(Byte("header"), n) \o LineEnd

\* One with a body of n bytes, in memory or multipart.
Post(n) == Line(Byte("request"), 1) \o Line(Length(n), 2) \o LineEnd \o Copies(n, "body")

MultiPart == Line([kind |-> "type", value |-> 1], 1)

Upload(n) ==
    Line(Byte("request"), 3) \o MultiPart \o Line(Length(n), 1) \o LineEnd \o Copies(n, "body")

\* Of two Content-Type lines the last counts.
TwoTypes ==
    Line(Byte("request"), 1) \o Line(Byte("type"), 1) \o MultiPart \o Line(Length(2), 1)
        \o LineEnd \o Copies(2, "body")

Garbage == Line(Byte("garbage"), 2)

Requests ==
    {Get(n) : n \in {1, 8}} \union {Post(n) : n \in {2, 5}} \union {Upload(n) : n \in {2, 16}}
        \union {Garbage}

\* Bodies that overflow the sum of their length and that of the headers, and the int
\* that is to hold their length.
Huge == {Post(MaxInt - 8), Post(MaxInt + 2)}

\* Two requests, the second one pipelined.
Pipelined == {a \o b : a, b \in Requests} \union {a \o Get(1) : a \in Huge \union {TwoTypes}}

ASSUME \A s \in Pipelined : WellFormed(s)

=============================================================================
