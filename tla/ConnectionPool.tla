--------------------------- MODULE ConnectionPool ---------------------------
(***************************************************************************)
(* HttpListener, HttpConnectionHandlerPool and HttpConnectionHandler: how  *)
(* accepted TCP connections are given to handler threads, served, timed    *)
(* out, and how idle handlers are removed and the listener is closed and   *)
(* restarted.                                                              *)
(*                                                                         *)
(* Two kinds of process run.  The main thread executes the listener and    *)
(* the pool; each loop over the pool is one step per isBusy() it reads, so *)
(* handlers run between two reads.  Each handler h is a QThread with an    *)
(* event loop; between two of its steps the main thread and the other      *)
(* handlers run.  The only data both sides touch are busy[h], the event    *)
(* queue posted[h] and the quit flag.                                      *)
(***************************************************************************)
EXTENDS Integers, FiniteSets, SequencesExt

CONSTANTS
    Conns,        \* the connections clients may open (one descriptor each)
    Handlers,     \* identities of HttpConnectionHandler objects
    NoConn,       \* no connection
    MinThreads,   \* setting minThreads
    MaxThreads,   \* setting maxThreads
    MaxChunks,    \* bound: pieces of request data a client sends
    MaxFailures   \* bound: calls of setSocketDescriptor that fail

ASSUME ConfigAssumption ==
    /\ NoConn \notin Conns
    /\ MinThreads \in Nat
    /\ MaxThreads \in Nat
    /\ MaxChunks \in Nat
    /\ MaxFailures \in Nat

ASSUME HandlersAssumption ==
    /\ IsFiniteSet(Conns)
    /\ IsFiniteSet(Handlers)
    /\ MaxThreads <= Cardinality(Handlers)

VARIABLES
    \* Main thread
    listening,  \* QTcpServer::isListening()
    up,         \* pool # NULL
    pool,       \* QList of the handlers, in order of creation
    main,       \* what the main thread is executing
    at,         \* index in pool its loop has reached
    idle,       \* idleCounter of cleanup()
    arriving,   \* descriptor of the running incomingConnection()
    \* Handler threads
    pc,         \* where the thread is; "none": not started or ended
    busy,       \* HttpConnectionHandler::busy
    posted,     \* queued handleConnection events
    sock,       \* the connection open on the handler's socket
    timer,      \* readTimer is active
    request,    \* connection whose bytes are in currentRequest
    unadopted,  \* connection setSocketDescriptor failed for (history)
    \* Connections
    wire,       \* request data that arrived but was not read
    sent,       \* how much the client has sent
    gone,       \* the client has closed its end
    outcome,    \* what became of the connection
    crowded     \* all MaxThreads handlers were held on arrival (history)

mainVars == <<listening, up, pool, main, at, idle, arriving, crowded>>
handlerVars == <<pc, busy, posted, sock, timer, request, unadopted>>
clientVars == <<wire, sent, gone>>
vars == <<mainVars, handlerVars, clientVars, outcome>>

\* A piece of request data leaves the request incomplete ("part"), completes
\* it ("full") or makes HttpRequest abort because it is too large ("large").
Chunks == {"part", "full", "large"}

Outcomes == {"new", "accepted", "rejected", "closed", "failed", "leaked"}

TypeOK ==
    /\ listening \in BOOLEAN
    /\ up \in BOOLEAN
    /\ pool \in Seq(Handlers)
    /\ main \in {"loop", "get", "cleanup", "reap", "close"}
    /\ at \in Nat \ {0}
    /\ idle \in Nat
    /\ arriving \in Conns \union {NoConn}
    /\ crowded \in BOOLEAN
    /\ pc \in [Handlers -> {"none", "loop", "service", "closing"}]
    /\ busy \in [Handlers -> BOOLEAN]
    /\ posted \in [Handlers -> Seq(Conns)]
    /\ sock \in [Handlers -> Conns \union {NoConn}]
    /\ timer \in [Handlers -> BOOLEAN]
    /\ request \in [Handlers -> Conns \union {NoConn}]
    /\ unadopted \in [Handlers -> Conns \union {NoConn}]
    /\ wire \in [Conns -> Seq(Chunks)]
    /\ sent \in [Conns -> Nat]
    /\ gone \in [Conns -> BOOLEAN]
    /\ outcome \in [Conns -> Outcomes]

Init ==
    /\ listening \in BOOLEAN
    /\ up = TRUE
    /\ pool = <<>>
    /\ main = "loop"
    /\ at = 1
    /\ idle = 0
    /\ arriving = NoConn
    /\ crowded = FALSE
    /\ pc = [h \in Handlers |-> "none"]
    /\ busy = [h \in Handlers |-> FALSE]
    /\ posted = [h \in Handlers |-> <<>>]
    /\ sock = [h \in Handlers |-> NoConn]
    /\ timer = [h \in Handlers |-> FALSE]
    /\ request = [h \in Handlers |-> NoConn]
    /\ unadopted = [h \in Handlers |-> NoConn]
    /\ wire = [c \in Conns |-> <<>>]
    /\ sent = [c \in Conns |-> 0]
    /\ gone = [c \in Conns |-> FALSE]
    /\ outcome = [c \in Conns |-> "new"]

-----------------------------------------------------------------------------
(* Connections that hold a handler.                                        *)

HeldBy(h) ==
    ToSet(posted[h]) \union ({sock[h], unadopted[h]} \ {NoConn})

Holding == UNION {HeldBy(h) : h \in Handlers}

-----------------------------------------------------------------------------
(* The listener and the pool, in the main thread.                          *)

\* incomingConnection(): enters getConnectionHandler() and its search.
Incoming(c) ==
    /\ main = "loop"
    /\ listening
    /\ up
    /\ outcome[c] = "new"
    /\ main' = "get"
    /\ at' = 1
    /\ arriving' = c
    /\ crowded' = (Cardinality(Holding) >= MaxThreads)
    /\ UNCHANGED <<listening, up, pool, idle, handlerVars, clientVars, outcome>>

\* The search passes a handler that is busy.
PassBusy ==
    /\ main = "get"
    /\ at <= Len(pool)
    /\ busy[pool[at]]
    /\ at' = at + 1
    /\ UNCHANGED <<listening, up, pool, main, idle, arriving, crowded,
                   handlerVars, clientVars, outcome>>

\* incomingConnection() ends: the descriptor is queued for handler h.
Post(h) ==
    /\ posted' = [posted EXCEPT ![h] = Append(@, arriving)]
    /\ outcome' = [outcome EXCEPT ![arriving] = "accepted"]
    /\ main' = "loop"
    /\ arriving' = NoConn
    /\ UNCHANGED <<listening, up, at, idle, crowded, sock, unadopted, clientVars>>

\* Faulty variant: setBusy() is forgotten.
TakeFreeNotMarked ==
    /\ main = "get"
    /\ at <= Len(pool)
    /\ ~busy[pool[at]]
    /\ Post(pool[at])
    /\ UNCHANGED <<pool, pc, timer, request, busy>>

\* The search finds a free handler, marks it busy and posts to it.
TakeFree ==
    /\ main = "get"
    /\ at <= Len(pool)
    /\ ~busy[pool[at]]
    /\ busy' = [busy EXCEPT ![pool[at]] = TRUE]
    /\ Post(pool[at])
    /\ UNCHANGED <<pool, pc, timer, request>>

\* Faulty variant: the pool grows by one handler too many.
CreateOneMore(h) ==
    /\ main = "get"
    /\ at > Len(pool)
    /\ Len(pool) <= MaxThreads
    /\ h \notin ToSet(pool)
    /\ pool' = Append(pool, h)
    /\ pc' = [pc EXCEPT ![h] = "loop"]
    /\ busy' = [busy EXCEPT ![h] = TRUE]
    /\ timer' = [timer EXCEPT ![h] = FALSE]
    /\ request' = [request EXCEPT ![h] = NoConn]
    /\ Post(h)

\* No handler is free: a new one is constructed, its thread started.
Create(h) ==
    /\ main = "get"
    /\ at > Len(pool)
    /\ Len(pool) < MaxThreads
    /\ h \notin ToSet(pool)
    /\ pool' = Append(pool, h)
    /\ pc' = [pc EXCEPT ![h] = "loop"]
    /\ busy' = [busy EXCEPT ![h] = TRUE]
    /\ timer' = [timer EXCEPT ![h] = FALSE]
    /\ request' = [request EXCEPT ![h] = NoConn]
    /\ Post(h)

\* Faulty variant: 503 is sent as soon as no handler is free.
RejectTooEarly ==
    /\ main = "get"
    /\ at > Len(pool)
    /\ outcome' = [outcome EXCEPT ![arriving] = "rejected"]
    /\ main' = "loop"
    /\ arriving' = NoConn
    /\ UNCHANGED <<listening, up, pool, at, idle, crowded, handlerVars, clientVars>>

\* The pool is full: 503 is sent and the connection closed.
Reject ==
    /\ main = "get"
    /\ at > Len(pool)
    /\ Len(pool) >= MaxThreads
    /\ outcome' = [outcome EXCEPT ![arriving] = "rejected"]
    /\ main' = "loop"
    /\ arriving' = NoConn
    /\ UNCHANGED <<listening, up, pool, at, idle, crowded, handlerVars, clientVars>>

\* The cleanup timer fires.
Cleanup ==
    /\ main = "loop"
    /\ up
    /\ main' = "cleanup"
    /\ at' = 1
    /\ idle' = 0
    /\ UNCHANGED <<listening, up, pool, arriving, crowded, handlerVars,
                   clientVars, outcome>>

\* cleanup() counts a handler and goes on, because it is busy or because
\* there are not yet enough idle ones.
KeepHandler ==
    /\ main = "cleanup"
    /\ at <= Len(pool)
    /\ busy[pool[at]] \/ idle + 1 <= MinThreads
    /\ idle' = IF busy[pool[at]] THEN idle ELSE idle + 1
    /\ at' = at + 1
    /\ UNCHANGED <<listening, up, pool, main, arriving, crowded, handlerVars,
                   clientVars, outcome>>

\* Faulty variant: one handler fewer than minThreads is kept.
ReapOneMore ==
    /\ main = "cleanup"
    /\ at <= Len(pool)
    /\ ~busy[pool[at]]
    /\ idle + 1 >= MinThreads
    /\ idle' = idle + 1
    /\ main' = "reap"
    /\ UNCHANGED <<listening, up, pool, at, arriving, crowded, handlerVars,
                   clientVars, outcome>>

\* cleanup() deletes an idle handler: quit(), then wait() for its thread.
Reap ==
    /\ main = "cleanup"
    /\ at <= Len(pool)
    /\ ~busy[pool[at]]
    /\ idle + 1 > MinThreads
    /\ idle' = idle + 1
    /\ main' = "reap"
    /\ UNCHANGED <<listening, up, pool, at, arriving, crowded, handlerVars,
                   clientVars, outcome>>

\* Faulty variant: the deleted handler stays in the list.
ReapedStaysListed ==
    /\ main = "reap"
    /\ pc[pool[at]] = "none"
    /\ main' = "loop"
    /\ UNCHANGED <<listening, up, pool, at, idle, arriving, crowded, handlerVars,
                   clientVars, outcome>>

\* wait() returns; the handler leaves the list and the loop breaks.
Reaped ==
    /\ main = "reap"
    /\ pc[pool[at]] = "none"
    /\ pool' = RemoveAt(pool, at)
    /\ main' = "loop"
    /\ UNCHANGED <<listening, up, at, idle, arriving, crowded, handlerVars,
                   clientVars, outcome>>

CleanupDone ==
    /\ main = "cleanup"
    /\ at > Len(pool)
    /\ main' = "loop"
    /\ UNCHANGED <<listening, up, pool, at, idle, arriving, crowded, handlerVars,
                   clientVars, outcome>>

\* HttpListener::close() stops listening and starts deleting the handlers.
Close ==
    /\ main = "loop"
    /\ up
    /\ listening' = FALSE
    /\ main' = "close"
    /\ at' = 1
    /\ UNCHANGED <<up, pool, idle, arriving, crowded, handlerVars, clientVars, outcome>>

\* The pool's destructor has deleted one handler.
CloseNext ==
    /\ main = "close"
    /\ at <= Len(pool)
    /\ pc[pool[at]] = "none"
    /\ at' = at + 1
    /\ UNCHANGED <<listening, up, pool, main, idle, arriving, crowded, handlerVars,
                   clientVars, outcome>>

\* Faulty variant: the pool is deleted without waiting for its handlers.
ClosedEarly ==
    /\ main = "close"
    /\ pool' = <<>>
    /\ up' = FALSE
    /\ main' = "loop"
    /\ UNCHANGED <<listening, at, idle, arriving, crowded, handlerVars, clientVars,
                   outcome>>

\* All handlers are deleted, and the pool with them.
Closed ==
    /\ main = "close"
    /\ at > Len(pool)
    /\ pool' = <<>>
    /\ up' = FALSE
    /\ main' = "loop"
    /\ UNCHANGED <<listening, at, idle, arriving, crowded, handlerVars, clientVars,
                   outcome>>

\* HttpListener::listen(): restart after close(); binding the port may fail.
Listen ==
    /\ main = "loop"
    /\ ~listening
    /\ up' = TRUE
    /\ listening' \in BOOLEAN
    /\ UNCHANGED <<pool, main, at, idle, arriving, crowded, handlerVars, clientVars,
                   outcome>>

-----------------------------------------------------------------------------
(* A handler's thread.                                                     *)

\* Faulty variant: the handler is not marked free.
DisconnectedStaysBusy(h) ==
    /\ sock' = [sock EXCEPT ![h] = NoConn]
    /\ timer' = [timer EXCEPT ![h] = FALSE]
    /\ wire' = [wire EXCEPT ![sock[h]] = <<>>]
    /\ outcome' = [outcome EXCEPT ![sock[h]] = "closed"]
    /\ UNCHANGED <<busy, sent, gone>>

\* Slot disconnected(): the socket is closed (unread data is discarded),
\* the timer stopped, the handler marked free.
Disconnected(h) ==
    /\ sock' = [sock EXCEPT ![h] = NoConn]
    /\ timer' = [timer EXCEPT ![h] = FALSE]
    /\ busy' = [busy EXCEPT ![h] = FALSE]
    /\ wire' = [wire EXCEPT ![sock[h]] = <<>>]
    /\ outcome' = [outcome EXCEPT ![sock[h]] = "closed"]
    /\ UNCHANGED <<sent, gone>>

\* Faulty variant: the previous request is not deleted.
HandleConnectionKeepsRequest(h) ==
    /\ pc[h] = "loop"
    /\ posted[h] # <<>>
    /\ posted' = [posted EXCEPT ![h] = Tail(@)]
    /\ busy' = [busy EXCEPT ![h] = TRUE]
    /\ sock' = [sock EXCEPT ![h] = Head(posted[h])]
    /\ timer' = [timer EXCEPT ![h] = TRUE]
    /\ UNCHANGED <<mainVars, pc, request, unadopted, clientVars, outcome>>

\* Slot handleConnection(): the descriptor is adopted, the timer started and
\* what is left of a previous request deleted.
HandleConnection(h) ==
    /\ pc[h] = "loop"
    /\ posted[h] # <<>>
    /\ posted' = [posted EXCEPT ![h] = Tail(@)]
    /\ busy' = [busy EXCEPT ![h] = TRUE]
    /\ sock' = [sock EXCEPT ![h] = Head(posted[h])]
    /\ timer' = [timer EXCEPT ![h] = TRUE]
    /\ request' = [request EXCEPT ![h] = NoConn]
    /\ UNCHANGED <<mainVars, pc, unadopted, clientVars, outcome>>

\* handleConnection() when setSocketDescriptor() fails: it returns at once.
DescriptorFails(h) ==
    /\ pc[h] = "loop"
    /\ posted[h] # <<>>
    /\ Cardinality({c \in Conns : outcome[c] = "failed"}) < MaxFailures
    /\ posted' = [posted EXCEPT ![h] = Tail(@)]
    /\ busy' = [busy EXCEPT ![h] = TRUE]
    /\ unadopted' = [unadopted EXCEPT ![h] = Head(posted[h])]
    /\ outcome' = [outcome EXCEPT ![Head(posted[h])] = "failed"]
    /\ UNCHANGED <<mainVars, pc, sock, timer, request, clientVars>>

\* The request that the next bytes are added to: the current one, or a new one.
CurrentRequest(h) == IF request[h] = NoConn THEN sock[h] ELSE request[h]

\* Slot read(), one round of its loops: data is collected in the current
\* request.  Incomplete: wait for more.  Complete: the read timer is stopped
\* and the request handler called.  Too large: 413 is sent, then the
\* connection closed.
Read(h) ==
    /\ pc[h] = "loop"
    /\ sock[h] # NoConn
    /\ wire[sock[h]] # <<>>
    /\ wire' = [wire EXCEPT ![sock[h]] = Tail(@)]
    /\ request' = [request EXCEPT ![h] = CurrentRequest(h)]
    /\ LET chunk == Head(wire[sock[h]])
       IN  /\ pc' = [pc EXCEPT ![h] = CASE chunk = "part"  -> "loop"
                                        [] chunk = "full"  -> "service"
                                        [] chunk = "large" -> "closing"]
           /\ timer' = [timer EXCEPT ![h] = @ /\ chunk # "full"]
    /\ UNCHANGED <<mainVars, busy, posted, sock, unadopted, sent, gone, outcome>>

\* Faulty variant: the timer is not started again.
KeepAliveUntimed(h) ==
    /\ pc[h] = "service"
    /\ pc' = [pc EXCEPT ![h] = "loop"]
    /\ request' = [request EXCEPT ![h] = NoConn]
    /\ UNCHANGED <<mainVars, busy, posted, sock, timer, unadopted, clientVars, outcome>>

\* service() has returned and the connection is kept: the timer is started
\* for the next request.
KeepAlive(h) ==
    /\ pc[h] = "service"
    /\ pc' = [pc EXCEPT ![h] = "loop"]
    /\ timer' = [timer EXCEPT ![h] = TRUE]
    /\ request' = [request EXCEPT ![h] = NoConn]
    /\ UNCHANGED <<mainVars, busy, posted, sock, unadopted, clientVars, outcome>>

\* service() has returned and the connection must be closed.
CloseAfterResponse(h) ==
    /\ pc[h] = "service"
    /\ pc' = [pc EXCEPT ![h] = "closing"]
    /\ UNCHANGED <<mainVars, busy, posted, sock, timer, request, unadopted,
                   clientVars, outcome>>

\* Slot readTimeout() begins; the timer is single-shot.
ReadTimeout(h) ==
    /\ pc[h] = "loop"
    /\ timer[h]
    /\ timer' = [timer EXCEPT ![h] = FALSE]
    /\ pc' = [pc EXCEPT ![h] = "closing"]
    /\ UNCHANGED <<mainVars, busy, posted, sock, request, unadopted,
                   clientVars, outcome>>

\* All bytes are written; disconnectFromHost() calls disconnected() before it
\* returns, unless the socket is closed already.  The request is deleted.
Flushed(h) ==
    /\ pc[h] = "closing"
    /\ pc' = [pc EXCEPT ![h] = "loop"]
    /\ request' = [request EXCEPT ![h] = NoConn]
    /\ IF sock[h] # NoConn
       THEN Disconnected(h)
       ELSE UNCHANGED <<busy, sock, timer, clientVars, outcome>>
    /\ UNCHANGED <<mainVars, posted, unadopted>>

\* The socket notices that the peer is gone: in the event loop, or in
\* waitForBytesWritten() while a response is written or flushed.
PeerGone(h) ==
    /\ pc[h] # "none"
    /\ sock[h] # NoConn
    /\ gone[sock[h]]
    /\ Disconnected(h)
    /\ UNCHANGED <<mainVars, pc, posted, request, unadopted>>

\* Faulty variant: the pool's destructor waits without calling quit().
QuittingOnlyInCleanup(h) ==
    /\ main = "reap"
    /\ at <= Len(pool)
    /\ h = pool[at]

\* The main thread is in the destructor of h.
Quitting(h) ==
    /\ main \in {"reap", "close"}
    /\ at <= Len(pool)
    /\ h = pool[at]

\* quit() ends the event loop; run() closes the socket.  Events that are
\* still queued for the handler are dropped with it.
Exit(h) ==
    /\ Quitting(h)
    /\ pc[h] = "loop"
    /\ pc' = [pc EXCEPT ![h] = "none"]
    /\ busy' = [busy EXCEPT ![h] = FALSE]
    /\ posted' = [posted EXCEPT ![h] = <<>>]
    /\ sock' = [sock EXCEPT ![h] = NoConn]
    /\ timer' = [timer EXCEPT ![h] = FALSE]
    /\ request' = [request EXCEPT ![h] = NoConn]
    /\ unadopted' = [unadopted EXCEPT ![h] = NoConn]
    /\ outcome' = [c \in Conns |-> CASE c = sock[h]            -> "closed"
                                     [] c \in ToSet(posted[h]) -> "leaked"
                                     [] OTHER                  -> outcome[c]]
    /\ UNCHANGED <<mainVars, clientVars>>

-----------------------------------------------------------------------------
(* The clients.                                                            *)

Send(c, chunk) ==
    /\ outcome[c] = "accepted"
    /\ ~gone[c]
    /\ sent[c] < MaxChunks
    /\ wire' = [wire EXCEPT ![c] = Append(@, chunk)]
    /\ sent' = [sent EXCEPT ![c] = @ + 1]
    /\ UNCHANGED <<mainVars, handlerVars, gone, outcome>>

HangUp(c) ==
    /\ outcome[c] = "accepted"
    /\ ~gone[c]
    /\ gone' = [gone EXCEPT ![c] = TRUE]
    /\ UNCHANGED <<mainVars, handlerVars, wire, sent, outcome>>

-----------------------------------------------------------------------------
MainStep ==
    \/ PassBusy \/ TakeFree \/ Reject
    \/ \E h \in Handlers : Create(h)
    \/ KeepHandler \/ Reap \/ Reaped \/ CleanupDone
    \/ CloseNext \/ Closed

HandlerStep(h) ==
    \/ HandleConnection(h) \/ DescriptorFails(h)
    \/ Read(h) \/ KeepAlive(h) \/ CloseAfterResponse(h)
    \/ ReadTimeout(h) \/ Flushed(h) \/ PeerGone(h)
    \/ Exit(h)

Environment ==
    \/ \E c \in Conns : Incoming(c) \/ HangUp(c)
    \/ \E c \in Conns, chunk \in Chunks : Send(c, chunk)
    \/ Cleanup \/ Close \/ Listen

Next ==
    \/ MainStep
    \/ \E h \in Handlers : HandlerStep(h)
    \/ Environment

Spec == Init /\ [][Next]_vars

\* Thread h writes a response to an open connection: inside service(), or in
\* waitForBytesWritten() without a timeout.  No timer of the server runs, and how
\* long it stays there is up to the peer.
Writing(h) == pc[h] \in {"service", "closing"} /\ sock[h] # NoConn

\* The threads are scheduled, a service() that has nobody to wait for returns, a
\* socket notices that its peer is gone, and active timers fire, the periodic
\* cleanup timer among them.  Clients need neither send nor take anything, and
\* nobody has to close the listener.
FairSpec ==
    /\ Spec
    /\ WF_vars(MainStep)
    /\ WF_vars(Cleanup)
    /\ \A h \in Handlers : WF_vars(~Writing(h) /\ HandlerStep(h))
    /\ \A h \in Handlers : WF_vars(PeerGone(h))

-----------------------------------------------------------------------------
(* Safety.                                                                 *)

\* A handler is given to one connection at a time: what is queued for it, open
\* on its socket or was lost on it is one connection, for which it is marked
\* busy, and no other handler holds that connection.  This is what the
\* Q_ASSERT in handleConnection() relies on, although disconnected() can clear
\* busy while service() still runs.
OneConnectionPerHandler ==
    \A h \in Handlers :
        /\ HeldBy(h) # {} => busy[h]
        /\ Len(posted[h]) + Cardinality({sock[h], unadopted[h]} \ {NoConn}) <= 1
        /\ \A k \in Handlers \ {h} : HeldBy(h) \intersect HeldBy(k) = {}

\* isBusy() "returns true if this handler is in use", and only then: a busy handler
\* has a connection that is queued or open.  The exception is one whose connection
\* could not be adopted: it stays busy, and lost to the pool, until the listener is
\* closed.
BusyMeansInUse ==
    \A h \in Handlers :
        busy[h] => posted[h] # <<>> \/ sock[h] # NoConn \/ unadopted[h] # NoConn

\* The bytes read from a connection are never added to a request that another
\* connection left behind, and a response is written to the connection its
\* request came from, or to a closed socket.
RequestOfConnection ==
    \A h \in Handlers :
        sock[h] # NoConn /\ request[h] # NoConn => request[h] = sock[h]

\* A handler that waits for data has its read timer running, so that a silent
\* client cannot keep it.
OpenIsTimed ==
    \A h \in Handlers : pc[h] = "loop" /\ sock[h] # NoConn => timer[h]

\* The pool never has more than maxThreads handlers, no handler is listed
\* twice, and no thread runs that the pool does not own.
PoolBounded ==
    /\ Len(pool) <= MaxThreads
    /\ IsInjective(pool)
    /\ {h \in Handlers : pc[h] # "none"} \subseteq ToSet(pool)

\* The handler cleanup() deletes holds no connection, and minThreads other
\* handlers are idle at that moment.
ReapsOnlySpare ==
    main = "reap" =>
        /\ HeldBy(pool[at]) = {}
        /\ Cardinality({h \in ToSet(pool) \ {pool[at]} : ~busy[h]}) >= MinThreads

\* The listener, its pool and the handler threads implement the service that
\* ConnectionService describes.
Service == INSTANCE ConnectionService WITH holding <- Holding

ImplementsService == Service!Spec

-----------------------------------------------------------------------------
(* The inductive invariant behind the safety properties.                   *)

\* h holds connection c: queued for it, open on its socket, or lost on it.
Owns(h, c) == c \in {posted[h][i] : i \in DOMAIN posted[h]} \union {sock[h], unadopted[h]}

\* The list has no duplicates, is bounded, and names every running thread.
PoolInv ==
    /\ Len(pool) <= MaxThreads
    /\ \A i, j \in 1..Len(pool) : pool[i] = pool[j] => i = j
    /\ \A h \in Handlers : pc[h] # "none" => \E i \in 1..Len(pool) : pool[i] = h

\* What the main thread knows where it is.
MainInv ==
    /\ main \in {"loop", "get", "cleanup"} =>
          \A i \in 1..Len(pool) : pc[pool[i]] # "none"
    /\ IF main = "get"
       THEN arriving \in Conns /\ outcome[arriving] = "new"
       ELSE arriving = NoConn
    /\ main = "reap" =>
          /\ at \in 1..Len(pool)
          /\ ~busy[pool[at]]
          /\ \A i \in 1..Len(pool) : i # at => pc[pool[i]] # "none"
    /\ main = "close" =>
          \A i \in 1..Len(pool) : i < at => pc[pool[i]] = "none"

\* A handler holds one connection in one way, and is busy while it does.
HandlerInv ==
    \A h \in Handlers :
        /\ Len(posted[h]) <= 1
        /\ posted[h] # <<>> => busy[h] /\ sock[h] = NoConn /\ unadopted[h] = NoConn
        /\ sock[h] # NoConn => busy[h] /\ unadopted[h] = NoConn
        /\ unadopted[h] # NoConn => busy[h]
        /\ pc[h] = "none" => ~busy[h]

\* A held connection was accepted, and one handler holds it.
OwnerInv ==
    \A c \in Conns : \A h \in Handlers :
        Owns(h, c) =>
            /\ outcome[c] \in {"accepted", "failed"}
            /\ \A k \in Handlers : Owns(k, c) => k = h

IndInv == TypeOK /\ PoolInv /\ MainInv /\ HandlerInv /\ OwnerInv

-----------------------------------------------------------------------------
(* Liveness.                                                               *)

\* What the code takes for granted of the other side: no thread writes forever to
\* a peer that neither takes its response nor goes.
PeersTakeResponses == \A h \in Handlers : []<>~Writing(h)

\* If peers take their responses or go, every accepted connection ends, although
\* clients may stop in mid-request or send nothing at all: it is closed, or its
\* descriptor could not be adopted.  Only close() may drop it without an answer, if
\* it is then still queued for a handler.
AcceptedEnds ==
    PeersTakeResponses =>
        \A c \in Conns :
            outcome[c] = "accepted" ~>
                \/ outcome[c] \in {"closed", "failed"}
                \/ outcome[c] = "leaked" /\ main = "close"

\* If peers take their responses or go, close() and cleanup() return, although they
\* wait for handler threads.
MainReturns == PeersTakeResponses => (main # "loop" ~> main = "loop")

\* "The cleanup timer reduces the number of idle threads": when all connections
\* have ended, the pool shrinks to minThreads.
IdlePoolShrinks ==
    (\A c \in Conns : outcome[c] \notin {"new", "accepted"}) ~> Len(pool) <= MinThreads

=============================================================================
