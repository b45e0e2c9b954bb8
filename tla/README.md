# A verification project for the ray-tracing demo server

The repository is a Qt program that computes radio propagation paths in a city
map and shows them in a browser. It consists of the application
(`Demo1/src`), the web server it is built on (`QtWebApp`, bundled as source),
and a browser client (`Demo1/etc/docroot/localjs`). The rest is third-party
JavaScript, map data, images and build output.

This directory holds TLA+ models of the parts of it that run concurrently, take
their input in pieces or in any order, or have to survive timeouts and limits: in the
web server, in the application and in the browser. TLC checks them on small
instances, and TLAPS checks proofs for all. `PROJECT.json` maps each definition to the source lines it
models.

Contents: [inventory](#inventory) · [modules](#modules) ·
[runs and what they show](#runs) · [where the code differs from its
documentation](#differences) · [fairness](#fairness) · [proofs](#proofs) ·
[assumptions and limits](#assumptions-and-limits) · [not modelled](#not-modelled)

## Inventory

Paths are relative to `src/`; `QW` stands for `QtWebApp`.

### Threads

The **main thread** runs the listener, the pool, the session timer, the logger's
timers and the whole WebSocket service. Every `HttpConnectionHandler` is a
**thread of its own** with an event loop; it parses, dispatches and answers the
requests of one connection after the other. So everything a request handler
shares — sessions, the file cache, the template cache, the logger — is used by
up to `maxThreads` (100 in `Demo1.ini`) threads and the main thread.

### Components

| Component | State | Operations | What makes it correct |
|---|---|---|---|
| **Listener, pool, handlers** `QW/httpserver/http{listener,connectionhandlerpool,connectionhandler}.cpp` | listening socket; list of handlers; per handler `busy`, socket, timer, current request, queued events | `incomingConnection`, `close`, `listen`; `getConnectionHandler`, `cleanup`, destructor; `handleConnection`, `read`, `readTimeout`, `disconnected`, destructor | a handler has one connection at a time; requests never mix; every open connection is timed; pool bounded; only spare handlers removed; nobody waits for ever |
| **Request parser** `QW/httpserver/httprequest.cpp` | status, line buffer, byte count, headers, body | `readFromSocket` → `readRequest`, `readHeader`, `readBody` | a request consumes exactly its bytes, however TCP cuts them; limits hold; what is within the limits is accepted |
| **Response** `httpresponse.cpp`, and `httpconnectionhandler.cpp:196-283` | headers, sent flags, chunked mode; `closeConnection` | `setHeader`, `write`, `redirect`; the decision to close | the client can tell where a response ends, and whether the connection goes on |
| **Session data** `httpsession.cpp` | `refCount`, `lastAccess`, values, a read-write lock | copy, assign, destroy; `set`, `get`, … | deleted once, when the last reference goes |
| **Session store** `httpsessionstore.cpp` | map of sessions, mutex, timer | `getSessionId`, `getSession` (two forms), `removeSession`, `sessionTimerEvent` | a live session keeps its cookie; an expired one stays away; abandoned ones go |
| **Static files** `staticfilecontroller.cpp` | bounded cache, mutex | `service` | no content older than `cacheTime`; cache within its size |
| **Template cache** `QW/templateengine/templatecache.cpp` | bounded cache, mutex | `tryFile` | as above, and what is returned still exists |
| **Template loader, templates** `templateloader.cpp`, `template.cpp` | a string being rewritten | `getTemplate`; `setVariable`, `setCondition`, `loop` | the preferred language is taken; rewriting terminates |
| **Logger** `QW/logging` | two mutexes in `msgHandler`, `Logger::mutex`, thread-local buffers, backups | `log`, `clear`, `refreshSettings`, `rotate` | no deadlock when the logger itself logs; backups bounded. Its installation is commented out in `main.cpp` |
| **WebSocket service** `Demo1/src/echoserver.cpp`, `global.cpp` | global scene, transmitter, receiver, obstacle car — one set for all clients | `processTextMessage` → `updateScene`, `updateVehicle`, `VPL`, `DynamicVPL` | a result belongs to the scene and vehicles its client sent |
| **Ray tracer** `Demo1/src/{tracer,mesh,path,…}.h` | grid of cells, tree of rays | `verticalPlane`, `processNLOSv`, `channelGain` | recursion bounded, paths run from transmitter to receiver |
| **Browser client** `localjs/{websocket,readfile,webgl}.js` | global `features`, `roads`, `senario`, bounding box; `vehicleDTO`, `count`; the scene | load a map by promise chains, send it, place vehicles by clicks, draw results | a map that is sent has its own features; each building, road and ray that is shown is in an array and in one bounding box; a vehicle's places are on the map that was sent |
| Mapper, controllers, start-up | none of their own | dispatch by path | – |
| Charts, service framework, unused classes | – | – | not modelled |

### How they interact

* The listener finds a handler in the pool, marks it **busy** and queues a
  `handleConnection` event for its thread. The handler clears `busy` in
  `disconnected()`. These two are the only traffic between the threads;
  there is no mutex on `busy`.
* A handler feeds its socket to an `HttpRequest`, passes the complete request to
  the mapper, and from there to a controller. `HttpResponse` writes to the
  socket, and may wait there, which lets `disconnected()` run inside `service()`.
* Controllers call the session store, static files and template cache, each
  with its own mutex; a session object then outlives the store's mutex.
* The browser loads pages and maps over HTTP and talks JSON with the WebSocket service
  on port 1234: a scenario when a map has been read, a vehicle after its second click,
  the bare message "2" for results. It keeps its own copy of the bounding box with which
  the service, too, turns coordinates into places.

### Hard behaviours

`PROJECT.json` lists them as hazards with their lines. In short: the pool's search
interleaved with handlers that end; a connection that ends inside `service()`; the
read timer; closing while events are queued; TCP cutting lines between CR and LF;
counts at a limit; reference counting under a *read* lock; the gap between two
critical sections of `getSession()`; clocks read before a mutex is awaited; entries
of a cache used after the mutex is released; a search for a template made of several
critical sections; the end of a response decided in three places; one obstacle car shared by
all pages; promise chains of two maps, and of one, that fill the same global arrays;
a bounding box that changes between two clicks.

## Modules

| Module | Models |
|---|---|
| `ConnectionPool` | listener, pool and handlers; two kinds of process |
| `ConnectionService` | what they promise together: the abstract specification `ConnectionPool` implements |
| `HttpRequest` | the parser, and the loop that starts the next one (pipelining) |
| `HttpResponse` | a response and the decision to close the connection, with a client that reads it |
| `SessionData` | the reference count of one session's data |
| `SessionStore` | the store, its requests and its timer |
| `RayService` | the WebSocket service, its pages and what they share |
| `Tracer` | the recursion that finds the paths, and what is read of them |
| `ObjectCache` | `QCache` as used here: the operators the two caches share |
| `StaticFileCache` | `StaticFileController::service()` |
| `TemplateCache` | `TemplateCache::tryFile()` |
| `TemplateLoader` | `TemplateLoader::getTemplate()`, on top of `TemplateCache` |
| `Page` | what the parts of the browser client share: the socket, the bounding box |
| `MapLoading` | `readfile.js`, and the drawing it causes |
| `VehiclePlacing` | choosing a vehicle and placing it with two clicks (`webgl.js`) |
| `BrowserClient` | the page: `MapLoading` and `VehiclePlacing` in one thread |
| `MC…` | model values, symmetry and client byte streams for TLC |
| `…_proof` | theorems |

### ConnectionPool

`main` and `at` are the main thread's place in its code: `"get"` in the search of
`getConnectionHandler()`, `"cleanup"` in the loop of `cleanup()`, `"reap"` and
`"close"` in the destructors. Each loop is one step per `isBusy()` it reads, so that
handlers run between two reads. `pc[h]` is a handler's place: `"loop"` in its event
loop, `"service"` in the request handler, `"closing"` while it flushes.

| Action | Code |
|---|---|
| `Incoming`, `PassBusy`, `TakeFree`, `Create`, `Reject` | `incomingConnection()` with `getConnectionHandler()` |
| `Cleanup`, `KeepHandler`, `Reap`, `Reaped`, `CleanupDone` | `cleanup()`; `Reap` enters the destructor, `Reaped` is the return of `wait()` |
| `Close`, `CloseNext`, `Closed`, `Listen` | `close()`, `~HttpConnectionHandlerPool()`, `listen()` |
| `HandleConnection`, `DescriptorFails` | `handleConnection()` |
| `Read`, `KeepAlive`, `CloseAfterResponse` | `read()`, cut where `service()` is called and where it returns |
| `ReadTimeout`, `Flushed` | `readTimeout()` and every flush-and-disconnect |
| `PeerGone` | `disconnected()` called by Qt, in the event loop or inside `waitForBytesWritten()` |
| `Exit` | the end of the event loop after `quit()` |

What is queued, open or lost on a handler is `HeldBy(h)`; the refinement to
`ConnectionService` maps `holding` to the union of these. There, a place is taken
when a connection is admitted and freed when it ends; a connection is turned away
only if all places were taken when it arrived. The refinement thus says that the
unsynchronized search finds a free place whenever there was one at arrival. Two
endings of the abstract specification are not nice: `leaked` (dropped by `close()`
before it was handled) and a place that stays taken after `FailToAdopt`. The code
has both.

### HttpRequest

A byte is a record; the first byte of a line carries what the line says, so that
lines can be cut anywhere and still be understood when they are whole. Each action is
one call of `readFromSocket()`, split by what it finds: part of a line, a request line,
a header, the end of the headers, a piece of the body. TCP may end a segment anywhere, and the
limit of a line may, too; `lineEndCut` remembers that a line was read with its CR and without its LF. `currentSize`,
its odd counting of partial lines and the limits are as in the code, and so are its ints: `ToInt` is 0 for a length that is no int
(`httprequest.cpp:121`), `Sums` lets a sum that does not fit wrap around or not, both of which a build may do (`:130`, `:160`), and `Taken` reads nothing
for a negative size. `headers` maps the place of a line to what it says; of several lines of one kind `ValueOf` takes the last. What clients send is any sequence of
bytes; `WellFormed` says when it keeps to the protocol: whole requests, one behind the other, up to something that is none.

### HttpResponse

A connection serves one request after the other: `Request` is the part of `read()` that makes a
response for it; then the request handler runs, in steps `SetClose`, `SetLength`, `WritePart` and
`Throw`; `Finish` completes the response and decides whether to close. A body is its size.
`client` is a client that follows RFC 7230: from the headers it knows whether the body ends
after a length, after an empty chunk or when the connection is closed (`Framing`), and it counts. After HEAD,
and with status 204 or 304, it expects none (`Bodyless`), although `write()` sends one all the same; `surplus` remembers that.
The request handler behaves as those of the repository do: status and headers before the first `write()`,
nothing after the last part, no more than the length it has declared, and no less where a body is expected.

### SessionData, SessionStore

`SessionData` follows one `HttpSessionData`. Objects attach in one step (write lock)
and detach in five: lock for reading, read the counter, write it, unlock, delete.
Two detaching objects may therefore lose a decrement. `refCount--` and `--refCount`,
which `operator=` and the destructor use, are told apart.

`SessionStore` cuts `getSession()` where it releases the mutex: validating the id
(`GetSessionId`), looking it up (`Found`, `Create`, `NullSession`), setting the cookie
(`SetCookie`), reading the clock and writing the access time (`ReadClock`,
`WriteAccess`). The timer event holds the mutex from `TimerEvent` to the last `Check` or
`Erase`, but does not stop requests that no longer need the mutex. Access times are
represented by their age, so the clock runs for ever in a finite model.

### RayService, Tracer

`RayService` is `EchoServer`: its handler of text messages, the fields it keeps between
them and the global vehicles, which all pages share. Each page has an `inbox`; the event
loop takes one message at a time. `UpdateScene`, `UpdateTx`, `UpdateRx`, `UpdateCar` are the
messages "senario" and "vehicle"; `Ask` is "2", after which `tracing` counts the moments still
to compute, each a step `VPL`, until `Answer`. The handlers run to their end: while
`tracing` is not `Idle` nothing else is handled, but pages go on sending. A place is
*on the map* or *beside the map* (the page's plane is larger than its map) together with `frame`, the
scenario whose bounding box was used to compute it. Where the code has undefined behaviour
(null pointers, a receiver or car outside the mesh's array, reads past the end of a path) the
process may crash or go on. A car carries how often a mesh has scaled it, and `uses` records which
moments of which answers it was part of.

`Tracer` is what happens inside one `VPL`. `verticalPlane()` and `traceOneRay()` call each
other; `nodeList` is both the path so far and the stack of that recursion. A ray misses, reaches the
receiver, is reflected or meets a corner: `Miss`, `Receive`, `Reflect`, `Diffract`; `Return` is
the end of the loop over a node's rays. Which of them happens depends on geometry, which is left
open, so the model has every path the code can find and some that no map has. Then
`ProcessNLOSv` records the paths around the obstacle car; `obstacle` is how many of its
edges cross the line of sight.

### StaticFileCache, TemplateCache, ObjectCache

A document is represented by the moment at which its file was read; this is what
staleness is about. `ObjectCache!Insertions` is the set of caches `QCache::insert()`
may leave: it evicts until the rest fits, and deletes an entry that is larger than
the whole cache at once. Which entries are evicted is left open (Qt evicts the least
recently used), so what holds here holds for any policy. `TemplateCache!Copy` reads an
entry after the mutex has been released; if it has been deleted, the result may be `Garbage`.

`TemplateLoader` EXTENDS `TemplateCache`: a call tries its `Attempts`, one `tryFile()` after the
other; `place` is the one it has come to. It goes on until a document is not empty. Between two attempts other threads load and evict what this
one has seen. `missing` remembers what each attempt that failed had read.

### Page, MapLoading, VehiclePlacing, BrowserClient

The client is one thread; what interleaves are event handlers and the links of promise chains.
`ParseDefaultfile` starts two chains for a load: `ReadFeature` and `ReadRoad` each append what one
promise has read to the global array, `FinishBuildings` and `FinishRoads` are the last links: they set the
bounding box, draw, and, for buildings, send the scenario. Loads may overlap, a file may break off
(`BuildingsFail`, `RoadsFail`), and answers may arrive at any moment (`Output`, `ProcessDynamic`).

A feature is represented by the load that read it and its position; a bounding box by the load and the
array it was read from; what is drawn, by the box in use when it was drawn. `strays` says that
the scene shows a building or a road that no array names. `filesRead` is which of the two buffers for files hold one. `VehiclePlacing` keeps for each place in `vehicleDTO` the
box that turned the click into coordinates; `cursor` is the mesh that follows the mouse until the first click, `lostCursors` that one was added while
another was still shown, which then stays; `server` is the box of the scenario that the service has got. `sent` is what the step puts
on the socket: `sendMessage()` throws while it is connecting, and the browser drops what is sent after it has closed;
nothing in the page connects again.

What the page cannot put right is marked in history variables, and the properties name them: `overlapped`
(something begun or drawn during a load), `uncleared` (left by a load that failed or by
`parseFile()`, or drawn by a dynamic answer), `roadsFirst`, `switched` (another vehicle chosen after the first click) and
`reframed` (the box has changed between the clicks).

## Runs

| Run | Bounds | Question |
|---|---|---|
| `pool_safety` | 3 connections, 3 handler objects, at most 2 threads, 1 piece of data per connection, 1 failing descriptor; symmetry; 1.07 million states | Are handlers shared or lost, requests mixed, connections untimed, handlers removed that are needed? Is `ConnectionService` implemented? |
| `pool_liveness` | 2 connections, 2 threads, `minThreads` 0, descriptors that can be adopted; 92,000 states | If peers take their responses or go: does every accepted connection end, do `close()` and `cleanup()` return? Does the pool shrink? |
| `request_framing` | all pairs of 7 requests, cut anywhere; limits of 14 and 15 bytes, with requests below and above both; largest int 31, with lengths just below and above it; 0.19 million states | Does each request take its own bytes, within the limits? Is everything read? |
| `session_data` | 4 objects, counter up to 5 | Is the data deleted once and never in use? |
| `session_use_after_free` | 2 objects | Does no one touch it afterwards? (no) |
| `session_store` | 2 requests, 2 session ids; a session expires as soon as the clock has moved since its last access; 0.7 million states | Are cookies kept, sessions not revived, abandoned ones erased? |
| `static_cache` | 2 threads, 2 paths, files below and above both limits, 4 moments | How old can content be? Does the cache fit? |
| `template_cache` | 2 threads, browsers that accept de_AT, or de and de_AT; missing templates, and documents up to larger than the cache; `cacheTime` 2, 3 moments; symmetry; 0.96 million states | How old can content be? Is newer replaced by older? Is the preferred language taken? |
| `ray_service` | 2 pages, 2 scenarios, 6 messages of any kind, answers of 0 to 2 moments, 1 message waiting per page; 0.36 million states | Is the shared obstacle car consistent, at its size, used once, never lost? Is every message handled? |
| `tracer` | 5 reflections as in the code, 3 rays per node, cars crossed by 0 to 2 edges; 0.37 million states | Are paths well formed, is the depth bounded, does the recursion end? |
| `http_response` | bodies of up to 3 bytes in any parts; any number of requests, HEAD among them, any status; 9,002 states | Does the client find the end of each response? Do both sides agree on closing? |
| `browser_client` | 2 loads, maps of 2 features, each kind of vehicle, placed while no load or one has been started; 2.5 million states | Does a scenario have its own features? Are buildings, roads and rays tracked, and in one box? Are a vehicle's places on the map the service has? |

Why these bounds suffice to show the interesting cases: two handlers and three
connections let one connection be searched for while one ends and another is queued
behind a `service()` that still runs; three handler objects allow a removed handler to be
replaced by a new one in a list of two. Two requests are what the gap in `getSession()` needs,
with a third process, the timer; two ids allow one to go and the other to replace it.
Four objects allow two detachments at once with two more still attached, so that a
lost decrement matters. A cached file may be inserted up to three moments after it was
read, more than `cacheTime`. In `request_framing` both limits are hit exactly, exceeded by
one and exceeded by more, and one multipart request, when it arrives in
pieces that are counted again, has the limit between the CR and the LF that end its headers. Two more streams have
lengths near the largest int, followed by a second request: one that overflows the sum with the headers, and one that is no int.
`MCHttpRequest` assumes, and TLC evaluates, that all these streams are `WellFormed`. In `ray_service` six messages are enough for one page to place the vehicles
and ask while the other replaces the obstacle car before, between and after two questions, and for two
moments of one answer, the second of which must not have the car. The tracer needs more than
one ray at a node (else nothing follows a return) and the five reflections of the code.
In `http_response` three bytes allow two non-empty parts, the last of them too short for a declared length.
In `template_cache` the two lists make all three names candidates, in both orders of locale and language, while a cache
of one document forgets at each step what was found. In `browser_client` the second load finds what the
first one left, finished or not, and maps of two features can be read in part; a load that is
started while a vehicle is placed changes the box between two clicks.

`BrowserClient` places vehicles only until `MaxLoadsPlacing` loads have been started.

Actions need no bound except: pieces of data per connection (`MaxChunks`), failing descriptors
(`MaxFailures`), the reference counter (`MaxCount`, since lost decrements let it grow)
the clocks of the caches (`MaxTime`), the messages and moments of `RayService`
(`MaxMessages`, `MaxInbox`, `MaxMoments`), the loads and the size of maps (`MaxLoads`, `MapSize`)
and the size of a body (`MaxBody`). `CHECK_DEADLOCK FALSE` is set where a system may
stop: a client sends no more, all ids of the model are used, no object refers to the data, the tracer has returned, the service
waits for pages, the connection of the responses is closed or lost, all calls for a template have returned and the clock is at its bound.

Every property of a passing run has a mutant: a variant of one definition, kept beside it
in its module as "Faulty variant" or "Mutant", with which TLC finds the property violated.

### The properties

`ConnectionPool`
: `OneConnectionPerHandler` — one connection per handler, and one handler per connection,
  although `busy` is cleared while `service()` may still run.
: `RequestOfConnection` — what one connection left behind never becomes part of another's request.
: `OpenIsTimed` — a handler that waits for data has its timer running.
: `PoolBounded`, `ReapsOnlySpare` — at most `maxThreads`; what `cleanup()` removes is unused, and
  `minThreads` idle ones are left at that moment.
: `BusyMeansInUse` — no handler is lost to the pool, unless the descriptor it was given could not be adopted.
: `ImplementsService` — the refinement.
: `AcceptedEnds`, `MainReturns` — if peers take their responses or go (`PeersTakeResponses`), an accepted connection is closed, or its
  descriptor fails, or `close()` drops it while it is queued; and the main thread does not wait for ever. Without the premise both fail:
  the code flushes without a timeout.
: `IdlePoolShrinks` — the idle pool comes down to `minThreads`.

`HttpRequest`
: `FramedExactly` — a complete request has consumed its own bytes and no byte of the next,
  unless a line was read without its LF, or a length was given that is no int (`OutOfStep`; see the differences).
: `SizeBounded` — what one request makes the server read and keep, unless its length is so near the largest int that the sum
  the code checks may overflow (`SumOverflows`).
: `AllRead` — the loop does not spin.

`HttpResponse`
: `ClientFindsEnd` — nothing is garbled, and a response has ended, completely, when the next one may begin or the
  connection closes; or the connection's end is its end. It exempts a response that breaks off after it has announced a length and the end of the
  connection, and everything behind a body that is written where none belongs.
: `CloseAgreed` — the server closes only what the client expects to be closed, and keeps nothing it said
  it would close (but for "connection: close" in lower case).

`SessionData`
: `NotFreedInUse` — never deleted early, nor twice.

`SessionStore`
: `CookieKept` — a request that calls `getSession()` again keeps its session as long as it is alive.
: `NoRevival` — what has left the store does not return.
: `AbandonedErased` — what nobody uses goes.

Caches
: `BoundedStaleness` — nothing older than `cacheTime`, though entries are dated before the mutex is awaited.
: `CacheFits` — in `StaticFileCache`, in sum and each.
: `NeverReplacedByOlder` — in `TemplateCache`, which loads under the mutex. (`StaticFileCache` loads
  before it takes the mutex, and may replace newer by older.)
: `PreferredFirst` — `TemplateLoader` takes a template only if each preferred one was missing
  less than `cacheTime` before the call or during it. The set of preferred names is defined apart from the order in which the code tries them.
: `LoaderInv` — the invariant behind them.

`RayService`
: `UsedOnce` — a car is part of one moment of one answer: `VPL()` pops it before a second mesh
  scales the same object again.
: `CarNotLost` — the last car placed is waiting or was used.
: `Handled` — what a page sends is handled, though another page keeps the loop busy.
: `IndInv` — among others, the flag `vehicleAdded` and the list agree, so that `pop_back()` and
  `carList[0]` find a car, and the right one, at its size (`ScaledOnce`).

`Tracer`
: `PathShape` — a bent path runs from transmitter to receiver over at most `maxReflectNum` nodes,
  at most one of them a diffraction.
: `Terminates` — the mutual recursion ends, whatever the rays meet.
: `IndInv` — among others, `diffractNum` is the number of corners on the stack, and its depth
  is bounded.

`BrowserClient`
: `SceneTracked` — each building, road and ray that is shown is named by an array, so that it can be removed, and the buildings and rays are
  in one box; the roads, too, unless they came first.
: `OwnFeatures` — a scenario that is sent has exactly the features of its map.
: `VehicleOnServersMap` — a vehicle is sent with all its places, in the box of the scenario that the service has.
: `IndInv` — among others, the box in use is that of the scenario that was sent, though chains that read roads set it, too.

## Differences

The run marked "(no)", `session_use_after_free`, shows where the code does not do what a comment
says. Detaching takes the lock for reading; the thread that counts down to zero may
delete the data, with the lock, that another has not yet released. `httpsession.h:19`:
"This class is thread safe."

The rest is in the models, and either a property names it as its exception, or no property asks.

*Server.* When `setSocketDescriptor()` fails, `handleConnection()` returns with `busy` set, and the thread is lost
until the listener is closed (`httpconnectionhandler.cpp:101`; `.h:66`: "Returns true, if this handler is in use"); `BusyMeansInUse`
names it. `HttpRequest` takes a line to be whole when
it holds a CR; if the segment ends there, the LF that comes next is taken for the empty line, and later
headers, the Content-Length among them, are read as the next request (`httprequest.cpp:67`). A read of `maxSize-currentSize+1`
bytes (`:28`, "allow one byte more to be able to detect overflow") may end there as well. Mostly that is the
overflow the comment speaks of, and the request is refused; but behind the headers of a multipart request the
size is compared with `maxMultiPartSize` instead (`:305`), the request goes on, and the LF that was left
becomes the first byte of its body. A line that
arrives in pieces is counted again with each piece, so that a request smaller than
`maxRequestSize` may be refused (`httprequest.cpp:66`). A Content-Length that is no int is 0 to `toInt()` (`:121`): the request is
complete without a body, and its body is read as the next requests. One that is, but with the size of the headers gives a sum that is not, passes the
check of `:130` when the sum wraps around; the request is refused only when a part of its body has been read, as large as what has arrived.
`FramedExactly` and `SizeBounded` name these. The form fields in a multipart body are counted after they have been read and on top of its
headers (`:494`), so that a body within `maxMultiPartSize` may be refused. A template is copied from its cache entry after
the mutex is released, when the entry may be gone (`templatecache.cpp:26`, `:36`);
`StaticFileController` does it in the other order and says why. "connection: close" in lower case
is told to the client, and suppresses chunks (`httpresponse.cpp:118`), but does not close the connection
(`httpconnectionhandler.cpp:245`); if then a request handler has declared a length and throws before it is
reached, the kept connection leaves the client waiting; `CloseAgreed` and `ClientFindsEnd` name the two. `write()` looks neither at the
method nor at the status (`httpresponse.cpp:128`), and `StaticFileController` writes the file for HEAD, too (`staticfilecontroller.cpp:40`): the client takes that
body for the beginning of the next response; `ClientFindsEnd` names it. `httpresponse.h:85` says that chunks are used "if there is no Content-Length
header and also no Connection:close header"; `httpresponse.cpp:116` asks for the second only, so that a body in several parts with a declared length is sent in chunks and with the header. A client
that lets chunks outweigh the length, as RFC 7230 demands, reads it correctly. The text of the 408 answer to a
read timeout is commented out. `close()` may drop a
connection that is queued (`leaked`), though `httplistener.h:68` says that it "waits until all
pending requests are processed": `AcceptedEnds` and `ConnectionService` name it; `operator=` of a session tests the counter before the
decrement and never deletes; a session's access time may go back by the time between
two lines of `setLastAccess()`; a multipart body of exactly `maxMultiPartSize` bytes is
admitted by its header and refused at its last byte; entries for missing templates cost
nothing and are not limited.

*Application.* `channelGain()` reads four nodes of a path around an obstacle car (`path.h:185`). When the car
does not stand in the line of sight, such paths are recorded all the same, with two nodes; with
three when one edge is crossed. The page's `drawPath()` (`webgl.js:571-576`) takes four for granted too. "2" before any
vehicle follows a null pointer (`echoserver.cpp:67`), the duration of a movement uses `Txt2` and `Rxt2`
before they are set (`:163`), and a receiver beside the map is written outside the
grid (`mesh.h:87`).

*Browser.* `dynamicMod == undefined && dynamicMod == false` (`webgl.js:293`) is never true, so that a vehicle always
takes two clicks. `setTx()`, unlike `setVehicle()`, keeps the number of clicks, and either keeps the places of a
vehicle that was begun. A map is cleared only if something has been drawn and not by `parseFile()`; a load begun during
another mixes features and leaves meshes; one that fails leaves its features; the lines of a dynamic answer are never
removed. If the roads of a map are read before its buildings, the box is set again and the roads stay where they were.
A scenario is drawn although the socket could not send it, and nothing connects again. Choosing a vehicle adds a mesh that follows the mouse
(`webgl.js:163`, `:400`); a second choice without a click overwrites the only variable that names it, and the first mesh stays in the scene.

## Fairness

* `ConnectionPool`: weak fairness of each handler's thread and of the main thread
  inside its loops (the operating system schedules them), and of the periodic cleanup timer. A handler's
  steps include the read timer, which `OpenIsTimed` shows to be active, but not the end of a write (`Writing`): the
  code flushes in loops without a timeout, so progress there is the *peer's*. That it takes
  the response is not part of the fairness but the premise `PeersTakeResponses` of the two properties that need it. What is assumed is that
  the handler notices a peer that has gone (`PeerGone`). Nothing is assumed of clients' sending, and
  nothing of `close()`.
* `HttpRequest`: weak fairness of parsing while bytes are there. Nothing of the client.
* `SessionStore`: weak fairness of a request inside `getSession()` and of the timer, which fires
  every minute. Time passes, with *strong* fairness, because the model stops the clock
  during a timer event (which reads the clock once), so that ticks are
  repeatedly disabled.
* `RayService`: *strong* fairness of handling each page's messages: the event loop serves
  the sockets in turn, but a page's message can only be taken between the
  questions of another, so it is enabled again and again rather than always. Weak fairness of
  computing an answer, which the handler does in one go. Nothing is assumed of pages.
* `Tracer`: weak fairness of its steps, all parts of one call.

The other modules state safety only. In the browser a chain may break off at any moment, and the user need do nothing.

## Proofs

All theorems are about every value of the constants: any number of connections, handlers,
requests, ids, objects, loads, features, sizes and times, under the assumptions named in the modules
(numbers are natural, the "no connection" value is no connection; for the pool and the
reference count, that the sets are finite and there are enough handler objects).

| Theorem | Property | Module |
|---|---|---|
| `Invariance` | `IndInv` (type correctness included) | `ConnectionPool_proof` |
| `ExclusiveHandlers` | `OneConnectionPerHandler` | |
| `BoundedPool` | `PoolBounded` | |
| `RequestsUnmixed` | `RequestOfConnection` | |
| `OpenConnectionsTimed` | `OpenIsTimed` | |
| `BusyOnlyInUse` | `BusyMeansInUse` | |
| `OnlySpareReaped` | `ReapsOnlySpare` | |
| `ServiceImplemented` | `ImplementsService`, the refinement | |
| `Typed`, `RequestsAreBounded` | `TypeOK`, `SizeBounded` of `HttpRequest`, for any ints | `Http_proof` |
| `RequestsAreFramed` | `FramedExactly`, for well-formed streams | |
| `ResponseInvariance`, `EveryResponseEnds`, `CloseIsAgreed` | `ResponseInv`, `ClientFindsEnd`, `CloseAgreed` | |
| `CountedInvariance`, `DeletedLast` | `CountedInv` (in no run), `NotFreedInUse` | `Session_proof` |
| `CookieInvariance`, `CookiesAreKept`, `NoneRevived` | `CookieInv`, `CookieKept`, `NoRevival` | |
| `NeverTooStale`, `CacheStaysWithinItsSize` | `BoundedStaleness`, `CacheFits` | `StaticFileCache_proof` |
| `LoaderInvariance` | `LoaderInv`, and `SearchInv` | `TemplateLoader_proof` |
| `NeverTooStale`, `NewerReplacesOlder`, `PreferredIsTaken` | `BoundedStaleness`, `NeverReplacedByOlder`, `PreferredFirst` | |
| `Invariance`, `CarUsedOnce`, `LastCarNotLost` | `IndInv`, `UsedOnce` and `ScaledOnce`, `CarNotLost` | `RayService_proof` |
| `Invariance`, `PathsWellShaped` | `IndInv`, `PathShape` | `Tracer_proof` |
| `PageInvariance`, `SceneIsTracked` | `IndInv`, `SceneTracked` | `BrowserClient_proof` |
| `FeaturesAreOwn`, `VehicleIsOnServersMap` | `OwnFeatures`, `VehicleOnServersMap` | |

The arguments:

* **Pool.** `OneConnectionPerHandler` is not inductive. It needs to know that the pool owns
  every thread that runs and lists it once (`PoolInv`), which handlers are certainly alive
  where the main thread is (`MainInv`: in `"get"`, the connection it carries has not been given away),
  that a handler with a queued event has no open socket (`HandlerInv`),
  and that a held connection was accepted and has one owner (`OwnerInv`). The case that
  matters is `TakeFree`: the handler was not busy when it was read, so by `HandlerInv` it
  held nothing, and only the main thread can post to it.
  `RequestsUnmixed` and `OpenConnectionsTimed` follow from small invariants of their own.
* **Pool as a service.** By `IndInv` a handler holds at most one connection, `Held(h)`, and
  `Holding` is the set of these. `PlaceInv` adds two things. A handler is busy only while it holds one, so that
  if all handlers of a full pool were busy on arrival, all places were taken. And as long as there was a place
  on arrival, the pool can grow or a free handler lies ahead of the search: a handler behind it was busy when it was
  passed, and one ahead does not become busy, since only the main thread makes it so. So a search that comes to the end of
  a full pool was started when all places were taken, as `TurnAway` demands. `Admit` needs a place to be free
  at that moment: the handler that is taken, or the one that is created, holds none, and the others are at most `maxThreads - 1`
  (an injection from connections to positions of the list). Every other step ends a connection or is a stutter.
* **Cleanup.** The count in `idle` is at most the number of positions behind `at` whose handlers are idle now:
  they were idle when they were counted, and stay so while the main thread is in the loop (`SpareInv`).
* **Requests.** That sizes are bounded needs no assumption about what clients send, but that the limits are small enough that two of them fit into an int
  (`HttpRequestAssumption`): then only a Content-Length can make a sum overflow. By `SizeInv`, a parser that has not
  given up has counted at least as many bytes as it has read, and its buffered line among them: counting pieces twice errs on
  the safe side. So the limit of the next line is never 0, and no line takes the request further than one byte beyond `maxRequestSize`.
  Framing is about `WellFormed` streams, and says where in the stream a parser stands in each state (`Placed`): after a whole line
  in the headers, in the midst of a line with what is buffered being the beginning of it, or in a body, after `bodySize` of its bytes; and that the headers
  received are those sent so far. `FramingInv` is `~OutOfStep => Placed`. An end of
  headers then gives the length with which the client computed where its request ends, since in a well-formed
  request all lengths given are that of the body, and the length is an int, so that `toInt()` leaves it as it is.
  A first version, in which only TCP could cut a line end, could not be proved for the end of the headers: the proof led to the multipart request of the differences,
  which TLC then found too, with a request of the right size.
* **Responses.** `ServiceInv` says how headers, flags and the client's view agree after each part: chunked mode is only
  chosen if no header announces the end of the connection and the version knows chunks; a length is either declared, and
  bounds what has been written, or was computed with the one and last part; without either the client has been told that the connection will be closed. Where no body belongs the response has ended with its headers; what the client
  makes of a body that is sent there is left open, for all that follows (`surplus`).
* **Session data.** (`CountedInv`.) Decrements can be lost, so `refCount` is only an upper bound: it, and each value
  that was read from it, is at least the number of objects not yet counted down. So the value that a
  thread sees become zero shows that it was the last; after that, no object is left to attach from.
* **Session store.** `CookieInv` relates what `getSession()` carries across the gap: while
  a request is between the two critical sections, the id it carries is that of its response cookie, or
  that session has gone; and all that ever was in the store has been issued. Both action
  properties follow step by step.
* **Static files.** An entry's date is not later than the moment its content was read,
  because the clock was read before the file. With the test of `Valid` this bounds the age of
  whatever is sent, whatever the threads do in between. `CacheFits` speaks of a sum over the entries, which the library computes by a
  recursion that takes the smallest element (by `CHOOSE`) from a set of paths. `SumsExist` and `SumsWithout` show, by well-founded induction over the subsets of a
  finite set, that it is a sum: natural, and less by an entry's cost when that entry is evicted. Then each cache `QCache` may leave fits.
* **Templates.** `LoaderInv` is the same for the template cache: under the mutex a document is loaded and dated with a clock
  read before, so that dates are never too late, and a newer document replaces an older one. `SearchInv` follows a search from attempt to attempt:
  all names before `place` are among those that were `missing`, each read less than `cacheTime` before the search began or during it.
  That the names preferred to the one found are all at earlier places is a fact about `Attempts`, in which locales, languages and the default may name the same template several times
  (`PreferredBefore`).
* **WebSocket service.** The heart is `OneCar`: the list has a car exactly when the flag is set, and
  then it is the last one placed and no mesh has scaled it. So the scene gets it once, its one scaling
  makes its size 1, and popping it at once keeps it from every later moment. A car's identity is
  its number, so those already used are all smaller than the one that waits.
* **Tracer.** The shape of a path is the shape of the stack when the receiver is met. The stack
  has the transmitter at the bottom only, at most one corner (`diffractNum` counts them, and a second
  needs it to be 0), and no reflecting node below the top deeper than the limit. The only way to a
  path of full length is that the deepest node is a corner, which is traced without a test of the depth.
* **Browser.** `LoadInv` says what a load finds and leaves if nothing disturbs it: all loads before it have come to their end,
  the arrays hold what it has read so far and nothing else, nothing is drawn that it will draw, and what is
  drawn is in the box in use. It is preserved because `ClearScene` clears when the `gui` exists, and the `gui` exists when
  anything was drawn. `PlacesOfClicks` follows the number of clicks; with `FrameOfServer` it says that
  places taken from the box in use are places on the service's map.

Every invariant and every action property that a run checks is stated by a theorem. Only model-checked are the liveness
properties, which rest on fairness and so on ENABLED, out of the prover's reach: `AcceptedEnds`, `MainReturns`, `IdlePoolShrinks`, `AllRead`, `AbandonedErased`,
`Handled` and `Terminates`. (`NoUseAfterFree` does not hold.) What the theorems about requests do not cover is streams that are not `WellFormed`,
lines read without their LF and lengths that are no ints: there the requests are bounded and typed, but not framed.

## Assumptions and limits

* Qt: `disconnectFromHost()` on an empty write buffer, `close()` and a vanished peer call
  `disconnected()` before they return; queued events are delivered in order;
  events left in a queue are dropped with the event loop. `wire` is what the kernel and
  Qt have buffered; both are discarded when the socket is closed.
* In `ConnectionPool` a piece of data leaves a request incomplete, completes it or makes it
  too large; how bytes become pieces is `HttpRequest`.
* TLS, the address of the peer, priorities and the `catch` at the end of `run()` are left out. The
  pool's destructor and `cleanup()` run in the main thread, so the pool's mutex never
  blocks.
* `HttpRequest`: parameters, cookies and folded header lines are left out; of the parts of a multipart body only the size of its form
  fields is kept, which may be any part of it. A multipart body is never longer than the
  64 kB block it is written in. The limits in the settings are far below the largest int.
* `SessionStore`: the values of sessions and the text of cookies are left out; new ids are new.
* `HttpResponse`: cookies, `redirect()` and a `write()` that fails half way are left out, and of the status all but whether it is
  204 or 304, which no controller of the repository sets; a client
  sends its next request when it has the response. Errors sent by `SendError` have no headers but "Connection: close".
* `BrowserClient`: the 3D models, lines and texts of the vehicles that were placed, layers and colours are left out; a map has as many features as any other, and one
  road stands for its roads. What is drawn before there is a box has the box `None` (coordinates that are NaN). `reset()` is
  taken to have the colour map it removes.
* Caches: files are replaced as a whole; `cost` is the document's size.
* Clocks do not go back.
* `RayService`: speeds, positions and the moments' dates are left out, and so are
  malformed messages, which change nothing. What a page lost in a closed connection had sent is dropped.
* `Tracer`: a path is represented by its nodes' types, `allPath` by a set; ray casting in the grid ends
  because the ray leaves it, which is not modelled. The tests on `diffractNum == 0.1` (`tracer.h:297`)
  can never be true and have no action.

The browser and the service are two models. They meet in three places: the page's messages are those of
`RayService`; `server` is its scenario as one page knows it; and another page may replace that scenario, which
`RayService` models (`frame`) and a page cannot see.

## Not modelled

* **Logger.** `main.cpp` has its installation commented out; no thread runs any of it.
* **Template rewriting** (`setVariable`, `setCondition`, `loop`): text replacement in the memory of one thread. That two of
  these never return when an end tag is missing (`template.cpp:102`) depends on the text alone.
* **Decoding in the parser** (parameters, cookies, multipart parts, folded lines), and the
  plain accessors of session values: sequential code without state that others share.
* **Mapper, controllers, start-up**: a dispatch without state; the models take the behaviour of callers from it.
* **The geometry and radio formulas** of the tracer: floating-point arithmetic; what a ray meets is left open instead.
* **Drawing in the browser** beyond what is drawn when, and the charts: presentation.
* **Third-party code.** Nearly all the JavaScript of the repository is bundled (`three.js` and its loaders and
  examples, Bootstrap, jQuery, ECharts, shapefile readers); the program's own is `localjs`, about 2,400 lines in four files, of which
  `echart.js` draws charts. So whatever is modelled, the share of the repository's JavaScript that the models
  can stand for stays small; of the C++ of `QtWebApp` and `Demo1/src` they stand for what is named in the inventory.

What would come next: one composition of several `BrowserClient`s with `RayService`, in which a scenario of one page
meets the vehicle of another; the expansion of templates as functions, checked against a definition over bounded templates.
