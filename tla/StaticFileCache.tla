-------------------------- MODULE StaticFileCache --------------------------
(***************************************************************************)
(* StaticFileController::service(): one controller serves the files of the *)
(* docroot to all handler threads from a cache that a mutex protects.  A   *)
(* thread holds the mutex to look an entry up and again to insert one, and *)
(* reads the file in between.                                              *)
(*                                                                         *)
(* The content of a file is represented by the moment at which it was      *)
(* read: what the file then contained.  The names of files, whether they   *)
(* exist and their sizes are chosen by the file system on every access.    *)
(***************************************************************************)
EXTENDS Integers, ObjectCache

CONSTANTS
    Requests,            \* the requests being served, each by its own thread
    Paths,               \* request paths
    Sizes,               \* the sizes a file may have
    MaxCachedFileSize,   \* maxCachedFileSize
    MaxCost,             \* cacheSize
    CacheTime,           \* cacheTime; 0: entries do not time out
    MaxTime              \* bound of the model: the clock stops there

ASSUME StaticFileCacheAssumption ==
    /\ Sizes \subseteq Nat
    /\ MaxCachedFileSize \in Nat
    /\ MaxCost \in Nat
    /\ CacheTime \in Nat
    /\ MaxTime \in Nat

VARIABLES
    time,    \* the clock
    cache,   \* StaticFileController::cache
    pc,      \* what each request does
    path,    \* its path
    start,   \* its local variable now
    size,    \* the size of the file it is reading, to be stored
    doc      \* the content it sends, if any

vars == <<time, cache, pc, path, start, size, doc>>

NoDoc == -1   \* nothing has been read, or the answer is 403 or 404

Entries == [document : Nat, created : Nat, cost : Nat]

TypeOK ==
    /\ time \in Nat
    /\ \E keys \in SUBSET Paths : cache \in [keys -> Entries]
    /\ pc \in [Requests -> {"idle", "check", "open", "read", "stream", "insert", "done"}]
    /\ path \in [Requests -> Paths]
    /\ start \in [Requests -> Nat]
    /\ size \in [Requests -> Nat]
    /\ doc \in [Requests -> Nat \union {NoDoc}]

Init ==
    /\ time = 0
    /\ cache = NoEntries
    /\ pc = [r \in Requests |-> "idle"]
    /\ path \in [Requests -> Paths]
    /\ start = [r \in Requests |-> 0]
    /\ size = [r \in Requests |-> 0]
    /\ doc = [r \in Requests |-> NoDoc]

Valid(entry, now) == CacheTime = 0 \/ entry.created > now - CacheTime

\* service() is called and reads the clock.
Begin(r) ==
    /\ pc[r] \in {"idle", "done"}
    /\ \E p \in Paths : path' = [path EXCEPT ![r] = p]
    /\ start' = [start EXCEPT ![r] = time]
    /\ doc' = [doc EXCEPT ![r] = NoDoc]
    /\ pc' = [pc EXCEPT ![r] = "check"]
    /\ UNCHANGED <<time, cache, size>>

\* The document is copied while the mutex is held, "because other threads may
\* destroy the cached entry immediately after mutex unlock".
Hit(r) ==
    /\ pc[r] = "check"
    /\ path[r] \in DOMAIN cache
    /\ Valid(cache[path[r]], start[r])
    /\ doc' = [doc EXCEPT ![r] = cache[path[r]].document]
    /\ pc' = [pc EXCEPT ![r] = "done"]
    /\ UNCHANGED <<time, cache, path, start, size>>

Miss(r) ==
    /\ pc[r] = "check"
    /\ path[r] \in DOMAIN cache => ~Valid(cache[path[r]], start[r])
    /\ pc' = [pc EXCEPT ![r] = "open"]
    /\ UNCHANGED <<time, cache, path, start, size, doc>>

\* The path is forbidden, or the file does not exist or cannot be opened: 403 or 404.
Refuse(r) ==
    /\ pc[r] = "open"
    /\ pc' = [pc EXCEPT ![r] = "done"]
    /\ UNCHANGED <<time, cache, path, start, size, doc>>

\* Faulty variant: maxCachedFileSize is ignored.
OpenAnySize(r) ==
    /\ pc[r] = "open"
    /\ \E n \in Sizes : size' = [size EXCEPT ![r] = n]
    /\ pc' = [pc EXCEPT ![r] = "read"]
    /\ UNCHANGED <<time, cache, path, start, doc>>

\* The file is opened and its size decides whether it will be stored.
Open(r) ==
    /\ pc[r] = "open"
    /\ \E n \in Sizes :
          IF n <= MaxCachedFileSize
          THEN size' = [size EXCEPT ![r] = n] /\ pc' = [pc EXCEPT ![r] = "read"]
          ELSE UNCHANGED size /\ pc' = [pc EXCEPT ![r] = "stream"]
    /\ UNCHANGED <<time, cache, path, start, doc>>

\* The content is read and written to the response.
Read(r) ==
    /\ pc[r] \in {"read", "stream"}
    /\ doc' = [doc EXCEPT ![r] = time]
    /\ pc' = [pc EXCEPT ![r] = IF @ = "read" THEN "insert" ELSE "done"]
    /\ UNCHANGED <<time, cache, path, start, size>>

\* Faulty variant: the entry is dated when it is stored.
InsertDatedLate(r) ==
    /\ pc[r] = "insert"
    /\ cache' \in Insertions(cache, path[r],
                    [document |-> doc[r], created |-> time, cost |-> size[r]], MaxCost)
    /\ pc' = [pc EXCEPT ![r] = "done"]
    /\ size' = [size EXCEPT ![r] = 0]
    /\ UNCHANGED <<time, path, start, doc>>

\* It is stored as of the moment the request came in.
Insert(r) ==
    /\ pc[r] = "insert"
    /\ cache' \in Insertions(cache, path[r],
                    [document |-> doc[r], created |-> start[r], cost |-> size[r]], MaxCost)
    /\ pc' = [pc EXCEPT ![r] = "done"]
    /\ size' = [size EXCEPT ![r] = 0]
    /\ UNCHANGED <<time, path, start, doc>>

Tick ==
    /\ time < MaxTime
    /\ time' = time + 1
    /\ UNCHANGED <<cache, pc, path, start, size, doc>>

Serve(r) ==
    Begin(r) \/ Hit(r) \/ Miss(r) \/ Refuse(r) \/ Open(r) \/ Read(r) \/ Insert(r)

Next == (\E r \in Requests : Serve(r)) \/ Tick

Spec == Init /\ [][Next]_vars

-----------------------------------------------------------------------------
\* What a request sends is what the file contained at some moment less than
\* cacheTime before the request, or later, no matter how long threads pause
\* between looking up, reading and storing.
BoundedStaleness ==
    CacheTime > 0 =>
        \A r \in Requests : doc[r] # NoDoc => doc[r] > start[r] - CacheTime

\* The documents in the cache fit into cacheSize, and none of them is larger than
\* maxCachedFileSize: "Large files are not cached".
CacheFits ==
    /\ TotalCost(cache) <= MaxCost
    /\ \A p \in DOMAIN cache : cache[p].cost <= MaxCachedFileSize

\* The inductive invariant: an entry is not newer than the content it holds.
IndInv ==
    /\ TypeOK
    /\ \A p \in DOMAIN cache : cache[p].created <= cache[p].document
    /\ \A r \in Requests :
          /\ start[r] <= time
          /\ pc[r] \in {"check", "open", "read", "stream"} => doc[r] = NoDoc
          /\ pc[r] = "insert" => doc[r] >= start[r]
    /\ BoundedStaleness

=============================================================================
