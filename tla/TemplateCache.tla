--------------------------- MODULE TemplateCache ---------------------------
(***************************************************************************)
(* TemplateCache::tryFile(): handler threads get template documents from a *)
(* cache that a mutex protects.  A missing entry is loaded and inserted    *)
(* while the mutex is held; but the document is copied from the entry only *)
(* after the mutex has been released, when the entry may be gone.          *)
(*                                                                         *)
(* A document is represented by the moment at which the file was read.     *)
(***************************************************************************)
EXTENDS Integers, ObjectCache

CONSTANTS
    Requests,    \* the calls of getTemplate(), each by its own thread
    Names,       \* localized template names
    Objects,     \* the CacheEntry objects on the heap
    NoObject,    \* none of them
    Sizes,       \* the sizes a document may have; 0: there is no such file
    MaxCost,     \* cacheSize
    CacheTime,   \* cacheTime; 0: entries do not time out
    MaxTime      \* bound of the model: the clock stops there

ASSUME TemplateCacheAssumption ==
    /\ Sizes \subseteq Nat
    /\ MaxCost \in Nat
    /\ CacheTime \in Nat
    /\ MaxTime \in Nat
    /\ NoObject \notin Objects

VARIABLES
    time,       \* the clock
    cache,      \* TemplateCache::cache
    pc,         \* what each call does
    name,       \* its parameter localizedName
    start,      \* its local variable now
    entry,      \* its local variable entry, a pointer
    document,   \* when the document it has got or is about to copy was read
    empty       \* whether that document is the empty string

callVars == <<pc, name, start, entry, document, empty>>
vars == <<time, cache, callVars>>

NoTime == -1
Garbage == -2    \* what is copied from an entry that has been deleted

Entries == [object : Objects, document : Nat, created : Nat, cost : Nat]

TypeOK ==
    /\ time \in Nat
    /\ \E keys \in SUBSET Names : cache \in [keys -> Entries]
    /\ pc \in [Requests -> {"idle", "lock", "copy", "returned"}]
    /\ name \in [Requests -> Names]
    /\ start \in [Requests -> Nat]
    /\ entry \in [Requests -> Objects \union {NoObject}]
    /\ document \in [Requests -> Nat \union {NoTime, Garbage}]
    /\ empty \in [Requests -> BOOLEAN]

Init ==
    /\ time = 0
    /\ cache = NoEntries
    /\ pc = [r \in Requests |-> "idle"]
    /\ name = [r \in Requests |-> CHOOSE n \in Names : TRUE]
    /\ start = [r \in Requests |-> 0]
    /\ entry = [r \in Requests |-> NoObject]
    /\ document = [r \in Requests |-> NoTime]
    /\ empty = [r \in Requests |-> FALSE]

\* Faulty variant: an entry is still used when its time has just run out.
ValidTooLong(e, now) == CacheTime = 0 \/ e.created >= now - CacheTime

Valid(e, now) == CacheTime = 0 \/ e.created > now - CacheTime

Cached == {cache[n].object : n \in DOMAIN cache}

InUse == Cached \union {entry[r] : r \in {q \in Requests : pc[q] = "copy"}}

\* tryFile() is called and reads the clock, before it takes the mutex.
Call(r, n) ==
    /\ pc[r] \in {"idle", "returned"}
    /\ name' = [name EXCEPT ![r] = n]
    /\ start' = [start EXCEPT ![r] = time]
    /\ document' = [document EXCEPT ![r] = NoTime]
    /\ pc' = [pc EXCEPT ![r] = "lock"]
    /\ UNCHANGED <<time, cache, entry, empty>>

\* A valid entry is found: its address is kept, and the mutex released.
Hit(r) ==
    /\ pc[r] = "lock"
    /\ name[r] \in DOMAIN cache
    /\ Valid(cache[name[r]], start[r])
    /\ entry' = [entry EXCEPT ![r] = cache[name[r]].object]
    /\ document' = [document EXCEPT ![r] = cache[name[r]].document]
    /\ empty' = [empty EXCEPT ![r] = cache[name[r]].cost = 0]
    /\ pc' = [pc EXCEPT ![r] = "copy"]
    /\ UNCHANGED <<time, cache, name, start>>

\* Faulty variant: the time of expiry is stored where the time of creation is
\* expected.
LoadStoresExpiry(r, o) ==
    /\ pc[r] = "lock"
    /\ name[r] \in DOMAIN cache => ~Valid(cache[name[r]], start[r])
    /\ o \notin InUse
    /\ \E n \in Sizes :
          /\ cache' \in Insertions(cache, name[r],
                [object |-> o, document |-> time, created |-> start[r] + CacheTime,
                 cost |-> n], MaxCost)
          /\ empty' = [empty EXCEPT ![r] = n = 0]
    /\ entry' = [entry EXCEPT ![r] = o]
    /\ document' = [document EXCEPT ![r] = time]
    /\ pc' = [pc EXCEPT ![r] = "copy"]
    /\ UNCHANGED <<time, name, start>>

\* Faulty variant: the cache is searched and the file read before the mutex is
\* taken, which only protects the insertion.
LoadBeforeLock(r, o) ==
    /\ pc[r] = "lock"
    /\ o \notin InUse
    /\ \E n \in Sizes :
          /\ cache' \in Insertions(cache, name[r],
                [object |-> o, document |-> start[r], created |-> start[r], cost |-> n],
                MaxCost)
          /\ empty' = [empty EXCEPT ![r] = n = 0]
    /\ entry' = [entry EXCEPT ![r] = o]
    /\ document' = [document EXCEPT ![r] = start[r]]
    /\ pc' = [pc EXCEPT ![r] = "copy"]
    /\ UNCHANGED <<time, name, start>>

\* The file is loaded into a new entry, which is inserted even if there is no
\* such file; then the mutex is released.
Load(r, o) ==
    /\ pc[r] = "lock"
    /\ name[r] \in DOMAIN cache => ~Valid(cache[name[r]], start[r])
    /\ o \notin InUse
    /\ \E n \in Sizes :
          /\ cache' \in Insertions(cache, name[r],
                [object |-> o, document |-> time, created |-> start[r], cost |-> n], MaxCost)
          /\ empty' = [empty EXCEPT ![r] = n = 0]
    /\ entry' = [entry EXCEPT ![r] = o]
    /\ document' = [document EXCEPT ![r] = time]
    /\ pc' = [pc EXCEPT ![r] = "copy"]
    /\ UNCHANGED <<time, name, start>>

\* return entry->document.  If the cache has deleted the entry since, what is
\* read may still be the document, or not.
Copy(r) ==
    /\ pc[r] = "copy"
    /\ \/ UNCHANGED <<document, empty>>
       \/ /\ entry[r] \notin Cached
          /\ document' = [document EXCEPT ![r] = Garbage]
          /\ \E e \in BOOLEAN : empty' = [empty EXCEPT ![r] = e]
    /\ pc' = [pc EXCEPT ![r] = "returned"]
    /\ entry' = [entry EXCEPT ![r] = NoObject]
    /\ UNCHANGED <<time, cache, name, start>>

Tick ==
    /\ time < MaxTime
    /\ time' = time + 1
    /\ UNCHANGED <<cache, callVars>>

\* A step of a call that goes on.
TryFile(r) == Hit(r) \/ Copy(r) \/ \E o \in Objects : Load(r, o)

-----------------------------------------------------------------------------
\* A document that a call returns is what the file contained at some moment less
\* than cacheTime before the call, or later.  This leaves out calls that return
\* Garbage, because the entry was evicted before it was copied.
BoundedStaleness ==
    CacheTime > 0 =>
        \A r \in Requests :
            document[r] \notin {NoTime, Garbage} => document[r] > start[r] - CacheTime

\* Files are loaded under the mutex, one at a time: an entry is never replaced by
\* an older document, not even by a thread that had to wait for the mutex.
NeverReplacedByOlder ==
    [][\A n \in DOMAIN cache :
          n \in DOMAIN cache' => cache'[n].document >= cache[n].document]_vars

\* The inductive invariant: an entry is not newer than the document it holds,
\* and nothing is newer than the clock.
IndInv ==
    /\ TypeOK
    /\ \A n \in DOMAIN cache :
          cache[n].created <= cache[n].document /\ cache[n].document <= time
    /\ \A r \in Requests :
          /\ start[r] <= time
          /\ pc[r] = "lock" => document[r] = NoTime
    /\ BoundedStaleness

=============================================================================
