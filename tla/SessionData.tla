---------------------------- MODULE SessionData ----------------------------
(***************************************************************************)
(* The reference counting of one HttpSessionData, shared by HttpSession    *)
(* objects of several threads: the map of HttpSessionStore, a copy in each *)
(* request, the copy the expiry timer makes.                               *)
(*                                                                         *)
(* An object is used by one thread at a time; the one in the map is used   *)
(* under the store's mutex.  Copying takes the lock for writing, so        *)
(* attaching is one step.  Detaching takes it for READING, so several      *)
(* objects detach at once, and `--refCount' is a read and a write with     *)
(* other threads in between.                                               *)
(*                                                                         *)
(* operator= attaches the new reference first and then gives up the old    *)
(* one: two elements of Objects.                                           *)
(***************************************************************************)
EXTENDS Integers, FiniteSets

CONSTANTS
    Objects,   \* references to the data: the members dataPtr of HttpSession objects
    MaxCount   \* bound of the model: lost decrements let refCount grow for ever

ASSUME SessionDataAssumption == IsFiniteSet(Objects) /\ MaxCount \in Nat

VARIABLES
    stage,      \* "none": does not refer to the data; "alive": refers to it;
                \* "locked".."delete": inside ~HttpSession() or operator=
    assigned,   \* it detaches in operator= rather than in the destructor
    count,      \* the local variable refCount of the detaching object
    refCount,   \* HttpSessionData::refCount
    readers,    \* who holds HttpSessionData::lock for reading
    frees       \* how often the data has been deleted

dataVars == <<stage, assigned, count, refCount, readers, frees>>

DataTypeOK ==
    /\ stage \in [Objects -> {"none", "alive", "locked", "loaded", "stored", "delete"}]
    /\ assigned \in [Objects -> BOOLEAN]
    /\ count \in [Objects -> Int]
    /\ refCount \in Int
    /\ readers \in SUBSET Objects
    /\ frees \in Nat

\* HttpSession(true): the first object creates the data.
DataInit ==
    /\ \E o \in Objects : stage = [p \in Objects |-> IF p = o THEN "alive" ELSE "none"]
    /\ assigned = [o \in Objects |-> FALSE]
    /\ count = [o \in Objects |-> 0]
    /\ refCount = 1
    /\ readers = {}
    /\ frees = 0

\* Faulty variant: copying takes the lock for reading, like everything else.
AttachUnderReadLock(o, p) ==
    /\ stage[o] = "alive"
    /\ stage[p] = "none"
    /\ refCount < MaxCount
    /\ refCount' = refCount + 1
    /\ stage' = [stage EXCEPT ![p] = "alive"]
    /\ UNCHANGED <<assigned, count, readers, frees>>

\* Copy constructor, or the attaching half of operator=: p becomes another
\* reference to the data of o.
Attach(o, p) ==
    /\ stage[o] = "alive"
    /\ stage[p] = "none"
    /\ readers = {}
    /\ refCount < MaxCount
    /\ refCount' = refCount + 1
    /\ stage' = [stage EXCEPT ![p] = "alive"]
    /\ UNCHANGED <<assigned, count, readers, frees>>

\* ~HttpSession(), or the detaching half of operator=: lockForRead().
Lock(o) ==
    /\ stage[o] = "alive"
    /\ stage' = [stage EXCEPT ![o] = "locked"]
    /\ assigned' \in {[assigned EXCEPT ![o] = b] : b \in BOOLEAN}
    /\ readers' = readers \union {o}
    /\ UNCHANGED <<count, refCount, frees>>

\* The read half of the decrement.
Load(o) ==
    /\ stage[o] = "locked"
    /\ stage' = [stage EXCEPT ![o] = "loaded"]
    /\ count' = [count EXCEPT ![o] = refCount]
    /\ UNCHANGED <<assigned, refCount, readers, frees>>

\* The write half.  The destructor keeps the new value (--refCount),
\* operator= keeps the old one (refCount--).
Store(o) ==
    /\ stage[o] = "loaded"
    /\ stage' = [stage EXCEPT ![o] = "stored"]
    /\ refCount' = count[o] - 1
    /\ count' = [count EXCEPT ![o] = IF assigned[o] THEN @ ELSE @ - 1]
    /\ UNCHANGED <<assigned, readers, frees>>

\* unlock(), and the test of the local count.
Unlock(o) ==
    /\ stage[o] = "stored"
    /\ stage' = [stage EXCEPT ![o] = IF count[o] = 0 THEN "delete" ELSE "none"]
    /\ readers' = readers \ {o}
    /\ assigned' = [assigned EXCEPT ![o] = FALSE]
    /\ count' = [count EXCEPT ![o] = 0]
    /\ UNCHANGED <<refCount, frees>>

Delete(o) ==
    /\ stage[o] = "delete"
    /\ stage' = [stage EXCEPT ![o] = "none"]
    /\ frees' = frees + 1
    /\ UNCHANGED <<assigned, count, refCount, readers>>

Step(o) == Lock(o) \/ Load(o) \/ Store(o) \/ Unlock(o) \/ Delete(o)

DataNext ==
    \/ \E o \in Objects : Step(o)
    \/ \E o, p \in Objects : Attach(o, p)

DataSpec == DataInit /\ [][DataNext]_dataVars

-----------------------------------------------------------------------------
\* Objects whose decrement has not been stored yet.
Counted == {o \in Objects : stage[o] \in {"alive", "locked", "loaded"}}

\* The data is not deleted while an object refers to it, and not twice: two
\* decrements under the read lock can lose one, but never count one too many.
NotFreedInUse == frees <= 1 /\ (frees = 1 => Counted = {})

\* "This class is thread safe": no thread touches the data after it has been
\* deleted.  A detaching object still has to unlock it.
NoUseAfterFree == frees > 0 => \A o \in Objects : stage[o] \in {"none", "delete"}

\* The inductive invariant: neither the counter nor a value that was loaded from
\* it is lower than the number of objects still to be counted down, so the last
\* one alone can see zero.
CountedInv ==
    /\ DataTypeOK
    /\ readers = {o \in Objects : stage[o] \in {"locked", "loaded", "stored"}}
    /\ refCount >= Cardinality(Counted)
    /\ \A o \in Objects : stage[o] = "loaded" => count[o] >= Cardinality(Counted)
    /\ \A o \in Objects :
          (stage[o] = "stored" /\ count[o] = 0) \/ stage[o] = "delete" =>
              /\ Counted = {}
              /\ frees = 0
              /\ \A p \in Objects \ {o} :
                    ~(stage[p] = "stored" /\ count[p] = 0) /\ stage[p] # "delete"
    /\ frees > 0 => Counted = {}
    /\ frees <= 1

=============================================================================
