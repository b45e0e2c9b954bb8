--------------------------- MODULE Session_proof ---------------------------
(***************************************************************************)
(* TLAPS proofs about sessions.                                            *)
(*                                                                         *)
(* SessionData.  The argument: a reader that loaded the counter loaded at  *)
(* least the number of references not yet counted down, and stores at      *)
(* least that number less itself.  A decrement that gets lost leaves the   *)
(* counter too high, never too low; so only the last reference to be       *)
(* counted down can see zero.                                              *)
(*                                                                         *)
(* SessionStore.  CookieInv is inductive, and every step from a state that *)
(* satisfies it keeps the cookie of a response and brings no session back. *)
(***************************************************************************)
EXTENDS SessionData, SessionStore, FiniteSetTheorems, TLAPS

-----------------------------------------------------------------------------
(***************************************************************************)
(* The data of a session                                                   *)
(***************************************************************************)
USE SessionDataAssumption

\* The references still to be counted down are finitely many.
LEMMA CountedFinite == IsFiniteSet(Counted) /\ Cardinality(Counted) \in Nat
  <1>1. IsFiniteSet(Counted)
    BY FS_Subset DEF Counted
  <1> QED  BY <1>1, FS_CardinalityType

\* The first object counts itself.
LEMMA InitInv == DataInit => CountedInv
  <1> SUFFICES ASSUME DataInit PROVE CountedInv  OBVIOUS
  <1>1. PICK o \in Objects : stage = [p \in Objects |-> IF p = o THEN "alive" ELSE "none"]
    BY DEF DataInit
  <1>2. Counted = {o}
    BY <1>1 DEF Counted
  <1>3. Cardinality(Counted) = 1
    BY <1>2, FS_Singleton
  <1>4. DataTypeOK
    BY <1>1 DEF DataInit, DataTypeOK
  <1>5. \A p \in Objects : stage[p] \in {"alive", "none"}
    BY <1>1
  <1> QED  BY <1>3, <1>4, <1>5 DEF DataInit, CountedInv

\* A reference is copied: nobody is counting down, so only the counter moves.
LEMMA AttachInv ==
  ASSUME CountedInv, NEW o \in Objects, NEW p \in Objects, Attach(o, p)
  PROVE  CountedInv'
  <1> USE DEF Attach
  <1>1. DataTypeOK'
    BY DEF CountedInv, DataTypeOK
  <1>2. Counted' = Counted \union {p} /\ p \notin Counted /\ o \in Counted
    BY DEF CountedInv, DataTypeOK, Counted
  <1>3. Cardinality(Counted') = Cardinality(Counted) + 1
    BY <1>2, CountedFinite, FS_AddElement
  <1>4. refCount' >= Cardinality(Counted')
    BY <1>3, CountedFinite DEF CountedInv, DataTypeOK
  <1>5. \A q \in Objects : stage[q] \notin {"locked", "loaded", "stored"}
    BY DEF CountedInv
  <1>6. \A q \in Objects : stage[q] # "delete"
    BY <1>2 DEF CountedInv
  <1>7. \A q \in Objects : stage'[q] \in {"none", "alive"}
    BY <1>5, <1>6 DEF CountedInv, DataTypeOK
  <1>8. frees = 0 /\ frees' = 0
    BY <1>2 DEF CountedInv, DataTypeOK
  <1>9. readers' = {q \in Objects : stage'[q] \in {"locked", "loaded", "stored"}}
    BY <1>7
  <1> QED  BY <1>1, <1>4, <1>7, <1>8, <1>9 DEF CountedInv

\* The lock is taken for reading: any number of references may do so.
LEMMA LockInv == ASSUME CountedInv, NEW o \in Objects, Lock(o) PROVE CountedInv'
  <1> USE DEF Lock
  <1>1. DataTypeOK'
    BY DEF CountedInv, DataTypeOK
  <1>2. Counted' = Counted
    BY DEF CountedInv, DataTypeOK, Counted
  <1>3. \A q \in Objects : stage'[q] = IF q = o THEN "locked" ELSE stage[q]
    BY DEF CountedInv, DataTypeOK
  <1>4. readers' = {q \in Objects : stage'[q] \in {"locked", "loaded", "stored"}}
    BY <1>3 DEF CountedInv
  <1> QED  BY <1>1, <1>2, <1>3, <1>4 DEF CountedInv

LEMMA LoadInv == ASSUME CountedInv, NEW o \in Objects, Load(o) PROVE CountedInv'
  <1> USE DEF Load
  <1>1. DataTypeOK'
    BY DEF CountedInv, DataTypeOK
  <1>2. Counted' = Counted
    BY DEF CountedInv, DataTypeOK, Counted
  <1>3. \A q \in Objects : /\ stage'[q] = IF q = o THEN "loaded" ELSE stage[q]
                           /\ count'[q] = IF q = o THEN refCount ELSE count[q]
    BY DEF CountedInv, DataTypeOK
  <1>4. readers' = {q \in Objects : stage'[q] \in {"locked", "loaded", "stored"}}
    BY <1>3 DEF CountedInv
  <1> QED  BY <1>1, <1>2, <1>3, <1>4 DEF CountedInv

\* The counter is written back: at least the number of the references left.
\* The local count is zero only if none is left.
LEMMA StoreInv == ASSUME CountedInv, NEW o \in Objects, Store(o) PROVE CountedInv'
  <1> USE DEF Store
  <1>1. DataTypeOK'
    BY DEF CountedInv, DataTypeOK
  <1>2. o \in Counted /\ Counted' = Counted \ {o}
    BY DEF CountedInv, DataTypeOK, Counted
  <1>3. Cardinality(Counted') = Cardinality(Counted) - 1
    BY <1>2, CountedFinite, FS_RemoveElement
  <1>4. count[o] >= Cardinality(Counted) /\ Cardinality(Counted) \in Nat
    BY CountedFinite DEF CountedInv
  <1>5. \A q \in Objects : /\ stage'[q] = IF q = o THEN "stored" ELSE stage[q]
                           /\ q # o => count'[q] = count[q]
    BY DEF CountedInv, DataTypeOK
  <1>6. readers' = {q \in Objects : stage'[q] \in {"locked", "loaded", "stored"}}
    BY <1>5 DEF CountedInv
  <1>7. refCount' >= Cardinality(Counted')
    BY <1>3, <1>4 DEF CountedInv, DataTypeOK
  <1>8. \A q \in Objects : stage'[q] = "loaded" => count'[q] >= Cardinality(Counted')
    BY <1>3, <1>4, <1>5 DEF CountedInv, DataTypeOK
  <1>9. frees = 0 /\ frees' = 0
    BY <1>2 DEF CountedInv, DataTypeOK
  <1>10. \A q \in Objects : ~(stage[q] = "stored" /\ count[q] = 0) /\ stage[q] # "delete"
    BY <1>2 DEF CountedInv
  <1>11. count'[o] = 0 => Cardinality(Counted') = 0
    <2>1. Cardinality(Counted') \in Nat
      BY <1>2, CountedFinite, FS_RemoveElement, FS_CardinalityType
    <2> QED  BY <2>1, <1>3, <1>4 DEF CountedInv, DataTypeOK
  <1>12. Cardinality(Counted') = 0 => Counted' = {}
    BY <1>2, CountedFinite, FS_RemoveElement, FS_EmptySet
  <1> QED  BY <1>1, <1>5, <1>6, <1>7, <1>8, <1>9, <1>10, <1>11, <1>12 DEF CountedInv

LEMMA UnlockInv == ASSUME CountedInv, NEW o \in Objects, Unlock(o) PROVE CountedInv'
  <1> USE DEF Unlock
  <1>1. DataTypeOK'
    BY DEF CountedInv, DataTypeOK
  <1>2. Counted' = Counted
    BY DEF CountedInv, DataTypeOK, Counted
  <1>3. \A q \in Objects :
           /\ stage'[q] = IF q # o THEN stage[q] ELSE IF count[o] = 0 THEN "delete" ELSE "none"
           /\ q # o => count'[q] = count[q]
    BY DEF CountedInv, DataTypeOK
  <1>4. readers' = {q \in Objects : stage'[q] \in {"locked", "loaded", "stored"}}
    BY <1>3 DEF CountedInv
  <1> QED  BY <1>1, <1>2, <1>3, <1>4 DEF CountedInv

LEMMA DeleteInv == ASSUME CountedInv, NEW o \in Objects, Delete(o) PROVE CountedInv'
  <1> USE DEF Delete
  <1>1. DataTypeOK'
    BY DEF CountedInv, DataTypeOK
  <1>2. Counted' = Counted /\ Counted = {} /\ frees = 0
    BY DEF CountedInv, DataTypeOK, Counted
  <1>3. \A q \in Objects : stage'[q] = IF q = o THEN "none" ELSE stage[q]
    BY DEF CountedInv, DataTypeOK
  <1>4. readers' = {q \in Objects : stage'[q] \in {"locked", "loaded", "stored"}}
    BY <1>3 DEF CountedInv
  <1> QED  BY <1>1, <1>2, <1>3, <1>4 DEF CountedInv

\* CountedInv is an invariant: the counter of HttpSessionData is never lower than
\* the number of references that still have to be counted down.
THEOREM CountedInvariance == DataSpec => []CountedInv
  <1>1. CountedInv /\ [DataNext]_dataVars => CountedInv'
    <2> SUFFICES ASSUME CountedInv, [DataNext]_dataVars PROVE CountedInv'  OBVIOUS
    <2>1. CASE UNCHANGED dataVars
      BY <2>1 DEF dataVars, CountedInv, DataTypeOK, Counted
    <2>2. CASE \E o, p \in Objects : Attach(o, p)
      BY <2>2, AttachInv
    <2>3. CASE \E o \in Objects : Step(o)
      BY <2>3, LockInv, LoadInv, StoreInv, UnlockInv, DeleteInv DEF Step
    <2> QED  BY <2>1, <2>2, <2>3 DEF DataNext
  <1> QED  BY InitInv, <1>1, PTL DEF DataSpec

\* However many HttpSession objects of however many threads are copied and
\* destroyed at once, the data they share is deleted at most once, and not
\* before the last of them gives it up.
THEOREM DeletedLast == DataSpec => []NotFreedInUse
  <1>1. CountedInv => NotFreedInUse
    BY DEF CountedInv, NotFreedInUse
  <1> QED  BY <1>1, CountedInvariance, PTL

-----------------------------------------------------------------------------
(***************************************************************************)
(* The store                                                               *)
(***************************************************************************)
USE SessionStoreAssumption

\* The requests' part of CookieInv, for one request.
RequestInv(r) ==
    /\ response[r] \in OrNone(issued)
    /\ sessionId[r] \in OrNone(issued)
    /\ session[r] \in OrNone(issued)
    /\ pc[r] \in {"lookup", "setcookie"} /\ response[r] \in sessions =>
          sessionId[r] = response[r]
    /\ pc[r] = "idle" => response[r] = NoId
    /\ pc[r] = "setcookie" => session[r] = sessionId[r] /\ session[r] # NoId
    /\ pc[r] \in {"clock", "access"} => session[r] # NoId

AllRequestsInv == sessions \subseteq issued /\ \A r \in Requests : RequestInv(r)

LEMMA CookieInvParts == CookieInv <=> TypeOK /\ AllRequestsInv
  BY DEF CookieInv, AllRequestsInv, RequestInv

\* Other requests keep their part when one request moves and no session that
\* was issued before enters the store.
LEMMA OthersKeep ==
  ASSUME CookieInv, NEW r \in Requests, NEW q \in Requests, q # r,
         pc'[q] = pc[q], response'[q] = response[q],
         sessionId'[q] = sessionId[q], session'[q] = session[q],
         issued \subseteq issued',
         sessions' \subseteq Ids, sessions' \intersect issued \subseteq sessions
  PROVE  RequestInv(q)'
  <1>1. RequestInv(q)
    BY CookieInvParts DEF AllRequestsInv
  <1>2. response[q] \in sessions' => response[q] \in sessions
    BY <1>1 DEF RequestInv, OrNone, CookieInv, TypeOK
  <1> QED  BY <1>1, <1>2 DEF RequestInv, OrNone

LEMMA InitCookie == Init => CookieInv
  BY DEF Init, CookieInv, TypeOK, OrNone, Ages, Old

\* The types, one action at a time.
LEMMA TypeStep == TypeOK /\ [Next]_vars => TypeOK'
  <1> SUFFICES ASSUME TypeOK, [Next]_vars PROVE TypeOK'  OBVIOUS
  <1> USE DEF TypeOK, OrNone, storeVars, timerVars, requestVars
  <1>0. 0 \in Ages /\ \A a \in Ages : a # Old => a + 1 \in Ages
    BY DEF Ages, Old
  <1>1. ASSUME NEW r \in Requests, Begin(r) PROVE TypeOK'
    <2>1. PICK c \in OrNone(issued \union {Unknown}) : cookie' = [cookie EXCEPT ![r] = c]
      BY <1>1 DEF Begin
    <2> QED  BY <1>1, <2>1 DEF Begin
  <1>2. ASSUME NEW r \in Requests, End(r) PROVE TypeOK'
    BY <1>2 DEF End
  <1>3. ASSUME NEW r \in Requests, GetSessionId(r) PROVE TypeOK'
    <2>1. sessionId'[r] \in OrNone(Ids) /\ sessionId' = [sessionId EXCEPT ![r] = sessionId'[r]]
      BY <1>3 DEF GetSessionId
    <2>2. sessionId' \in [Requests -> OrNone(Ids)]
      BY <2>1
    <2> QED  BY <1>3, <2>2 DEF GetSessionId
  <1>4. ASSUME NEW r \in Requests, Found(r) PROVE TypeOK'
    BY <1>4 DEF Found
  <1>5. ASSUME NEW r \in Requests, NEW i \in Ids, Create(r, i) PROVE TypeOK'
    BY <1>0, <1>5 DEF Create
  <1>6. ASSUME NEW r \in Requests, NullSession(r) PROVE TypeOK'
    BY <1>6 DEF NullSession
  <1>7. ASSUME NEW r \in Requests, SetCookie(r) PROVE TypeOK'
    BY <1>7 DEF SetCookie
  <1>8. ASSUME NEW r \in Requests, NEW i \in Ids, GetById(r, i) PROVE TypeOK'
    BY <1>8 DEF GetById
  <1>9. ASSUME NEW r \in Requests, ReadClock(r) PROVE TypeOK'
    BY <1>0, <1>9 DEF ReadClock
  <1>10. ASSUME NEW r \in Requests, WriteAccess(r) PROVE TypeOK'
    BY <1>0, <1>10 DEF WriteAccess
  <1>11. ASSUME NEW r \in Requests, Remove(r) PROVE TypeOK'
    BY <1>11 DEF Remove
  <1>12. CASE TimerEvent
    BY <1>12 DEF TimerEvent
  <1>13. ASSUME NEW i \in Ids, Check(i) PROVE TypeOK'
    BY <1>13 DEF Check
  <1>14. CASE Erase
    BY <1>14 DEF Erase
  <1>15. CASE Tick
    BY <1>0, <1>15 DEF Tick
  <1>16. CASE UNCHANGED vars
    BY <1>16 DEF vars
  <1> QED
    BY <1>1, <1>2, <1>3, <1>4, <1>5, <1>6, <1>7, <1>8, <1>9, <1>10, <1>11,
       <1>12, <1>13, <1>14, <1>15, <1>16 DEF Next, Finish, Sweep

\* The requests' part, for the request that moves and for the others.
LEMMA CookieStep == CookieInv /\ [Next]_vars => CookieInv'
  <1> SUFFICES ASSUME CookieInv, [Next]_vars PROVE CookieInv'  OBVIOUS
  <1>0. TypeOK /\ TypeOK' /\ sessions \subseteq issued
    BY TypeStep DEF CookieInv
  <1>r. \A r \in Requests : RequestInv(r)
    BY CookieInvParts DEF AllRequestsInv
  <1>k. SUFFICES AllRequestsInv'
    BY <1>0 DEF CookieInv, AllRequestsInv, RequestInv
  <1> USE DEF storeVars, timerVars, requestVars
  <1>1. ASSUME NEW r \in Requests, Begin(r) PROVE AllRequestsInv'
    <2>1. RequestInv(r)'
      BY <1>0, <1>1, <1>r DEF Begin, RequestInv, OrNone, TypeOK
    <2>2. \A q \in Requests \ {r} : RequestInv(q)'
      BY <1>0, <1>1, OthersKeep DEF Begin, TypeOK
    <2> QED  BY <1>0, <1>1, <2>1, <2>2 DEF AllRequestsInv, Begin
  <1>2. ASSUME NEW r \in Requests, End(r) PROVE AllRequestsInv'
    <2>1. RequestInv(r)'
      BY <1>0, <1>2, <1>r DEF End, RequestInv, OrNone, TypeOK
    <2>2. \A q \in Requests \ {r} : RequestInv(q)'
      BY <1>0, <1>2, OthersKeep DEF End, TypeOK
    <2> QED  BY <1>0, <1>2, <2>1, <2>2 DEF AllRequestsInv, End
  <1>3. ASSUME NEW r \in Requests, GetSessionId(r) PROVE AllRequestsInv'
    <2>1. RequestInv(r)'
      <3>1. NoId \notin sessions
        BY <1>0 DEF TypeOK
      <3>2. response[r] \in sessions => sessionId'[r] = response[r]
        BY <1>0, <1>3, <3>1 DEF GetSessionId, TypeOK
      <3>3. sessionId'[r] \in OrNone(issued)
        BY <1>0, <1>3 DEF GetSessionId, TypeOK, OrNone
      <3>4. pc'[r] = "lookup" /\ response' = response /\ session' = session
            /\ sessions' = sessions /\ issued' = issued
        BY <1>0, <1>3 DEF GetSessionId, TypeOK
      <3> QED  BY <1>r, <3>2, <3>3, <3>4 DEF RequestInv
    <2>2. \A q \in Requests \ {r} : RequestInv(q)'
      BY <1>0, <1>3, OthersKeep DEF GetSessionId, TypeOK
    <2> QED  BY <1>0, <1>3, <2>1, <2>2 DEF AllRequestsInv, GetSessionId
  <1>4. ASSUME NEW r \in Requests, Found(r) PROVE AllRequestsInv'
    <2>1. RequestInv(r)'
      BY <1>0, <1>4, <1>r DEF Found, RequestInv, OrNone, TypeOK
    <2>2. \A q \in Requests \ {r} : RequestInv(q)'
      BY <1>0, <1>4, OthersKeep DEF Found, TypeOK
    <2> QED  BY <1>0, <1>4, <2>1, <2>2 DEF AllRequestsInv, Found
  <1>5. ASSUME NEW r \in Requests, NEW i \in Ids, Create(r, i) PROVE AllRequestsInv'
    <2>1. RequestInv(r)'
      BY <1>0, <1>5, <1>r DEF Create, RequestInv, OrNone, TypeOK
    <2>2. \A q \in Requests \ {r} : RequestInv(q)'
      BY <1>0, <1>5, OthersKeep DEF Create, TypeOK
    <2> QED  BY <1>0, <1>5, <2>1, <2>2 DEF AllRequestsInv, Create
  <1>6. ASSUME NEW r \in Requests, NullSession(r) PROVE AllRequestsInv'
    <2>1. RequestInv(r)'
      BY <1>0, <1>6, <1>r DEF NullSession, RequestInv, OrNone, TypeOK
    <2>2. \A q \in Requests \ {r} : RequestInv(q)'
      BY <1>0, <1>6, OthersKeep DEF NullSession, TypeOK
    <2> QED  BY <1>0, <1>6, <2>1, <2>2 DEF AllRequestsInv, NullSession
  <1>7. ASSUME NEW r \in Requests, SetCookie(r) PROVE AllRequestsInv'
    <2>1. RequestInv(r)'
      BY <1>0, <1>7, <1>r DEF SetCookie, RequestInv, OrNone, TypeOK
    <2>2. \A q \in Requests \ {r} : RequestInv(q)'
      BY <1>0, <1>7, OthersKeep DEF SetCookie, TypeOK
    <2> QED  BY <1>0, <1>7, <2>1, <2>2 DEF AllRequestsInv, SetCookie
  <1>8. ASSUME NEW r \in Requests, NEW i \in Ids, GetById(r, i) PROVE AllRequestsInv'
    <2>1. RequestInv(r)'
      BY <1>0, <1>8, <1>r DEF GetById, RequestInv, OrNone, TypeOK
    <2>2. \A q \in Requests \ {r} : RequestInv(q)'
      BY <1>0, <1>8, OthersKeep DEF GetById, TypeOK
    <2> QED  BY <1>0, <1>8, <2>1, <2>2 DEF AllRequestsInv, GetById
  <1>9. ASSUME NEW r \in Requests, ReadClock(r) PROVE AllRequestsInv'
    <2>1. RequestInv(r)'
      BY <1>0, <1>9, <1>r DEF ReadClock, RequestInv, OrNone, TypeOK
    <2>2. \A q \in Requests \ {r} : RequestInv(q)'
      BY <1>0, <1>9, OthersKeep DEF ReadClock, TypeOK
    <2> QED  BY <1>0, <1>9, <2>1, <2>2 DEF AllRequestsInv, ReadClock
  <1>10. ASSUME NEW r \in Requests, WriteAccess(r) PROVE AllRequestsInv'
    <2>1. RequestInv(r)'
      BY <1>0, <1>10, <1>r DEF WriteAccess, RequestInv, OrNone, TypeOK
    <2>2. \A q \in Requests \ {r} : RequestInv(q)'
      BY <1>0, <1>10, OthersKeep DEF WriteAccess, TypeOK
    <2> QED  BY <1>0, <1>10, <2>1, <2>2 DEF AllRequestsInv, WriteAccess
  <1>11. ASSUME NEW r \in Requests, Remove(r) PROVE AllRequestsInv'
    BY <1>0, <1>11, <1>r DEF Remove, AllRequestsInv, RequestInv
  <1>12. CASE Sweep
    <2>1. /\ sessions' \subseteq sessions
          /\ UNCHANGED <<issued, pc, requestVars>>
      BY <1>12 DEF Sweep, TimerEvent, Check, Erase
    <2> QED  BY <1>0, <1>r, <2>1 DEF AllRequestsInv, RequestInv
  <1>13. CASE Tick \/ UNCHANGED vars
    <2>1. UNCHANGED <<sessions, issued, pc, requestVars>>
      BY <1>13 DEF Tick, vars
    <2> QED  BY <1>0, <1>r, <2>1 DEF AllRequestsInv, RequestInv
  <1> QED
    BY <1>1, <1>2, <1>3, <1>4, <1>5, <1>6, <1>7, <1>8, <1>9, <1>10, <1>11,
       <1>12, <1>13 DEF Next, Finish

THEOREM CookieInvariance == Spec => []CookieInv
  BY InitCookie, CookieStep, PTL DEF Spec

\* However requests, removals and timer events interleave, the session cookie of
\* a response changes only once the session it names has left the store.
THEOREM CookiesAreKept == Spec => CookieKept
  <1>1. CookieInv /\ [Next]_vars =>
           [\A r \in Requests :
               response[r] \in sessions /\ pc'[r] # "idle" => response'[r] = response[r]]_vars
    <2> SUFFICES ASSUME CookieInv, Next, NEW r \in Requests,
                        response[r] \in sessions, pc'[r] # "idle"
                 PROVE  response'[r] = response[r]
      OBVIOUS
    <2> USE DEF CookieInv, TypeOK, storeVars, timerVars, requestVars
    <2>0. response[r] # NoId /\ pc[r] # "idle"
      OBVIOUS
    <2>1. ASSUME NEW q \in Requests, Begin(q) \/ End(q) PROVE response'[r] = response[r]
      BY <2>0, <2>1 DEF Begin, End
    <2>2. ASSUME NEW q \in Requests, NEW i \in Ids, Create(q, i) PROVE response'[r] = response[r]
      BY <2>2 DEF Create
    <2>3. ASSUME NEW q \in Requests, SetCookie(q) PROVE response'[r] = response[r]
      BY <2>3 DEF SetCookie
    <2>4. ASSUME NEW q \in Requests,
                 GetSessionId(q) \/ Found(q) \/ NullSession(q) \/ ReadClock(q)
                 \/ WriteAccess(q) \/ Remove(q)
          PROVE  response' = response
      BY <2>4 DEF GetSessionId, Found, NullSession, ReadClock, WriteAccess, Remove
    <2>5. ASSUME NEW q \in Requests, NEW i \in Ids, GetById(q, i) PROVE response' = response
      BY <2>5 DEF GetById
    <2>6. CASE Sweep \/ Tick
      BY <2>6 DEF Sweep, TimerEvent, Check, Erase, Tick
    <2> QED  BY <2>1, <2>2, <2>3, <2>4, <2>5, <2>6 DEF Next, Finish
  <1> QED  BY <1>1, CookieInvariance, PTL DEF Spec, CookieKept

\* A session that was removed or has expired stays away, and only ids the server
\* has produced enter the store.
THEOREM NoneRevived == Spec => NoRevival
  <1>1. [Next]_vars => [sessions' \ sessions \subseteq Ids \ issued]_vars
    <2> SUFFICES ASSUME Next PROVE sessions' \ sessions \subseteq Ids \ issued  OBVIOUS
    <2> USE DEF storeVars, timerVars, requestVars
    <2>1. ASSUME NEW q \in Requests, NEW i \in Ids, Create(q, i)
          PROVE  sessions' \ sessions \subseteq Ids \ issued
      BY <2>1 DEF Create
    <2>2. ASSUME NEW q \in Requests,
                 Begin(q) \/ End(q) \/ GetSessionId(q) \/ Finish(q) \/ Remove(q)
          PROVE  sessions' \subseteq sessions
      BY <2>2 DEF Begin, End, GetSessionId, Finish, Found, NullSession, SetCookie,
                  ReadClock, WriteAccess, Remove
    <2>3. ASSUME NEW q \in Requests, NEW i \in Ids, GetById(q, i)
          PROVE  sessions' = sessions
      BY <2>3 DEF GetById
    <2>4. CASE Sweep \/ Tick
      BY <2>4 DEF Sweep, TimerEvent, Check, Erase, Tick
    <2> QED  BY <2>1, <2>2, <2>3, <2>4 DEF Next
  <1> QED  BY <1>1, PTL DEF Spec, NoRevival

=============================================================================
