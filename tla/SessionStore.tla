---------------------------- MODULE SessionStore ----------------------------
(***************************************************************************)
(* HttpSessionStore: handler threads look sessions up, create and remove   *)
(* them while the timer of the main thread erases the expired ones.  Every *)
(* access to the map holds the store's mutex, but getSession() takes it    *)
(* twice (in getSessionId() and again for the look-up) and refreshes the   *)
(* cookie and the access time after it has released it.                    *)
(*                                                                         *)
(* A time stamp is represented by its age, cut off at Old, so that the     *)
(* clock may run for ever.                                                 *)
(***************************************************************************)
EXTENDS Integers, FiniteSets

CONSTANTS
    Requests,     \* the requests being served, each by a thread of its own
    Ids,          \* the session ids QUuid::createUuid() produces in a run
    NoId,         \* the empty id; as a session, the null session
    Unknown,      \* an id that this server has not issued
    Expiration    \* expirationTime, in ticks

ASSUME SessionStoreAssumption ==
    /\ NoId \notin Ids
    /\ Unknown \notin Ids \union {NoId}
    /\ Expiration \in Nat

Old == Expiration + 1

Ages == 0..Old

VARIABLES
    sessions,   \* the keys of HttpSessionStore::sessions
    issued,     \* the ids that have been produced so far
    age,        \* the age of HttpSessionData::lastAccess of each session
    sweep,      \* the sessions the timer event still has to look at
    swept,      \* the session it has found expired and is about to erase
    pc,         \* what each request does
    cookie,     \* the session cookie of the request
    response,   \* the session cookie of the response
    sessionId,  \* the local variable of getSession()
    session,    \* the session the last call returned
    stamp       \* the age of the clock value read in setLastAccess()

storeVars == <<sessions, issued>>
timerVars == <<sweep, swept>>
requestVars == <<cookie, response, sessionId, session>>
vars == <<storeVars, age, timerVars, pc, requestVars, stamp>>

OrNone(S) == S \union {NoId}

TypeOK ==
    /\ sessions \in SUBSET Ids
    /\ issued \in SUBSET Ids
    /\ age \in [Ids -> Ages]
    /\ sweep \in SUBSET Ids
    /\ swept \in OrNone(Ids)
    /\ pc \in [Requests -> {"idle", "service", "lookup", "setcookie", "clock", "access"}]
    /\ cookie \in [Requests -> OrNone(Ids \union {Unknown})]
    /\ response \in [Requests -> OrNone(Ids)]
    /\ sessionId \in [Requests -> OrNone(Ids)]
    /\ session \in [Requests -> OrNone(Ids)]
    /\ stamp \in [Requests -> Ages]

Init ==
    /\ sessions = {}
    /\ issued = {}
    /\ age = [i \in Ids |-> 0]
    /\ sweep = {}
    /\ swept = NoId
    /\ pc = [r \in Requests |-> "idle"]
    /\ cookie = [r \in Requests |-> NoId]
    /\ response = [r \in Requests |-> NoId]
    /\ sessionId = [r \in Requests |-> NoId]
    /\ session = [r \in Requests |-> NoId]
    /\ stamp = [r \in Requests |-> 0]

\* The timer event holds the mutex until it has looked at every session.
Unlocked == sweep = {} /\ swept = NoId

-----------------------------------------------------------------------------
\* The requests.

\* A request arrives, with no session cookie or with any the client may have.
Begin(r) ==
    /\ pc[r] = "idle"
    /\ \E c \in OrNone(issued \union {Unknown}) : cookie' = [cookie EXCEPT ![r] = c]
    /\ response' = [response EXCEPT ![r] = NoId]
    /\ session' = [session EXCEPT ![r] = NoId]
    /\ pc' = [pc EXCEPT ![r] = "service"]
    /\ UNCHANGED <<storeVars, age, timerVars, sessionId, stamp>>

End(r) ==
    /\ pc[r] = "service"
    /\ pc' = [pc EXCEPT ![r] = "idle"]
    /\ cookie' = [cookie EXCEPT ![r] = NoId]
    /\ response' = [response EXCEPT ![r] = NoId]
    /\ session' = [session EXCEPT ![r] = NoId]
    /\ UNCHANGED <<storeVars, age, timerVars, sessionId, stamp>>

\* Faulty variant: the cookie of the request has priority.
GetSessionIdRequestFirst(r) ==
    LET presented == IF cookie[r] # NoId THEN cookie[r] ELSE response[r]
    IN  /\ pc[r] = "service"
        /\ Unlocked
        /\ sessionId' = [sessionId EXCEPT ![r] =
                            IF presented \in sessions THEN presented ELSE NoId]
        /\ pc' = [pc EXCEPT ![r] = "lookup"]
        /\ UNCHANGED <<storeVars, age, timerVars, cookie, response, session, stamp>>

\* getSessionId(): the cookie of the response has priority.
GetSessionId(r) ==
    LET presented == IF response[r] # NoId THEN response[r] ELSE cookie[r]
    IN  /\ pc[r] = "service"
        /\ Unlocked
        /\ sessionId' = [sessionId EXCEPT ![r] =
                            IF presented \in sessions THEN presented ELSE NoId]
        /\ pc' = [pc EXCEPT ![r] = "lookup"]
        /\ UNCHANGED <<storeVars, age, timerVars, cookie, response, session, stamp>>

\* Faulty variant: the second critical section trusts the first.
FoundUnchecked(r) ==
    /\ pc[r] = "lookup"
    /\ Unlocked
    /\ sessionId[r] # NoId
    /\ sessions' = sessions \union {sessionId[r]}
    /\ session' = [session EXCEPT ![r] = sessionId[r]]
    /\ pc' = [pc EXCEPT ![r] = "setcookie"]
    /\ UNCHANGED <<issued, age, timerVars, cookie, response, sessionId, stamp>>

\* The session is still there when the mutex is taken again.
Found(r) ==
    /\ pc[r] = "lookup"
    /\ Unlocked
    /\ sessionId[r] \in sessions
    /\ session' = [session EXCEPT ![r] = sessionId[r]]
    /\ pc' = [pc EXCEPT ![r] = "setcookie"]
    /\ UNCHANGED <<storeVars, age, timerVars, cookie, response, sessionId, stamp>>

\* It is not, or there was none, and allowCreate is true.
Create(r, i) ==
    /\ pc[r] = "lookup"
    /\ Unlocked
    /\ sessionId[r] \notin sessions
    /\ i \notin issued
    /\ issued' = issued \union {i}
    /\ sessions' = sessions \union {i}
    /\ age' = [age EXCEPT ![i] = 0]
    /\ session' = [session EXCEPT ![r] = i]
    /\ response' = [response EXCEPT ![r] = i]
    /\ sessionId' = [sessionId EXCEPT ![r] = NoId]
    /\ pc' = [pc EXCEPT ![r] = "service"]
    /\ UNCHANGED <<timerVars, cookie, stamp>>

\* It is not, and allowCreate is false.
NullSession(r) ==
    /\ pc[r] = "lookup"
    /\ Unlocked
    /\ sessionId[r] \notin sessions
    /\ session' = [session EXCEPT ![r] = NoId]
    /\ sessionId' = [sessionId EXCEPT ![r] = NoId]
    /\ pc' = [pc EXCEPT ![r] = "service"]
    /\ UNCHANGED <<storeVars, age, timerVars, cookie, response, stamp>>

\* The cookie is refreshed after the mutex has been released.
SetCookie(r) ==
    /\ pc[r] = "setcookie"
    /\ response' = [response EXCEPT ![r] = session[r]]
    /\ sessionId' = [sessionId EXCEPT ![r] = NoId]
    /\ pc' = [pc EXCEPT ![r] = "clock"]
    /\ UNCHANGED <<storeVars, age, timerVars, cookie, session, stamp>>

\* getSession(id), with an id the application got from somewhere.
GetById(r, i) ==
    /\ pc[r] = "service"
    /\ Unlocked
    /\ i \in issued
    /\ session' = [session EXCEPT ![r] = IF i \in sessions THEN i ELSE NoId]
    /\ pc' = [pc EXCEPT ![r] = IF i \in sessions THEN "clock" ELSE "service"]
    /\ UNCHANGED <<storeVars, age, timerVars, cookie, response, sessionId, stamp>>

\* setLastAccess() reads the clock ...
ReadClock(r) ==
    /\ pc[r] = "clock"
    /\ stamp' = [stamp EXCEPT ![r] = 0]
    /\ pc' = [pc EXCEPT ![r] = "access"]
    /\ UNCHANGED <<storeVars, age, timerVars, requestVars>>

\* ... and stores it.  It holds the session's lock for reading only, as another
\* thread may at the same time.
WriteAccess(r) ==
    /\ pc[r] = "access"
    /\ age' = [age EXCEPT ![session[r]] = stamp[r]]
    /\ stamp' = [stamp EXCEPT ![r] = 0]
    /\ pc' = [pc EXCEPT ![r] = "service"]
    /\ UNCHANGED <<storeVars, timerVars, requestVars>>

\* removeSession().
Remove(r) ==
    /\ pc[r] = "service"
    /\ Unlocked
    /\ session[r] # NoId
    /\ sessions' = sessions \ {session[r]}
    /\ UNCHANGED <<issued, age, timerVars, pc, requestVars, stamp>>

-----------------------------------------------------------------------------
\* The timer.

\* sessionTimerEvent() takes the mutex.
TimerEvent ==
    /\ Unlocked
    /\ sweep' = sessions
    /\ UNCHANGED <<storeVars, age, swept, pc, requestVars, stamp>>

\* Faulty variant: the loop uses operator=, which renews the access time of the
\* session it looks at.
CheckRenews(i) ==
    /\ swept = NoId
    /\ i \in sweep
    /\ sweep' = sweep \ {i}
    /\ age' = [age EXCEPT ![i] = 0]
    /\ UNCHANGED <<storeVars, swept, pc, requestVars, stamp>>

\* It reads the access time of one session after the other.
Check(i) ==
    /\ swept = NoId
    /\ i \in sweep
    /\ sweep' = sweep \ {i}
    /\ swept' = IF age[i] > Expiration THEN i ELSE NoId
    /\ UNCHANGED <<storeVars, age, pc, requestVars, stamp>>

\* It erases an expired one, even if it has been accessed since the check.
Erase ==
    /\ swept # NoId
    /\ sessions' = sessions \ {swept}
    /\ swept' = NoId
    /\ UNCHANGED <<issued, age, sweep, pc, requestVars, stamp>>

\* Time passes, but not during a timer event.
Tick ==
    /\ Unlocked
    /\ age' = [i \in Ids |-> IF age[i] = Old THEN Old ELSE age[i] + 1]
    /\ stamp' = [r \in Requests |-> IF pc[r] # "access" \/ stamp[r] = Old
                                    THEN stamp[r] ELSE stamp[r] + 1]
    /\ UNCHANGED <<storeVars, timerVars, pc, requestVars>>

-----------------------------------------------------------------------------
Finish(r) ==
    Found(r) \/ NullSession(r) \/ SetCookie(r) \/ ReadClock(r) \/ WriteAccess(r)

Sweep == TimerEvent \/ (\E i \in Ids : Check(i)) \/ Erase

Next ==
    \/ \E r \in Requests :
          Begin(r) \/ End(r) \/ GetSessionId(r) \/ Finish(r) \/ Remove(r)
    \/ \E r \in Requests, i \in Ids : Create(r, i) \/ GetById(r, i)
    \/ Sweep
    \/ Tick

\* Threads that are inside getSession() go on, the timer fires, and time passes,
\* though not during a timer event: strong fairness.
Fairness ==
    /\ \A r \in Requests : WF_vars(Finish(r))
    /\ WF_vars(Sweep)
    /\ SF_vars(Tick)

Spec == Init /\ [][Next]_vars

FairSpec == Spec /\ Fairness

-----------------------------------------------------------------------------
\* Properties.

\* "The session ID in the response has priority because this one will be used
\* in the next request": getSession() may be called as often as one likes while
\* serving a request, the cookie sent to the client changes only if the session
\* it names has left the store.
CookieKept ==
    [][\A r \in Requests :
          response[r] \in sessions /\ pc'[r] # "idle" => response'[r] = response[r]]_vars

\* A session that has expired or has been removed does not come back, whatever
\* a request that had found it before still does; and an id a client made up
\* never becomes a session.
NoRevival == [][sessions' \ sessions \subseteq Ids \ issued]_vars

\* A session no request uses any more leaves the store.
AbandonedErased ==
    \A i \in Ids :
        <>[](\A r \in Requests : session[r] # i) => <>[](i \notin sessions)

-----------------------------------------------------------------------------
\* The part of the state CookieKept depends on: between the two critical
\* sections of getSession(), the id found in the response is still the one to
\* look up, unless its session has gone; ids that have gone stay issued.
CookieInv ==
    /\ TypeOK
    /\ sessions \subseteq issued
    /\ \A r \in Requests :
          /\ response[r] \in OrNone(issued)
          /\ sessionId[r] \in OrNone(issued)
          /\ session[r] \in OrNone(issued)
          /\ pc[r] \in {"lookup", "setcookie"} /\ response[r] \in sessions =>
                sessionId[r] = response[r]
          /\ pc[r] = "idle" => response[r] = NoId
          /\ pc[r] = "setcookie" => session[r] = sessionId[r] /\ session[r] # NoId
          /\ pc[r] \in {"clock", "access"} => session[r] # NoId

=============================================================================
