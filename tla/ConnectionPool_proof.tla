------------------------ MODULE ConnectionPool_proof ------------------------
(***************************************************************************)
(* Safety of ConnectionPool for every set of connections and handlers and  *)
(* every value of the settings: IndInv is inductive, and with it a handler *)
(* is never shared, requests are never mixed, open connections are timed,  *)
(* cleanup() deletes only handlers that can be spared, and the pool        *)
(* implements ConnectionService.                                           *)
(***************************************************************************)
EXTENDS ConnectionPool, SequenceTheorems, FiniteSetTheorems, TLAPS

\* A queue that holds one event.
LEMMA QueueOfOne ==
    ASSUME NEW x, NEW s, s = <<x>>
    PROVE  s # <<>> /\ Len(s) <= 1 /\ DOMAIN s = {1} /\ s[1] = x
OBVIOUS

\* Taking the event from a queue that holds one.
LEMMA TakenOne ==
    ASSUME NEW S, NEW s \in Seq(S), Len(s) <= 1, s # <<>>
    PROVE  /\ Head(s) \in S
           /\ DOMAIN s = {1}
           /\ s[1] = Head(s)
           /\ Tail(s) = <<>>
<1>1. Len(s) \in Nat \ {0}
  BY EmptySeq, Zenon
<1>2. Len(s) = 1
  BY <1>1
<1>3. Tail(s) \in Seq(S) /\ Len(Tail(s)) = 0
  BY <1>2, HeadTailProperties
<1>4. Tail(s) = <<>>
  BY <1>3, EmptySeq
<1>5. Head(s) \in S
  BY HeadTailProperties
<1>6. DOMAIN s = {1} /\ s[1] = Head(s)
  BY <1>2
<1>7. QED
  BY <1>4, <1>5, <1>6

\* What removing a position from the list of handlers leaves.
LEMMA Removed ==
    ASSUME NEW S, NEW s \in Seq(S), NEW n \in 1..Len(s)
    PROVE  /\ RemoveAt(s, n) \in Seq(S)
           /\ Len(RemoveAt(s, n)) = Len(s) - 1
           /\ \A i \in 1..Len(s) - 1 :
                 RemoveAt(s, n)[i] = IF i < n THEN s[i] ELSE s[i + 1]
<1> DEFINE a == SubSeq(s, 1, n - 1)
           b == SubSeq(s, n + 1, Len(s))
<1>1. Len(s) \in Nat /\ \A i \in 1..Len(s) : s[i] \in S
  BY LenProperties, ElementOfSeq
<1>2. /\ a \in Seq(S) /\ Len(a) = n - 1
      /\ \A i \in 1..n - 1 : a[i] = s[i]
  BY <1>1, SubSeqProperties
<1>3. /\ b \in Seq(S) /\ Len(b) = Len(s) - n
      /\ \A i \in 1..Len(s) - n : b[i] = s[n + i]
  <2>1. \A i \in n + 1..Len(s) : s[i] \in S
    BY <1>1
  <2>2. Len(b) = IF n + 1 <= Len(s) THEN Len(s) - (n + 1) + 1 ELSE 0
    BY <1>1, <2>1, SubSeqProperties
  <2>3. b \in Seq(S) /\ \A i \in 1..Len(s) - (n + 1) + 1 : b[i] = s[(n + 1) + i - 1]
    BY <1>1, <2>1, SubSeqProperties
  <2>4. QED
    BY <1>1, <2>2, <2>3
<1> HIDE DEF a, b
<1>4. /\ a \o b \in Seq(S) /\ Len(a \o b) = Len(s) - 1
      /\ \A i \in 1..Len(s) - 1 :
            (a \o b)[i] = IF i <= n - 1 THEN a[i] ELSE b[i - (n - 1)]
  BY <1>1, <1>2, <1>3, ConcatProperties
<1>5. ASSUME NEW i \in 1..Len(s) - 1
      PROVE  (a \o b)[i] = IF i < n THEN s[i] ELSE s[i + 1]
  <2>1. CASE i < n
    BY <1>1, <1>2, <1>4, <2>1
  <2>2. CASE ~(i < n)
    <3>1. i - (n - 1) \in 1..Len(s) - n /\ n + (i - (n - 1)) = i + 1
      BY <1>1, <2>2
    <3>2. b[i - (n - 1)] = s[i + 1]
      BY <1>3, <3>1
    <3>3. ~(i <= n - 1)
      BY <1>1, <2>2
    <3>4. QED
      BY <1>4, <2>2, <3>2, <3>3
  <2>3. QED
    BY <2>1, <2>2
<1>6. QED
  BY <1>4, <1>5 DEF RemoveAt, a, b

-----------------------------------------------------------------------------
(* IndInv holds initially.                                                 *)

LEMMA InitInd == Init => IndInv
<1> SUFFICES ASSUME Init
             PROVE  IndInv
  OBVIOUS
<1>1. TypeOK
  <2>1. /\ pool \in Seq(Handlers)
        /\ posted \in [Handlers -> Seq(Conns)]
        /\ wire \in [Conns -> Seq(Chunks)]
    <3>1. \A S : <<>> \in Seq(S)
      BY EmptySeq, Zenon
    <3>2. QED
      BY <3>1, Zenon DEF Init
  <2>0. listening \in BOOLEAN /\ up \in BOOLEAN /\ crowded \in BOOLEAN
    BY Zenon DEF Init
  <2>2. /\ main \in {"loop", "get", "cleanup", "reap", "close"}
        /\ at \in Nat \ {0} /\ idle \in Nat
        /\ arriving \in Conns \union {NoConn}
    BY DEF Init
  <2>3. /\ pc \in [Handlers -> {"none", "loop", "service", "closing"}]
        /\ busy \in [Handlers -> BOOLEAN]
        /\ sock \in [Handlers -> Conns \union {NoConn}]
        /\ timer \in [Handlers -> BOOLEAN]
        /\ request \in [Handlers -> Conns \union {NoConn}]
        /\ unadopted \in [Handlers -> Conns \union {NoConn}]
    BY DEF Init
  <2>4. /\ sent \in [Conns -> Nat]
        /\ gone \in [Conns -> BOOLEAN]
        /\ outcome \in [Conns -> Outcomes]
    BY DEF Init, Outcomes
  <2>5. QED
    BY <2>0, <2>1, <2>2, <2>3, <2>4, Zenon DEF TypeOK
<1>2. PoolInv /\ MainInv /\ HandlerInv
  BY ConfigAssumption DEF Init, PoolInv, MainInv, HandlerInv
<1>3. OwnerInv
  BY ConfigAssumption DEF Init, OwnerInv, Owns
<1>4. QED
  BY <1>1, <1>2, <1>3 DEF IndInv

-----------------------------------------------------------------------------
(* Steps of the main thread.                                               *)

\* The variables IndInv speaks of, apart from those of the main thread.
shared == <<pc, busy, posted, sock, unadopted, outcome>>

\* A step that leaves the list of handlers and the shared variables alone
\* preserves the parts of the invariant that are not about the main thread.
LEMMA Undisturbed ==
    ASSUME PoolInv, HandlerInv, OwnerInv, UNCHANGED pool, UNCHANGED shared
    PROVE  PoolInv' /\ HandlerInv' /\ OwnerInv'
BY DEF PoolInv, HandlerInv, OwnerInv, Owns, shared

\* Steps that only move the main thread through its loops.
LEMMA IncomingInd == ASSUME IndInv, NEW c \in Conns, Incoming(c) PROVE IndInv'
<1> USE DEF IndInv, Incoming, handlerVars, clientVars
<1>1. crowded' \in BOOLEAN
  OBVIOUS
<1>2. TypeOK'
  BY <1>1 DEF TypeOK
<1>3. MainInv'
  BY DEF MainInv, TypeOK
<1>4. QED
  BY <1>2, <1>3, Undisturbed DEF shared

LEMMA PassBusyInd == ASSUME IndInv, PassBusy PROVE IndInv'
<1> USE DEF IndInv, PassBusy, handlerVars, clientVars
<1>1. TypeOK'
  BY DEF TypeOK
<1>2. MainInv'
  BY DEF MainInv, TypeOK
<1>3. QED
  BY <1>1, <1>2, Undisturbed DEF shared

LEMMA CleanupInd == ASSUME IndInv, Cleanup PROVE IndInv'
<1> USE DEF IndInv, Cleanup, handlerVars, clientVars
<1>1. TypeOK'
  BY DEF TypeOK
<1>2. MainInv'
  BY DEF MainInv, TypeOK
<1>3. QED
  BY <1>1, <1>2, Undisturbed DEF shared

LEMMA KeepHandlerInd == ASSUME IndInv, KeepHandler PROVE IndInv'
<1> USE DEF IndInv, KeepHandler, handlerVars, clientVars
<1>1. TypeOK'
  BY DEF TypeOK
<1>2. MainInv'
  BY DEF MainInv, TypeOK
<1>3. QED
  BY <1>1, <1>2, Undisturbed DEF shared

LEMMA ReapInd == ASSUME IndInv, Reap PROVE IndInv'
<1> USE DEF IndInv, Reap, handlerVars, clientVars
<1>1. TypeOK'
  BY DEF TypeOK
<1>2. MainInv'
  <2>1. at \in 1..Len(pool)
    BY LenProperties DEF TypeOK
  <2>2. QED
    BY <2>1 DEF MainInv, TypeOK
<1>3. QED
  BY <1>1, <1>2, Undisturbed DEF shared

LEMMA CleanupDoneInd == ASSUME IndInv, CleanupDone PROVE IndInv'
<1> USE DEF IndInv, CleanupDone, handlerVars, clientVars
<1>1. TypeOK'
  BY DEF TypeOK
<1>2. MainInv'
  BY DEF MainInv, TypeOK
<1>3. QED
  BY <1>1, <1>2, Undisturbed DEF shared

LEMMA CloseInd == ASSUME IndInv, Close PROVE IndInv'
<1> USE DEF IndInv, Close, handlerVars, clientVars
<1>1. TypeOK'
  <2>1. listening' \in BOOLEAN
    BY Zenon
  <2>2. QED
    BY <2>1 DEF TypeOK
<1>2. MainInv'
  <2>1. \A i \in 1..Len(pool) : ~(i < 1)
    OBVIOUS
  <2>2. arriving' = NoConn
    BY DEF MainInv
  <2>3. QED
    BY <2>1, <2>2, Zenon DEF MainInv
<1>3. QED
  BY <1>1, <1>2, Undisturbed DEF shared

LEMMA CloseNextInd == ASSUME IndInv, CloseNext PROVE IndInv'
<1> USE DEF IndInv, CloseNext, handlerVars, clientVars
<1>1. TypeOK'
  BY DEF TypeOK
<1>2. MainInv'
  <2>1. \A i \in 1..Len(pool) : i < at + 1 => i < at \/ i = at
    BY DEF TypeOK
  <2>2. QED
    BY <2>1 DEF MainInv, TypeOK
<1>3. QED
  BY <1>1, <1>2, Undisturbed DEF shared

LEMMA ListenInd == ASSUME IndInv, Listen PROVE IndInv'
<1> USE DEF IndInv, Listen, handlerVars, clientVars
<1>1. TypeOK'
  BY DEF TypeOK
<1>2. MainInv'
  BY DEF MainInv, TypeOK
<1>3. QED
  BY <1>1, <1>2, Undisturbed DEF shared

\* An arriving connection is turned away.
LEMMA RejectInd == ASSUME IndInv, Reject PROVE IndInv'
<1> USE DEF IndInv, Reject, handlerVars, clientVars
<1>1. arriving \in Conns /\ outcome[arriving] = "new"
  BY DEF MainInv
<1>2. TypeOK'
  BY <1>1 DEF TypeOK, Outcomes
<1>3. PoolInv' /\ HandlerInv'
  BY DEF PoolInv, HandlerInv
<1>4. MainInv'
  BY DEF MainInv
<1>5. OwnerInv'
  BY <1>1 DEF OwnerInv, Owns, TypeOK
<1>6. QED
  BY <1>2, <1>3, <1>4, <1>5

\* An arriving connection is queued for a handler that held none.
LEMMA PostInd ==
    ASSUME IndInv, main = "get", NEW h \in Handlers, ~busy[h], Post(h),
           busy' = [busy EXCEPT ![h] = TRUE],
           pc' = [pc EXCEPT ![h] = pc'[h]], pc'[h] # "none"
    PROVE  HandlerInv' /\ OwnerInv'
<1>0. TypeOK /\ MainInv /\ HandlerInv /\ OwnerInv
  BY DEF IndInv
<1> USE <1>0 DEF Post
<1>1. arriving \in Conns /\ outcome[arriving] = "new"
  BY DEF MainInv
<1>2. posted[h] = <<>> /\ sock[h] = NoConn /\ unadopted[h] = NoConn
  BY DEF HandlerInv
<1>3. /\ posted'[h] # <<>> /\ Len(posted'[h]) <= 1
      /\ DOMAIN posted'[h] = {1} /\ posted'[h][1] = arriving
  <2>1. posted[h] \in Seq(Conns) /\ posted'[h] = Append(posted[h], arriving)
    BY DEF TypeOK
  <2>2. posted'[h] = <<arriving>>
    BY <1>1, <1>2, <2>1
  <2>3. QED
    BY <2>2, QueueOfOne, Zenon
<1>4. \A k \in Handlers \ {h} :
         /\ posted'[k] = posted[k] /\ busy'[k] = busy[k] /\ pc'[k] = pc[k]
         /\ sock'[k] = sock[k] /\ unadopted'[k] = unadopted[k]
  BY DEF TypeOK
<1>5. busy'[h] /\ sock'[h] = NoConn /\ unadopted'[h] = NoConn
  BY <1>2 DEF TypeOK
<1>6. HandlerInv'
  <2>1. ASSUME NEW k \in Handlers
        PROVE  /\ Len(posted'[k]) <= 1
               /\ posted'[k] # <<>> => busy'[k] /\ sock'[k] = NoConn /\ unadopted'[k] = NoConn
               /\ sock'[k] # NoConn => busy'[k] /\ unadopted'[k] = NoConn
               /\ unadopted'[k] # NoConn => busy'[k]
               /\ pc'[k] = "none" => ~busy'[k]
    <3>1. CASE k = h
      <4>1. posted'[h] # <<>> /\ pc'[h] # "none" /\ busy'[h]
        BY <1>3, <1>5, Zenon
      <4>2. Len(posted'[h]) <= 1
        BY <1>3, Zenon
      <4>3. QED
        BY <1>5, <3>1, <4>1, <4>2, Zenon
    <3>2. CASE k # h
      BY <1>4, <3>2, Zenon DEF HandlerInv
    <3>3. QED
      BY <3>1, <3>2
  <2>2. QED
    BY <2>1, Zenon DEF HandlerInv
<1>7. OwnerInv'
  <2>1. \A c \in Conns : Owns(h, c)' <=> c = arriving
    BY <1>3, <1>5, ConfigAssumption DEF Owns
  <2>2. \A c \in Conns : \A k \in Handlers \ {h} : Owns(k, c)' <=> Owns(k, c)
    BY <1>4 DEF Owns
  <2>3. \A c \in Conns, k \in Handlers : Owns(k, c) => c # arriving
    BY <1>1 DEF OwnerInv
  <2>4. /\ outcome'[arriving] = "accepted"
        /\ \A c \in Conns \ {arriving} : outcome'[c] = outcome[c]
    BY <1>1 DEF TypeOK
  <2>5. \A c \in Conns : ~Owns(h, c)
    BY <1>2, ConfigAssumption DEF Owns
  <2>6. QED
    BY <2>1, <2>2, <2>3, <2>4, <2>5, Zenon DEF OwnerInv
<1>8. QED
  BY <1>6, <1>7

LEMMA TakeFreeInd == ASSUME IndInv, TakeFree PROVE IndInv'
<1> DEFINE h == pool[at]
<1> USE DEF IndInv, TakeFree
<1>1. at \in 1..Len(pool) /\ h \in Handlers
  BY ElementOfSeq, LenProperties DEF TypeOK
<1>2. pc[h] # "none" /\ arriving \in Conns
  BY <1>1 DEF MainInv
<1>3. TypeOK'
  <2>1. busy' \in [Handlers -> BOOLEAN]
    BY <1>1 DEF TypeOK
  <2>2. posted' \in [Handlers -> Seq(Conns)]
    BY <1>1, <1>2, AppendProperties DEF TypeOK, Post
  <2>3. QED
    BY <1>1, <1>2, <2>1, <2>2 DEF TypeOK, Post, Outcomes, clientVars
<1>4. HandlerInv' /\ OwnerInv'
  <2>1. pc' = [pc EXCEPT ![h] = pc'[h]] /\ pc'[h] # "none"
    BY <1>1, <1>2 DEF TypeOK
  <2>2. QED
    BY <1>1, <2>1, PostInd
<1>5. PoolInv' /\ MainInv'
  BY DEF PoolInv, MainInv, Post
<1>6. QED
  BY <1>3, <1>4, <1>5

LEMMA CreateInd == ASSUME IndInv, NEW h \in Handlers, Create(h) PROVE IndInv'
<1> USE DEF IndInv, Create
<1>1. \A i \in 1..Len(pool) : pool[i] # h
  BY LenProperties DEF ToSet, TypeOK
<1>2. pc[h] = "none" /\ ~busy[h] /\ arriving \in Conns
  BY <1>1 DEF PoolInv, HandlerInv, MainInv
<1>3. /\ Len(pool) \in Nat
      /\ pool' \in Seq(Handlers) /\ Len(pool') = Len(pool) + 1
      /\ \A i \in 1..Len(pool) : pool'[i] = pool[i]
      /\ pool'[Len(pool) + 1] = h
  BY AppendProperties, LenProperties DEF TypeOK
<1>4. TypeOK'
  <2>1. busy' \in [Handlers -> BOOLEAN] /\ timer' \in [Handlers -> BOOLEAN]
    BY DEF TypeOK
  <2>2. posted' \in [Handlers -> Seq(Conns)]
    BY <1>2, AppendProperties DEF TypeOK, Post
  <2>3. QED
    BY <1>2, <1>3, <2>1, <2>2 DEF TypeOK, Post, Outcomes, clientVars
<1>5. HandlerInv' /\ OwnerInv'
  <2>1. pc' = [pc EXCEPT ![h] = pc'[h]] /\ pc'[h] # "none"
    BY DEF TypeOK
  <2>2. QED
    BY <1>2, <2>1, PostInd
<1>6. PoolInv'
  <2>1. Len(pool') <= MaxThreads
    BY <1>3, ConfigAssumption
  <2>2. \A i, j \in 1..Len(pool') : pool'[i] = pool'[j] => i = j
    BY <1>1, <1>3 DEF PoolInv
  <2>3. \A k \in Handlers : pc'[k] # "none" => \E i \in 1..Len(pool') : pool'[i] = k
    BY <1>3 DEF PoolInv, TypeOK
  <2>4. QED
    BY <2>1, <2>2, <2>3 DEF PoolInv
<1>7. MainInv'
  <2>1. \A i \in 1..Len(pool') : pc'[pool'[i]] # "none"
    <3>1. \A i \in 1..Len(pool) : pc'[pool'[i]] # "none"
      BY <1>1, <1>3, ElementOfSeq DEF MainInv, TypeOK
    <3>2. pc'[pool'[Len(pool) + 1]] # "none"
      BY <1>3 DEF TypeOK
    <3>3. QED
      BY <1>3, <3>1, <3>2
  <2>2. QED
    BY <2>1 DEF MainInv, Post
<1>8. QED
  BY <1>4, <1>5, <1>6, <1>7

\* The thread of the handler cleanup() deletes has ended.
LEMMA ReapedInd == ASSUME IndInv, Reaped PROVE IndInv'
<1> USE DEF IndInv, Reaped, handlerVars, clientVars
<1>1. at \in 1..Len(pool)
  BY DEF MainInv
<1>2. /\ Len(pool) \in Nat
      /\ pool' \in Seq(Handlers) /\ Len(pool') = Len(pool) - 1
      /\ \A i \in 1..Len(pool) - 1 :
            pool'[i] = IF i < at THEN pool[i] ELSE pool[i + 1]
  BY <1>1, Removed, LenProperties DEF TypeOK
<1>3. TypeOK'
  BY <1>2 DEF TypeOK
<1>4. PoolInv'
  <2>1. Len(pool') <= MaxThreads
    BY <1>2, ConfigAssumption DEF PoolInv
  <2>2. \A i, j \in 1..Len(pool') : pool'[i] = pool'[j] => i = j
    <3> DEFINE from(i) == IF i < at THEN i ELSE i + 1
    <3>1. \A i \in 1..Len(pool') : from(i) \in 1..Len(pool) /\ pool'[i] = pool[from(i)]
      BY <1>1, <1>2
    <3>2. \A i, j \in 1..Len(pool') : from(i) = from(j) => i = j
      BY <1>1, <1>2
    <3>3. \A i, j \in 1..Len(pool) : pool[i] = pool[j] => i = j
      BY DEF PoolInv
    <3> HIDE DEF from, IndInv, Reaped
    <3>4. QED
      BY <3>1, <3>2, <3>3, Zenon
  <2>3. ASSUME NEW k \in Handlers, pc[k] # "none"
        PROVE  \E i \in 1..Len(pool') : pool'[i] = k
    <3>1. PICK i \in 1..Len(pool) : pool[i] = k /\ i # at
      BY <2>3 DEF PoolInv
    <3>2. CASE i < at
      BY <1>1, <1>2, <3>1, <3>2
    <3>3. CASE i > at
      <4>1. i - 1 \in 1..Len(pool') /\ ~(i - 1 < at) /\ (i - 1) + 1 = i
        BY <1>1, <1>2, <3>3
      <4>2. pool'[i - 1] = k
        BY <1>2, <3>1, <4>1
      <4>3. QED
        BY <4>1, <4>2
    <3>4. QED
      BY <1>1, <3>1, <3>2, <3>3
  <2>4. QED
    BY <2>1, <2>2, <2>3 DEF PoolInv
<1>5. MainInv'
  <2>1. \A i \in 1..Len(pool) : i # at => pc[pool[i]] # "none"
    BY DEF MainInv
  <2>2. ASSUME NEW i \in 1..Len(pool')
        PROVE  pc[pool'[i]] # "none"
    <3>1. CASE i < at
      BY <1>1, <1>2, <2>1, <3>1
    <3>2. CASE ~(i < at)
      BY <1>1, <1>2, <2>1, <3>2
    <3>3. QED
      BY <3>1, <3>2
  <2>3. QED
    BY <2>2 DEF MainInv
<1>6. HandlerInv' /\ OwnerInv'
  BY DEF HandlerInv, OwnerInv, Owns
<1>7. QED
  BY <1>3, <1>4, <1>5, <1>6

\* All threads have ended, and the pool is deleted.
LEMMA ClosedInd == ASSUME IndInv, Closed PROVE IndInv'
<1> USE DEF IndInv, Closed, handlerVars, clientVars
<1>1. \A h \in Handlers : pc[h] = "none"
  <2>1. \A i \in 1..Len(pool) : pc[pool[i]] = "none"
    BY LenProperties DEF MainInv, TypeOK
  <2>2. QED
    BY <2>1 DEF PoolInv
<1>2. pool' \in Seq(Handlers) /\ Len(pool') = 0
  BY EmptySeq, Zenon
<1>3. TypeOK'
  <2>1. up' \in BOOLEAN
    BY Zenon
  <2>2. QED
    BY <1>2, <2>1 DEF TypeOK
<1>4. PoolInv'
  BY <1>1, <1>2, ConfigAssumption DEF PoolInv
<1>5. MainInv'
  BY <1>2 DEF MainInv
<1>6. HandlerInv' /\ OwnerInv'
  BY DEF HandlerInv, OwnerInv, Owns
<1>7. QED
  BY <1>3, <1>4, <1>5, <1>6

-----------------------------------------------------------------------------
(* Steps of a handler's thread, and of the clients.                        *)

\* A running thread that moves on and stays alive.
LEMMA ThreadMoves ==
    ASSUME IndInv, NEW h \in Handlers, pc[h] # "none",
           NEW q \in {"loop", "service", "closing"}, pc' = [pc EXCEPT ![h] = q],
           UNCHANGED mainVars, UNCHANGED <<busy, posted, sock, unadopted, outcome>>
    PROVE  PoolInv' /\ MainInv' /\ HandlerInv' /\ OwnerInv'
<1> USE DEF IndInv, mainVars
<1>1. \A k \in Handlers : pc'[k] = "none" <=> pc[k] = "none"
  BY DEF TypeOK
<1>2. \A i \in 1..Len(pool) : pool[i] \in Handlers
  BY ElementOfSeq DEF TypeOK
<1>3. PoolInv'
  BY <1>1 DEF PoolInv
<1>4. MainInv'
  <2>1. \A i \in 1..Len(pool) : pc'[pool[i]] = "none" <=> pc[pool[i]] = "none"
    BY <1>1, <1>2
  <2>2. QED
    BY <2>1 DEF MainInv
<1>5. HandlerInv'
  BY <1>1 DEF HandlerInv
<1>6. OwnerInv'
  BY DEF OwnerInv, Owns
<1>7. QED
  BY <1>3, <1>4, <1>5, <1>6

LEMMA ReadInd == ASSUME IndInv, NEW h \in Handlers, Read(h) PROVE IndInv'
<1> DEFINE c == sock[h]
           chunk == Head(wire[c])
<1>1. c \in Conns /\ chunk \in Chunks /\ Tail(wire[c]) \in Seq(Chunks)
  <2>1. c \in Conns /\ wire[c] \in Seq(Chunks) /\ wire[c] # <<>>
    BY DEF IndInv, TypeOK, Read
  <2>2. QED
    BY <2>1, HeadTailProperties
<1>2. PICK q \in {"loop", "service", "closing"} : pc' = [pc EXCEPT ![h] = q]
  BY <1>1 DEF Read, Chunks
<1>3. TypeOK'
  <2>1. pc' \in [Handlers -> {"none", "loop", "service", "closing"}]
    BY <1>2 DEF IndInv, TypeOK
  <2>2. timer' \in [Handlers -> BOOLEAN]
    <3>1. (timer[h] /\ chunk # "full") \in BOOLEAN
      OBVIOUS
    <3>2. QED
      BY <3>1 DEF IndInv, TypeOK, Read
  <2>3. request' \in [Handlers -> Conns \union {NoConn}]
    BY DEF IndInv, TypeOK, Read, CurrentRequest
  <2>4. wire' \in [Conns -> Seq(Chunks)]
    BY <1>1 DEF IndInv, TypeOK, Read
  <2>5. QED
    BY <2>1, <2>2, <2>3, <2>4 DEF IndInv, TypeOK, Read, mainVars
<1>4. PoolInv' /\ MainInv' /\ HandlerInv' /\ OwnerInv'
  BY <1>2, ThreadMoves DEF Read, mainVars
<1>5. QED
  BY <1>3, <1>4 DEF IndInv

LEMMA KeepAliveInd == ASSUME IndInv, NEW h \in Handlers, KeepAlive(h) PROVE IndInv'
<1>1. TypeOK'
  <2>1. timer' \in [Handlers -> BOOLEAN]
    BY DEF IndInv, TypeOK, KeepAlive
  <2>2. QED
    BY <2>1 DEF IndInv, TypeOK, KeepAlive, mainVars, clientVars
<1>2. PoolInv' /\ MainInv' /\ HandlerInv' /\ OwnerInv'
  BY ThreadMoves DEF KeepAlive, mainVars
<1>3. QED
  BY <1>1, <1>2 DEF IndInv

LEMMA CloseAfterResponseInd ==
    ASSUME IndInv, NEW h \in Handlers, CloseAfterResponse(h) PROVE IndInv'
<1>1. TypeOK'
  BY DEF IndInv, TypeOK, CloseAfterResponse, mainVars, clientVars
<1>2. PoolInv' /\ MainInv' /\ HandlerInv' /\ OwnerInv'
  BY ThreadMoves DEF CloseAfterResponse, mainVars
<1>3. QED
  BY <1>1, <1>2 DEF IndInv

LEMMA ReadTimeoutInd ==
    ASSUME IndInv, NEW h \in Handlers, ReadTimeout(h) PROVE IndInv'
<1>1. TypeOK'
  <2>1. timer' \in [Handlers -> BOOLEAN]
    BY DEF IndInv, TypeOK, ReadTimeout
  <2>2. QED
    BY <2>1 DEF IndInv, TypeOK, ReadTimeout, mainVars, clientVars
<1>2. PoolInv' /\ MainInv' /\ HandlerInv' /\ OwnerInv'
  BY ThreadMoves DEF ReadTimeout, mainVars
<1>3. QED
  BY <1>1, <1>2 DEF IndInv

\* disconnected() frees the handler and its connection, while the thread goes
\* on, possibly to another place.
LEMMA DisconnectedInd ==
    ASSUME IndInv, NEW h \in Handlers, sock[h] # NoConn, pc[h] # "none",
           Disconnected(h), NEW q \in {"loop", "service", "closing"},
           pc' = [pc EXCEPT ![h] = q],
           UNCHANGED mainVars, UNCHANGED <<posted, unadopted>>
    PROVE  PoolInv' /\ MainInv' /\ HandlerInv' /\ OwnerInv'
<1> DEFINE c == sock[h]
<1>0. TypeOK /\ PoolInv /\ MainInv /\ HandlerInv /\ OwnerInv
  BY DEF IndInv
<1> USE <1>0 DEF Disconnected, mainVars
<1>1. c \in Conns
  BY DEF TypeOK
<1>2. \A k \in Handlers : pc'[k] = "none" <=> pc[k] = "none"
  BY DEF TypeOK
<1>3. \A i \in 1..Len(pool) : pool[i] \in Handlers
  BY ElementOfSeq DEF TypeOK
<1>4. posted[h] = <<>> /\ unadopted[h] = NoConn /\ busy[h]
  BY DEF HandlerInv
<1>5. \A k \in Handlers \ {h} : busy'[k] = busy[k] /\ sock'[k] = sock[k]
  BY DEF TypeOK
<1>6. sock'[h] = NoConn /\ ~busy'[h]
  BY DEF TypeOK
<1>7. PoolInv'
  BY <1>2 DEF PoolInv
<1>8. MainInv'
  <2>1. \A i \in 1..Len(pool) : pc'[pool[i]] = "none" <=> pc[pool[i]] = "none"
    BY <1>2, <1>3
  <2>2. main = "reap" => ~busy'[pool[at]]
    BY <1>3, <1>5, <1>6 DEF MainInv
  <2>3. main = "get" => arriving # c
    BY <1>1 DEF OwnerInv, Owns, MainInv
  <2>4. main = "get" => outcome'[arriving] = outcome[arriving]
    BY <1>1, <2>3 DEF TypeOK, MainInv
  <2>5. QED
    BY <2>1, <2>2, <2>4 DEF MainInv
<1>9. HandlerInv'
  <2>1. ASSUME NEW k \in Handlers
        PROVE  /\ Len(posted[k]) <= 1
               /\ posted[k] # <<>> => busy'[k] /\ sock'[k] = NoConn /\ unadopted[k] = NoConn
               /\ sock'[k] # NoConn => busy'[k] /\ unadopted[k] = NoConn
               /\ unadopted[k] # NoConn => busy'[k]
               /\ pc'[k] = "none" => ~busy'[k]
    <3>1. CASE k = h
      BY <1>4, <1>6, <3>1, Zenon DEF HandlerInv
    <3>2. CASE k # h
      BY <1>2, <1>5, <3>2, Zenon DEF HandlerInv
    <3>3. QED
      BY <3>1, <3>2
  <2>2. QED
    BY <2>1, Zenon DEF HandlerInv
<1>10. OwnerInv'
  <2>1. \A d \in Conns : ~Owns(h, d)'
    BY <1>4, <1>6, ConfigAssumption DEF Owns
  <2>2. \A d \in Conns : \A k \in Handlers \ {h} : Owns(k, d)' <=> Owns(k, d)
    BY <1>5 DEF Owns
  <2>3. \A k \in Handlers \ {h} : ~Owns(k, c)
    BY <1>1 DEF OwnerInv, Owns
  <2>4. \A d \in Conns \ {c} : outcome'[d] = outcome[d]
    BY DEF TypeOK
  <2>5. ASSUME NEW d \in Conns, NEW k \in Handlers, Owns(k, d)'
        PROVE  /\ outcome'[d] \in {"accepted", "failed"}
               /\ \A j \in Handlers : Owns(j, d)' => j = k
    <3>1. k # h
      BY <2>1, <2>5
    <3>2. Owns(k, d)
      BY <2>2, <2>5, <3>1
    <3>3. d # c
      BY <2>3, <3>1, <3>2
    <3>4. outcome'[d] \in {"accepted", "failed"}
      BY <2>4, <3>2, <3>3 DEF OwnerInv
    <3>5. ASSUME NEW j \in Handlers, Owns(j, d)'
          PROVE  j = k
      <4>1. Owns(j, d)
        BY <2>1, <2>2, <3>5
      <4>2. QED
        BY <3>2, <4>1 DEF OwnerInv
    <3>6. QED
      BY <3>4, <3>5
  <2>6. QED
    BY <2>5, Zenon DEF OwnerInv
<1>11. QED
  BY <1>7, <1>8, <1>9, <1>10

LEMMA DisconnectedType ==
    ASSUME TypeOK, NEW h \in Handlers, sock[h] # NoConn, Disconnected(h)
    PROVE  /\ sock' \in [Handlers -> Conns \union {NoConn}]
           /\ timer' \in [Handlers -> BOOLEAN]
           /\ busy' \in [Handlers -> BOOLEAN]
           /\ wire' \in [Conns -> Seq(Chunks)]
           /\ sent' \in [Conns -> Nat]
           /\ gone' \in [Conns -> BOOLEAN]
           /\ outcome' \in [Conns -> Outcomes]
<1>1. sock' \in [Handlers -> Conns \union {NoConn}]
  BY DEF TypeOK, Disconnected
<1>2. timer' \in [Handlers -> BOOLEAN] /\ busy' \in [Handlers -> BOOLEAN]
  BY DEF TypeOK, Disconnected
<1>3. wire' \in [Conns -> Seq(Chunks)]
  <2>1. <<>> \in Seq(Chunks)
    BY EmptySeq, Zenon
  <2>2. wire' = [wire EXCEPT ![sock[h]] = <<>>] /\ wire \in [Conns -> Seq(Chunks)]
    BY Zenon DEF TypeOK, Disconnected
  <2>3. QED
    BY <2>1, <2>2, Zenon
<1>4. outcome' \in [Conns -> Outcomes]
  BY DEF TypeOK, Disconnected, Outcomes
<1>5. sent' \in [Conns -> Nat] /\ gone' \in [Conns -> BOOLEAN]
  BY DEF TypeOK, Disconnected
<1>6. QED
  BY <1>1, <1>2, <1>3, <1>4, <1>5

LEMMA PeerGoneInd == ASSUME IndInv, NEW h \in Handlers, PeerGone(h) PROVE IndInv'
<1>1. PICK q \in {"loop", "service", "closing"} : pc' = [pc EXCEPT ![h] = q]
  BY DEF IndInv, TypeOK, PeerGone
<1>2. TypeOK'
  <2>1. TypeOK /\ sock[h] # NoConn /\ Disconnected(h)
    BY DEF IndInv, PeerGone
  <2>2. QED
    BY <2>1, DisconnectedType DEF TypeOK, PeerGone, mainVars
<1>3. PoolInv' /\ MainInv' /\ HandlerInv' /\ OwnerInv'
  BY <1>1, DisconnectedInd DEF PeerGone
<1>4. QED
  BY <1>2, <1>3 DEF IndInv

LEMMA FlushedInd == ASSUME IndInv, NEW h \in Handlers, Flushed(h) PROVE IndInv'
<1>1. pc' \in [Handlers -> {"none", "loop", "service", "closing"}]
      /\ request' \in [Handlers -> Conns \union {NoConn}]
  BY DEF IndInv, TypeOK, Flushed
<1>2. CASE sock[h] # NoConn
  <2>1. TypeOK /\ Disconnected(h)
    BY <1>2 DEF IndInv, Flushed
  <2>2. TypeOK'
    BY <1>1, <1>2, <2>1, DisconnectedType DEF TypeOK, Flushed, mainVars
  <2>3. PoolInv' /\ MainInv' /\ HandlerInv' /\ OwnerInv'
    BY <1>2, <2>1, DisconnectedInd DEF Flushed
  <2>4. QED
    BY <2>2, <2>3 DEF IndInv
<1>3. CASE sock[h] = NoConn
  <2>1. TypeOK'
    BY <1>1, <1>3 DEF IndInv, TypeOK, Flushed, mainVars, clientVars
  <2>2. PoolInv' /\ MainInv' /\ HandlerInv' /\ OwnerInv'
    BY <1>3, ThreadMoves DEF Flushed, mainVars
  <2>3. QED
    BY <2>1, <2>2 DEF IndInv
<1>4. QED
  BY <1>2, <1>3

\* A handler takes the event queued for it.
LEMMA Taken ==
    ASSUME IndInv, NEW h \in Handlers, posted[h] # <<>>,
           posted' = [posted EXCEPT ![h] = Tail(@)]
    PROVE  /\ Head(posted[h]) \in Conns
           /\ posted'[h] = <<>>
           /\ posted' \in [Handlers -> Seq(Conns)]
           /\ \A k \in Handlers \ {h} : posted'[k] = posted[k]
           /\ busy[h] /\ sock[h] = NoConn /\ unadopted[h] = NoConn
           /\ Owns(h, Head(posted[h]))
<1>1. posted \in [Handlers -> Seq(Conns)] /\ Len(posted[h]) <= 1
  BY DEF IndInv, TypeOK, HandlerInv
<1>2. /\ Head(posted[h]) \in Conns /\ DOMAIN posted[h] = {1}
      /\ posted[h][1] = Head(posted[h]) /\ Tail(posted[h]) = <<>>
  <2>1. posted[h] \in Seq(Conns)
    BY <1>1
  <2>2. QED
    BY <1>1, <2>1, TakenOne, Zenon
<1>3. posted' = [posted EXCEPT ![h] = <<>>]
  BY <1>2
<1>4. posted' \in [Handlers -> Seq(Conns)]
  <2>1. <<>> \in Seq(Conns)
    BY EmptySeq, Zenon
  <2>2. QED
    BY <1>1, <1>3, <2>1, Zenon
<1>5. posted'[h] = <<>> /\ \A k \in Handlers \ {h} : posted'[k] = posted[k]
  BY <1>1, <1>3, Zenon
<1>6. busy[h] /\ sock[h] = NoConn /\ unadopted[h] = NoConn
  BY DEF IndInv, HandlerInv
<1>7. Owns(h, Head(posted[h]))
  BY <1>2, Zenon DEF Owns
<1>8. QED
  BY <1>2, <1>4, <1>5, <1>6, <1>7, Zenon

LEMMA HandleConnectionInd ==
    ASSUME IndInv, NEW h \in Handlers, HandleConnection(h) PROVE IndInv'
<1> DEFINE c == Head(posted[h])
<1>0. TypeOK /\ PoolInv /\ MainInv /\ HandlerInv /\ OwnerInv
  BY DEF IndInv
<1>1. /\ c \in Conns /\ posted'[h] = <<>> /\ posted' \in [Handlers -> Seq(Conns)]
      /\ \A k \in Handlers \ {h} : posted'[k] = posted[k]
      /\ busy[h] /\ sock[h] = NoConn /\ unadopted[h] = NoConn /\ Owns(h, c)
  BY Taken, Zenon DEF HandleConnection
<1>2. busy' = busy
  BY <1>0, <1>1 DEF HandleConnection, TypeOK
<1>3. sock'[h] = c /\ \A k \in Handlers \ {h} : sock'[k] = sock[k]
  BY <1>0 DEF HandleConnection, TypeOK
<1>4. UNCHANGED <<mainVars, pc, unadopted, outcome>>
  BY DEF HandleConnection
<1>5. TypeOK'
  <2>1. timer' \in [Handlers -> BOOLEAN] /\ sock' \in [Handlers -> Conns \union {NoConn}]
        /\ request' \in [Handlers -> Conns \union {NoConn}]
    BY <1>0, <1>1 DEF HandleConnection, TypeOK
  <2>2. QED
    BY <1>0, <1>1, <1>2, <2>1 DEF HandleConnection, TypeOK, mainVars, clientVars
<1>6. PoolInv' /\ MainInv'
  BY <1>0, <1>2, <1>4 DEF PoolInv, MainInv, mainVars
<1>7. HandlerInv'
  <2>0. c # NoConn /\ pc[h] # "none" /\ Len(posted'[h]) = 0
    <3>1. Len(posted'[h]) = 0
      BY <1>1, EmptySeq, Zenon
    <3>2. QED
      BY <1>1, <3>1, ConfigAssumption DEF HandleConnection
  <2>1. ASSUME NEW k \in Handlers
        PROVE  /\ Len(posted'[k]) <= 1
               /\ posted'[k] # <<>> => busy'[k] /\ sock'[k] = NoConn /\ unadopted'[k] = NoConn
               /\ sock'[k] # NoConn => busy'[k] /\ unadopted'[k] = NoConn
               /\ unadopted'[k] # NoConn => busy'[k]
               /\ pc'[k] = "none" => ~busy'[k]
    <3>1. CASE k = h
      <4>1. Len(posted'[h]) <= 1
        BY <2>0
      <4>2. QED
        BY <1>1, <1>2, <1>4, <2>0, <3>1, <4>1, Zenon
    <3>2. CASE k # h
      BY <1>0, <1>1, <1>2, <1>3, <1>4, <3>2, Zenon DEF HandlerInv
    <3>3. QED
      BY <3>1, <3>2
  <2>2. QED
    BY <2>1, Zenon DEF HandlerInv
<1>8. OwnerInv'
  <2>1. ASSUME NEW d \in Conns, NEW k \in Handlers, Owns(k, d)'
        PROVE  Owns(k, d)
    <3>1. CASE k = h
      <4>1. {posted'[h][i] : i \in DOMAIN posted'[h]} = {}
        BY <1>1
      <4>2. d = c
        BY <1>1, <1>3, <1>4, <2>1, <3>1, <4>1, ConfigAssumption DEF Owns
      <4>3. QED
        BY <1>1, <3>1, <4>2
    <3>2. CASE k # h
      BY <1>1, <1>3, <1>4, <2>1, <3>2 DEF Owns
    <3>3. QED
      BY <3>1, <3>2
  <2>2. QED
    BY <1>0, <1>4, <2>1 DEF OwnerInv
<1>9. QED
  BY <1>5, <1>6, <1>7, <1>8 DEF IndInv

LEMMA DescriptorFailsInd ==
    ASSUME IndInv, NEW h \in Handlers, DescriptorFails(h) PROVE IndInv'
<1> DEFINE c == Head(posted[h])
<1>0. TypeOK /\ PoolInv /\ MainInv /\ HandlerInv /\ OwnerInv
  BY DEF IndInv
<1>1. /\ c \in Conns /\ posted'[h] = <<>> /\ posted' \in [Handlers -> Seq(Conns)]
      /\ \A k \in Handlers \ {h} : posted'[k] = posted[k]
      /\ busy[h] /\ sock[h] = NoConn /\ unadopted[h] = NoConn /\ Owns(h, c)
  BY Taken, Zenon DEF DescriptorFails
<1>2. busy' = busy
  BY <1>0, <1>1 DEF DescriptorFails, TypeOK
<1>3. unadopted'[h] = c /\ \A k \in Handlers \ {h} : unadopted'[k] = unadopted[k]
  BY <1>0 DEF DescriptorFails, TypeOK
<1>4. UNCHANGED <<mainVars, pc, sock>>
  BY DEF DescriptorFails
<1>5. outcome'[c] = "failed" /\ \A d \in Conns \ {c} : outcome'[d] = outcome[d]
  BY <1>0, <1>1 DEF DescriptorFails, TypeOK
<1>6. TypeOK'
  <2>1. /\ unadopted' \in [Handlers -> Conns \union {NoConn}]
        /\ outcome' \in [Conns -> Outcomes]
    BY <1>0, <1>1 DEF DescriptorFails, TypeOK, Outcomes
  <2>2. QED
    BY <1>0, <1>1, <1>2, <2>1 DEF DescriptorFails, TypeOK, mainVars, clientVars
<1>7. PoolInv'
  BY <1>0, <1>4 DEF PoolInv, mainVars
<1>8. MainInv'
  <2>1. main = "get" => outcome'[arriving] = "new"
    BY <1>0, <1>1, <1>5 DEF MainInv, OwnerInv
  <2>2. QED
    BY <1>0, <1>2, <1>4, <2>1 DEF MainInv, mainVars
<1>9. HandlerInv'
  <2>0. c # NoConn /\ pc[h] # "none" /\ Len(posted'[h]) = 0
    <3>1. Len(posted'[h]) = 0
      BY <1>1, EmptySeq, Zenon
    <3>2. QED
      BY <1>1, <3>1, ConfigAssumption DEF DescriptorFails
  <2>1. ASSUME NEW k \in Handlers
        PROVE  /\ Len(posted'[k]) <= 1
               /\ posted'[k] # <<>> => busy'[k] /\ sock'[k] = NoConn /\ unadopted'[k] = NoConn
               /\ sock'[k] # NoConn => busy'[k] /\ unadopted'[k] = NoConn
               /\ unadopted'[k] # NoConn => busy'[k]
               /\ pc'[k] = "none" => ~busy'[k]
    <3>1. CASE k = h
      <4>1. Len(posted'[h]) <= 1
        BY <2>0
      <4>2. QED
        BY <1>1, <1>2, <1>4, <2>0, <3>1, <4>1, Zenon
    <3>2. CASE k # h
      BY <1>0, <1>1, <1>2, <1>3, <1>4, <3>2, Zenon DEF HandlerInv
    <3>3. QED
      BY <3>1, <3>2
  <2>2. QED
    BY <2>1, Zenon DEF HandlerInv
<1>10. OwnerInv'
  <2>1. ASSUME NEW d \in Conns, NEW k \in Handlers, Owns(k, d)'
        PROVE  Owns(k, d)
    <3>1. CASE k = h
      <4>1. {posted'[h][i] : i \in DOMAIN posted'[h]} = {}
        BY <1>1
      <4>2. d = c
        BY <1>1, <1>3, <1>4, <2>1, <3>1, <4>1, ConfigAssumption DEF Owns
      <4>3. QED
        BY <1>1, <3>1, <4>2
    <3>2. CASE k # h
      BY <1>1, <1>3, <1>4, <2>1, <3>2 DEF Owns
    <3>3. QED
      BY <3>1, <3>2
  <2>2. QED
    BY <1>0, <1>5, <2>1 DEF OwnerInv
<1>11. QED
  BY <1>6, <1>7, <1>8, <1>9, <1>10 DEF IndInv

\* The thread ends: whatever its handler held is released.
LEMMA ExitInd == ASSUME IndInv, NEW h \in Handlers, Exit(h) PROVE IndInv'
<1>0. TypeOK /\ PoolInv /\ MainInv /\ HandlerInv /\ OwnerInv
  BY DEF IndInv
<1>1. /\ posted'[h] = <<>> /\ posted' \in [Handlers -> Seq(Conns)]
      /\ \A k \in Handlers \ {h} : posted'[k] = posted[k]
  <2>1. <<>> \in Seq(Conns)
    BY EmptySeq, Zenon
  <2>2. posted' = [posted EXCEPT ![h] = <<>>] /\ posted \in [Handlers -> Seq(Conns)]
    BY <1>0, Zenon DEF Exit, TypeOK
  <2>3. QED
    BY <2>1, <2>2, Zenon
<1>2. /\ pc'[h] = "none" /\ ~busy'[h] /\ sock'[h] = NoConn /\ unadopted'[h] = NoConn
      /\ \A k \in Handlers \ {h} : /\ pc'[k] = pc[k] /\ busy'[k] = busy[k]
                                   /\ sock'[k] = sock[k] /\ unadopted'[k] = unadopted[k]
  BY <1>0 DEF Exit, TypeOK
<1>3. \A i \in 1..Len(pool) : pool[i] \in Handlers
  BY <1>0, ElementOfSeq DEF TypeOK
<1>4. main \in {"reap", "close"} /\ at \in 1..Len(pool) /\ h = pool[at]
  BY <1>0, LenProperties DEF Exit, Quitting, TypeOK
<1>5. \A d \in Conns : outcome'[d] = outcome[d] \/ Owns(h, d)
  BY <1>0 DEF Exit, TypeOK, Owns, ToSet
<1>6. TypeOK'
  <2>1. /\ pc' \in [Handlers -> {"none", "loop", "service", "closing"}]
        /\ sock' \in [Handlers -> Conns \union {NoConn}]
        /\ request' \in [Handlers -> Conns \union {NoConn}]
        /\ unadopted' \in [Handlers -> Conns \union {NoConn}]
    BY <1>0 DEF Exit, TypeOK
  <2>2. busy' \in [Handlers -> BOOLEAN] /\ timer' \in [Handlers -> BOOLEAN]
    BY <1>0 DEF Exit, TypeOK
  <2>3. outcome' \in [Conns -> Outcomes]
    BY <1>0 DEF Exit, TypeOK, Outcomes
  <2>4. QED
    BY <1>0, <1>1, <2>1, <2>2, <2>3 DEF Exit, TypeOK, mainVars, clientVars
<1>7. PoolInv'
  BY <1>0, <1>2 DEF PoolInv, Exit, mainVars
<1>8. MainInv'
  <2>1. \A i \in 1..Len(pool) : i # at => pc'[pool[i]] = pc[pool[i]]
    BY <1>0, <1>2, <1>3, <1>4 DEF PoolInv
  <2>2. ~busy'[pool[at]]
    BY <1>2, <1>4
  <2>3. \A i \in 1..Len(pool) : i < at => i # at
    BY <1>4
  <2>4. UNCHANGED mainVars
    BY DEF Exit
  <2>5. QED
    BY <1>0, <1>4, <2>1, <2>2, <2>3, <2>4 DEF MainInv, mainVars
<1>9. HandlerInv'
  <2>0. Len(posted'[h]) = 0
    BY <1>1, EmptySeq, Zenon
  <2>1. ASSUME NEW k \in Handlers
        PROVE  /\ Len(posted'[k]) <= 1
               /\ posted'[k] # <<>> => busy'[k] /\ sock'[k] = NoConn /\ unadopted'[k] = NoConn
               /\ sock'[k] # NoConn => busy'[k] /\ unadopted'[k] = NoConn
               /\ unadopted'[k] # NoConn => busy'[k]
               /\ pc'[k] = "none" => ~busy'[k]
    <3>1. CASE k = h
      <4>1. Len(posted'[h]) <= 1
        BY <2>0
      <4>2. QED
        BY <1>1, <1>2, <3>1, <4>1, Zenon
    <3>2. CASE k # h
      BY <1>0, <1>1, <1>2, <3>2, Zenon DEF HandlerInv
    <3>3. QED
      BY <3>1, <3>2
  <2>2. QED
    BY <2>1, Zenon DEF HandlerInv
<1>10. OwnerInv'
  <2>1. ASSUME NEW d \in Conns, NEW k \in Handlers, Owns(k, d)'
        PROVE  k # h /\ Owns(k, d)
    <3>1. k # h
      <4>1. {posted'[h][i] : i \in DOMAIN posted'[h]} = {}
        BY <1>1
      <4>2. QED
        BY <1>2, <2>1, <4>1, ConfigAssumption DEF Owns
    <3>2. QED
      BY <1>1, <1>2, <2>1, <3>1 DEF Owns
  <2>2. ASSUME NEW d \in Conns, NEW k \in Handlers, Owns(k, d)'
        PROVE  outcome'[d] \in {"accepted", "failed"}
    <3>1. ~Owns(h, d)
      BY <1>0, <2>1, <2>2 DEF OwnerInv
    <3>2. QED
      BY <1>0, <1>5, <2>1, <2>2, <3>1 DEF OwnerInv
  <2>3. QED
    BY <1>0, <2>1, <2>2 DEF OwnerInv
<1>11. QED
  BY <1>6, <1>7, <1>8, <1>9, <1>10 DEF IndInv

LEMMA SendInd ==
    ASSUME IndInv, NEW c \in Conns, NEW chunk \in Chunks, Send(c, chunk) PROVE IndInv'
<1>1. TypeOK'
  <2>1. wire' \in [Conns -> Seq(Chunks)]
    BY AppendProperties DEF IndInv, TypeOK, Send
  <2>2. QED
    BY <2>1 DEF IndInv, TypeOK, Send, mainVars, handlerVars
<1>2. MainInv'
  BY DEF IndInv, MainInv, Send, mainVars, handlerVars
<1>3. QED
  BY <1>1, <1>2, Undisturbed DEF IndInv, Send, mainVars, handlerVars, shared

LEMMA HangUpInd == ASSUME IndInv, NEW c \in Conns, HangUp(c) PROVE IndInv'
<1>1. TypeOK'
  <2>1. gone' \in [Conns -> BOOLEAN]
    BY DEF IndInv, TypeOK, HangUp
  <2>2. QED
    BY <2>1 DEF IndInv, TypeOK, HangUp, mainVars, handlerVars
<1>2. MainInv'
  BY DEF IndInv, MainInv, HangUp, mainVars, handlerVars
<1>3. QED
  BY <1>1, <1>2, Undisturbed DEF IndInv, HangUp, mainVars, handlerVars, shared

-----------------------------------------------------------------------------
(* The pool implements the service.                                        *)

\* The connection that h holds, if any: IndInv leaves it one way to hold one.
Held(h) ==
    IF posted[h] # <<>> THEN Head(posted[h])
    ELSE IF sock[h] # NoConn THEN sock[h] ELSE unadopted[h]

\* Those it owns; and what holds a place of the service.
HeldShape ==
    /\ \A h \in Handlers :
          /\ Held(h) \in Conns \union {NoConn}
          /\ \A c \in Conns : Owns(h, c) <=> c = Held(h)
          /\ HeldBy(h) = {Held(h)} \ {NoConn}
          /\ Held(h) # NoConn => busy[h] /\ pc[h] # "none"
    /\ Holding = {Held(h) : h \in Handlers} \ {NoConn}
    /\ \A h, k \in Handlers : Held(h) # NoConn /\ Held(h) = Held(k) => h = k

LEMMA HeldIsOwned ==
    IndInv => \A h \in Handlers :
                 /\ Held(h) \in Conns \union {NoConn}
                 /\ \A c \in Conns : Owns(h, c) <=> c = Held(h)
                 /\ HeldBy(h) = {Held(h)} \ {NoConn}
                 /\ Held(h) # NoConn => busy[h] /\ pc[h] # "none"
<1> SUFFICES ASSUME IndInv, NEW h \in Handlers
             PROVE  /\ Held(h) \in Conns \union {NoConn}
                    /\ \A c \in Conns : Owns(h, c) <=> c = Held(h)
                    /\ HeldBy(h) = {Held(h)} \ {NoConn}
                    /\ Held(h) # NoConn => busy[h] /\ pc[h] # "none"
  OBVIOUS
<1>0. TypeOK /\ HandlerInv
  BY DEF IndInv
<1>1. CASE posted[h] # <<>>
  <2>1. posted[h] \in Seq(Conns) /\ Len(posted[h]) <= 1
    BY <1>0 DEF TypeOK, HandlerInv
  <2>2. Head(posted[h]) \in Conns /\ DOMAIN posted[h] = {1} /\ posted[h][1] = Head(posted[h])
    BY <1>1, <2>1, TakenOne, Zenon
  <2>3. busy[h] /\ sock[h] = NoConn /\ unadopted[h] = NoConn /\ pc[h] # "none"
    BY <1>0, <1>1 DEF HandlerInv
  <2>4. Held(h) = Head(posted[h]) /\ Held(h) # NoConn
    BY <1>1, <2>2, ConfigAssumption DEF Held
  <2>5. {posted[h][i] : i \in DOMAIN posted[h]} = {Held(h)}
    BY <2>2, <2>4
  <2>6. QED
    BY <2>2, <2>3, <2>4, <2>5, ConfigAssumption DEF Owns, HeldBy, ToSet
<1>2. CASE posted[h] = <<>>
  <2>1. {posted[h][i] : i \in DOMAIN posted[h]} = {}
    BY <1>2
  <2>2. Held(h) = IF sock[h] # NoConn THEN sock[h] ELSE unadopted[h]
    BY <1>2 DEF Held
  <2>3. sock[h] \in Conns \union {NoConn} /\ unadopted[h] \in Conns \union {NoConn}
    BY <1>0 DEF TypeOK
  <2>4. /\ sock[h] # NoConn => busy[h] /\ unadopted[h] = NoConn
        /\ unadopted[h] # NoConn => busy[h]
        /\ pc[h] = "none" => ~busy[h]
    BY <1>0 DEF HandlerInv
  <2>5. QED
    BY <2>1, <2>2, <2>3, <2>4, ConfigAssumption DEF Owns, HeldBy, ToSet
<1>3. QED
  BY <1>1, <1>2

\* So the service's places are taken by what the handlers hold.
LEMMA HoldingIs == IndInv => HeldShape
<1> SUFFICES ASSUME IndInv
             PROVE  HeldShape
  OBVIOUS
<1>1. \A h \in Handlers : HeldBy(h) = {Held(h)} \ {NoConn} /\ Held(h) \in Conns \union {NoConn}
  BY HeldIsOwned
<1>2. Holding = {Held(h) : h \in Handlers} \ {NoConn}
  BY <1>1 DEF Holding
<1>3. \A h, k \in Handlers : Held(h) # NoConn /\ Held(h) = Held(k) => h = k
  BY HeldIsOwned DEF IndInv, OwnerInv
<1>4. QED
  BY <1>2, <1>3, HeldIsOwned DEF HeldShape

LEMMA PrimedHolding == IndInv' => HeldShape'
BY HoldingIs, PTL

\* A set of connections, each held by a handler of its own that the pool lists at one
\* of some positions, is not larger than the number of these.
LEMMA FewHeld ==
    ASSUME IndInv, NEW N \in SUBSET (1..Len(pool)),
           \A i \in 1..Len(pool) \ N : Held(pool[i]) = NoConn
    PROVE  IsFiniteSet(Holding) /\ Cardinality(Holding) <= Cardinality(N)
<1>0. HeldShape /\ TypeOK /\ PoolInv
  BY HoldingIs DEF IndInv
<1>1. Len(pool) \in Nat /\ \A i \in 1..Len(pool) : pool[i] \in Handlers
  BY <1>0, ElementOfSeq, LenProperties DEF TypeOK
<1>2. IsFiniteSet(N)
  <2>1. IsFiniteSet(1..Len(pool))
    BY <1>1, FS_Interval
  <2>2. QED
    BY <2>1, FS_Subset
<1>3. \A c \in Holding : \E i \in N : Held(pool[i]) = c
  <2> SUFFICES ASSUME NEW c \in Holding
               PROVE  \E i \in N : Held(pool[i]) = c
    OBVIOUS
  <2>1. PICK h \in Handlers : Held(h) = c /\ c # NoConn
    BY <1>0 DEF HeldShape
  <2>2. pc[h] # "none"
    BY <1>0, <2>1 DEF HeldShape
  <2>3. PICK i \in 1..Len(pool) : pool[i] = h
    BY <1>0, <2>2 DEF PoolInv
  <2>4. QED
    BY <2>1, <2>3
<1> DEFINE f == [c \in Holding |-> CHOOSE i \in N : Held(pool[i]) = c]
<1>4. \A c \in Holding : f[c] \in N /\ Held(pool[f[c]]) = c
  BY <1>3
<1> HIDE DEF f
<1>5. f \in [Holding -> N]
  <2>1. f = [c \in Holding |-> f[c]]
    BY DEF f
  <2>2. QED
    BY <1>4, <2>1
<1>6. f \in Injection(Holding, N)
  BY <1>4, <1>5 DEF Injection, IsInjective
<1>7. QED
  BY <1>2, <1>6, FS_Injection

\* A handler is busy only while it holds a connection, which then was accepted, or could
\* not be adopted; and as long as there was a place when a connection arrived, the search
\* has not passed it.
PlaceInv ==
    /\ \A h \in Handlers : busy[h] => Held(h) # NoConn
    /\ \A h \in Handlers :
          Held(h) # NoConn =>
              outcome[Held(h)] = IF unadopted[h] = NoConn THEN "accepted" ELSE "failed"
    /\ main = "get" /\ ~crowded =>
          Len(pool) < MaxThreads \/ \E i \in at..Len(pool) : ~busy[pool[i]]

\* The positions of a list of n handlers.
LEMMA CardinalityUpTo ==
    ASSUME NEW n \in Nat
    PROVE  IsFiniteSet(1..n) /\ Cardinality(1..n) = n
<1>1. Cardinality(1..n) = IF 1 > n THEN 0 ELSE n - 1 + 1
  BY FS_Interval, 1 \in Int, n \in Int
<1>2. QED
  BY <1>1, FS_Interval

\* The cardinality ConnectionService speaks of is the one of FiniteSets.
LEMMA ServiceCardinality == \A S : Service!Cardinality(S) = Cardinality(S)
BY DEF Service!Cardinality, Cardinality

LEMMA InitPlace == Init => PlaceInv /\ Service!Init
<1> SUFFICES ASSUME Init
             PROVE  PlaceInv /\ Service!Init
  OBVIOUS
<1>1. \A h \in Handlers : Held(h) = NoConn /\ HeldBy(h) = {}
  BY DEF Init, Held, HeldBy, ToSet
<1>2. PlaceInv
  BY <1>1 DEF Init, PlaceInv
<1>3. Holding = {}
  BY <1>1 DEF Holding
<1>4. QED
  BY <1>2, <1>3 DEF Init, Service!Init

\* Steps that the service does not see.
LEMMA QuietMaps ==
    ASSUME PlaceInv, UNCHANGED <<busy, posted, sock, unadopted, outcome, arriving, crowded>>,
           main' = "get" => main = "get" /\ UNCHANGED <<pool, at>>
    PROVE  PlaceInv' /\ UNCHANGED Service!vars
<1>1. \A h \in Handlers : Held(h)' = Held(h) /\ HeldBy(h)' = HeldBy(h)
  BY DEF Held, HeldBy
<1>2. PlaceInv'
  BY <1>1 DEF PlaceInv
<1>3. Holding' = Holding
  BY <1>1 DEF Holding
<1>4. QED
  BY <1>2, <1>3 DEF Service!vars

LEMMA PassBusyMaps ==
    ASSUME IndInv, PlaceInv, PassBusy
    PROVE  PlaceInv' /\ UNCHANGED Service!vars
<1>1. \A h \in Handlers : Held(h)' = Held(h) /\ HeldBy(h)' = HeldBy(h)
  BY DEF Held, HeldBy, PassBusy, handlerVars
<1>2. Holding' = Holding
  BY <1>1 DEF Holding
<1>3. at \in Nat /\ Len(pool) \in Nat
  BY LenProperties DEF IndInv, TypeOK
<1>4. ASSUME NEW i \in at..Len(pool), ~busy[pool[i]]
      PROVE  i \in at + 1..Len(pool)
  BY <1>3, <1>4 DEF PassBusy
<1>5. PlaceInv'
  BY <1>1, <1>4 DEF PlaceInv, PassBusy, handlerVars
<1>6. QED
  BY <1>2, <1>5 DEF PassBusy, Service!vars

\* If every handler of a full pool is busy, no place is left.
LEMMA IncomingMaps ==
    ASSUME IndInv, PlaceInv, NEW c \in Conns, Incoming(c)
    PROVE  PlaceInv' /\ Service!Arrive(c)
<1>0. HeldShape /\ TypeOK /\ PoolInv /\ MainInv
  BY HoldingIs DEF IndInv
<1>1. \A h \in Handlers : Held(h)' = Held(h) /\ HeldBy(h)' = HeldBy(h)
  BY DEF Held, HeldBy, Incoming, handlerVars
<1>2. Holding' = Holding
  BY <1>1 DEF Holding
<1>3. /\ Len(pool) \in Nat /\ MaxThreads \in Nat
      /\ \A i \in 1..Len(pool) : pool[i] \in Handlers
  BY <1>0, ElementOfSeq, LenProperties, ConfigAssumption DEF TypeOK
<1>4. IsFiniteSet(Holding) /\ Cardinality(Holding) \in Nat
  BY FewHeld, FS_CardinalityType
<1>5. ASSUME \A i \in 1..Len(pool) : busy[pool[i]]
      PROVE  Len(pool) <= Cardinality(Holding)
  <2> DEFINE f == [i \in 1..Len(pool) |-> Held(pool[i])]
  <2>1. \A i \in 1..Len(pool) : Held(pool[i]) # NoConn /\ Held(pool[i]) \in Holding
    BY <1>0, <1>3, <1>5 DEF HeldShape, PlaceInv
  <2>2. \A i, j \in 1..Len(pool) : Held(pool[i]) = Held(pool[j]) => i = j
    BY <1>0, <1>3, <2>1 DEF HeldShape, PoolInv
  <2>3. f \in Injection(1..Len(pool), Holding)
    BY <2>1, <2>2 DEF Injection, IsInjective
  <2>4. Cardinality(1..Len(pool)) = Len(pool)
    BY <1>3, CardinalityUpTo
  <2> HIDE DEF f
  <2>5. QED
    BY <1>4, <2>3, <2>4, FS_Injection
<1>6. ~crowded' => Len(pool) < MaxThreads \/ \E i \in 1..Len(pool) : ~busy[pool[i]]
  <2>1. crowded' = (Cardinality(Holding) >= MaxThreads)
    BY DEF Incoming
  <2>2. CASE Len(pool) < MaxThreads
    BY <2>2
  <2>3. CASE \E i \in 1..Len(pool) : ~busy[pool[i]]
    BY <2>3
  <2>4. CASE ~(Len(pool) < MaxThreads) /\ \A i \in 1..Len(pool) : busy[pool[i]]
    <3>1. Len(pool) <= Cardinality(Holding)
      BY <1>5, <2>4
    <3>2. Cardinality(Holding) >= MaxThreads
      BY <1>3, <1>4, <2>4, <3>1
    <3>3. QED
      BY <2>1, <3>2
  <2>5. QED
    BY <2>2, <2>3, <2>4
<1>7. PlaceInv'
  BY <1>1, <1>6 DEF PlaceInv, Incoming, handlerVars
<1>8. Service!Arrive(c)
  BY ServiceCardinality, <1>0, <1>2 DEF Service!Arrive, Incoming, MainInv
<1>9. QED
  BY <1>7, <1>8

\* A full pool whose search has found no place had none when the connection arrived.
LEMMA RejectMaps ==
    ASSUME IndInv, PlaceInv, Reject
    PROVE  PlaceInv' /\ Service!TurnAway(arriving) /\ arriving \in Conns
<1>1. \A h \in Handlers : Held(h)' = Held(h) /\ HeldBy(h)' = HeldBy(h)
  BY DEF Held, HeldBy, Reject, handlerVars
<1>2. Holding' = Holding
  BY <1>1 DEF Holding
<1>3. /\ at \in Nat /\ Len(pool) \in Nat /\ crowded \in BOOLEAN
      /\ arriving \in Conns /\ outcome[arriving] = "new" /\ outcome \in [Conns -> Outcomes]
  BY LenProperties DEF IndInv, TypeOK, MainInv, Reject
<1>4. crowded
  BY <1>3, ConfigAssumption DEF PlaceInv, Reject
<1>5. PlaceInv'
  <2>1. \A h \in Handlers : Held(h) # NoConn => Held(h) # arriving
    BY <1>3 DEF PlaceInv
  <2>2. \A c \in Conns \ {arriving} : outcome'[c] = outcome[c]
    BY <1>3 DEF Reject
  <2>3. \A h \in Handlers : Held(h) \in Conns \union {NoConn}
    BY HoldingIs DEF HeldShape
  <2>4. ASSUME NEW h \in Handlers, Held(h) # NoConn
        PROVE  outcome'[Held(h)] = IF unadopted[h] = NoConn THEN "accepted" ELSE "failed"
    BY <2>1, <2>2, <2>3, <2>4 DEF PlaceInv
  <2>5. QED
    BY <1>1, <2>4 DEF PlaceInv, Reject, handlerVars
<1>6. QED
  BY <1>2, <1>3, <1>4, <1>5 DEF Reject, Service!TurnAway

\* An arriving connection takes a place by being queued for a handler that held none.
LEMMA AdmitMaps ==
    ASSUME IndInv, IndInv', PlaceInv, main = "get", NEW h \in Handlers, ~busy[h], Post(h),
           busy' = [busy EXCEPT ![h] = TRUE],
           IsFiniteSet(Holding), Cardinality(Holding) < MaxThreads
    PROVE  PlaceInv' /\ Service!Admit(arriving) /\ arriving \in Conns
<1>0. HeldShape /\ HeldShape' /\ TypeOK /\ HandlerInv /\ MainInv
  BY HoldingIs, PrimedHolding DEF IndInv
<1>1. arriving \in Conns /\ outcome[arriving] = "new" /\ arriving # NoConn
  BY <1>0, ConfigAssumption DEF MainInv
<1>2. posted[h] = <<>> /\ sock[h] = NoConn /\ unadopted[h] = NoConn /\ Held(h) = NoConn
  BY <1>0 DEF HandlerInv, Held
<1>3. posted'[h] # <<>> /\ Head(posted'[h]) = arriving
  <2>1. posted[h] \in Seq(Conns) /\ posted'[h] = Append(posted[h], arriving)
    BY <1>0 DEF TypeOK, Post
  <2>2. posted'[h] = <<arriving>>
    BY <1>1, <1>2, <2>1
  <2>3. QED
    BY <2>2
<1>4. Held(h)' = arriving
  BY <1>3 DEF Held
<1>5. \A k \in Handlers \ {h} : Held(k)' = Held(k) /\ busy'[k] = busy[k]
  BY <1>0 DEF Held, Post, TypeOK
<1>6. Holding' = Holding \union {arriving}
  BY <1>0, <1>1, <1>2, <1>4, <1>5 DEF HeldShape
<1>7. PlaceInv'
  <2>1. /\ outcome'[arriving] = "accepted"
        /\ \A c \in Conns \ {arriving} : outcome'[c] = outcome[c]
        /\ unadopted' = unadopted /\ main' = "loop"
    BY <1>0, <1>1 DEF Post, TypeOK
  <2>2. \A k \in Handlers : Held(k) # arriving /\ Held(k) \in Conns \union {NoConn}
    BY <1>0, <1>1 DEF PlaceInv, HeldShape
  <2>3. \A k \in Handlers : busy'[k] => Held(k)' # NoConn
    BY <1>1, <1>4, <1>5 DEF PlaceInv
  <2>4. ASSUME NEW k \in Handlers, Held(k)' # NoConn
        PROVE  outcome'[Held(k)'] = IF unadopted'[k] = NoConn THEN "accepted" ELSE "failed"
    <3>1. CASE k = h
      BY <1>2, <1>4, <2>1, <3>1
    <3>2. CASE k # h
      BY <1>5, <2>1, <2>2, <2>4, <3>2 DEF PlaceInv
    <3>3. QED
      BY <3>1, <3>2
  <2>5. main' # "get"
    BY <2>1
  <2>6. QED
    BY <2>3, <2>4, <2>5, Zenon DEF PlaceInv
<1>8. Service!Admit(arriving)
  BY <1>6, ServiceCardinality DEF Service!Admit, Post
<1>9. QED
  BY <1>1, <1>7, <1>8

\* A free handler of the pool is one that holds no connection.
LEMMA TakeFreeMaps ==
    ASSUME IndInv, IndInv', PlaceInv, TakeFree
    PROVE  PlaceInv' /\ Service!Admit(arriving) /\ arriving \in Conns
<1>0. HeldShape /\ TypeOK /\ PoolInv
  BY HoldingIs DEF IndInv
<1>1. Len(pool) \in Nat /\ at \in 1..Len(pool) /\ pool[at] \in Handlers
  BY <1>0, ElementOfSeq, LenProperties DEF TypeOK, TakeFree
<1>2. Held(pool[at]) = NoConn
  BY <1>0, <1>1 DEF HeldShape, TakeFree
<1>3. /\ IsFiniteSet(Holding)
      /\ Cardinality(Holding) <= Cardinality((1..Len(pool)) \ {at})
  BY <1>1, <1>2, FewHeld
<1>4. IsFiniteSet(1..Len(pool)) /\ Cardinality(1..Len(pool)) = Len(pool)
  BY <1>1, CardinalityUpTo
<1>5. Cardinality((1..Len(pool)) \ {at}) = Len(pool) - 1
  BY <1>1, <1>4, FS_RemoveElement
<1>6. Cardinality(Holding) < MaxThreads
  <2>1. Cardinality(Holding) \in Nat /\ Len(pool) <= MaxThreads
    BY <1>0, <1>3, FS_CardinalityType DEF PoolInv
  <2>2. QED
    BY <1>1, <1>3, <1>5, <2>1, ConfigAssumption
<1>7. QED
  BY <1>1, <1>3, <1>6, AdmitMaps DEF TakeFree

\* A pool that can grow has fewer connections than the service has places.
LEMMA CreateMaps ==
    ASSUME IndInv, IndInv', PlaceInv, NEW h \in Handlers, Create(h)
    PROVE  PlaceInv' /\ Service!Admit(arriving) /\ arriving \in Conns
<1>0. TypeOK /\ PoolInv /\ HandlerInv
  BY DEF IndInv
<1>1. Len(pool) \in Nat
  BY <1>0, LenProperties DEF TypeOK
<1>2. ~busy[h]
  <2>1. \A i \in 1..Len(pool) : pool[i] # h
    BY <1>0, LenProperties DEF ToSet, TypeOK, Create
  <2>2. QED
    BY <1>0, <2>1 DEF PoolInv, HandlerInv
<1>3. IsFiniteSet(Holding) /\ Cardinality(Holding) <= Cardinality(1..Len(pool))
  BY FewHeld
<1>4. Cardinality(Holding) < MaxThreads
  <2>1. Cardinality(Holding) \in Nat /\ Cardinality(1..Len(pool)) = Len(pool)
    BY <1>1, <1>3, CardinalityUpTo, FS_CardinalityType
  <2>2. QED
    BY <1>1, <1>3, <2>1, ConfigAssumption DEF Create
<1>5. QED
  BY <1>2, <1>3, <1>4, AdmitMaps DEF Create

\* A step of a handler's thread keeps what PlaceInv says, if the handler stays free and
\* otherwise holds the same connection or none.
LEMMA HandlerPlace ==
    ASSUME IndInv, PlaceInv, NEW h \in Handlers, UNCHANGED mainVars,
           \A k \in Handlers \ {h} :
              busy'[k] = busy[k] /\ unadopted'[k] = unadopted[k] /\ Held(k)' = Held(k),
           \A c \in Conns : c # Held(h) => outcome'[c] = outcome[c],
           busy'[h] => busy[h] /\ Held(h)' # NoConn,
           Held(h)' # NoConn =>
              /\ Held(h)' = Held(h)
              /\ outcome'[Held(h)] = IF unadopted'[h] = NoConn THEN "accepted" ELSE "failed"
    PROVE  PlaceInv'
<1>0. HeldShape /\ TypeOK
  BY HoldingIs DEF IndInv
<1>1. \A k \in Handlers : busy'[k] => busy[k] /\ Held(k)' # NoConn
  BY DEF PlaceInv
<1>2. ASSUME NEW k \in Handlers, Held(k)' # NoConn
      PROVE  outcome'[Held(k)'] = IF unadopted'[k] = NoConn THEN "accepted" ELSE "failed"
  <2>1. CASE k = h
    BY <1>2, <2>1
  <2>2. CASE k # h
    <3>1. Held(k) \in Conns /\ Held(k) # NoConn /\ Held(k) # Held(h)
      BY <1>0, <1>2, <2>2 DEF HeldShape
    <3>2. QED
      BY <2>2, <3>1 DEF PlaceInv
  <2>3. QED
    BY <2>1, <2>2
<1>3. main' = "get" /\ ~crowded' =>
          Len(pool') < MaxThreads \/ \E i \in at'..Len(pool') : ~busy'[pool'[i]]
  <2>1. main' = main /\ crowded' = crowded /\ pool' = pool /\ at' = at
    BY DEF mainVars
  <2>2. \A i \in at..Len(pool) : pool[i] \in Handlers
    BY <1>0, ElementOfSeq DEF TypeOK
  <2>3. QED
    BY <1>1, <2>1, <2>2 DEF PlaceInv
<1>4. QED
  BY <1>1, <1>2, <1>3, Zenon DEF PlaceInv

\* What the service sees of such a step.
LEMMA HandlerHolding ==
    ASSUME IndInv, IndInv', NEW h \in Handlers,
           \A k \in Handlers \ {h} : Held(k)' = Held(k)
    PROVE  /\ Held(h)' = Held(h) => Holding' = Holding
           /\ Held(h)' = NoConn => Holding' = Holding \ {Held(h)}
           /\ Held(h) # NoConn => Held(h) \in Holding /\ Held(h) \in Conns
<1>0. HeldShape /\ HeldShape'
  BY HoldingIs, PrimedHolding
<1>1. QED
  BY <1>0 DEF HeldShape

\* The queued connection is adopted: it keeps its place.
LEMMA HandleConnectionMaps ==
    ASSUME IndInv, IndInv', PlaceInv, NEW h \in Handlers, HandleConnection(h)
    PROVE  PlaceInv' /\ UNCHANGED Service!vars
<1>0. TypeOK /\ HandlerInv
  BY DEF IndInv
<1>1. /\ busy[h] /\ sock[h] = NoConn /\ unadopted[h] = NoConn
      /\ posted[h] \in Seq(Conns) /\ Len(posted[h]) <= 1 /\ posted[h] # <<>>
  BY <1>0 DEF HandleConnection, HandlerInv, TypeOK
<1>2. Head(posted[h]) \in Conns /\ Tail(posted[h]) = <<>> /\ Head(posted[h]) # NoConn
  BY <1>1, TakenOne, ConfigAssumption, Zenon
<1>3. /\ posted'[h] = <<>> /\ sock'[h] = Head(posted[h])
      /\ unadopted' = unadopted /\ outcome' = outcome
      /\ \A k \in Handlers \ {h} : /\ posted'[k] = posted[k] /\ sock'[k] = sock[k]
                                   /\ busy'[k] = busy[k]
  BY <1>0, <1>2 DEF HandleConnection, TypeOK
<1>4. Held(h)' = Held(h) /\ Held(h) # NoConn
  BY <1>1, <1>2, <1>3 DEF Held
<1>5. \A k \in Handlers \ {h} : Held(k)' = Held(k)
  BY <1>3 DEF Held
<1>6. PlaceInv'
  <2>1. outcome'[Held(h)] = IF unadopted'[h] = NoConn THEN "accepted" ELSE "failed"
    BY <1>3, <1>4 DEF PlaceInv
  <2>2. UNCHANGED mainVars
    BY DEF HandleConnection
  <2>3. QED
    BY <1>1, <1>3, <1>4, <1>5, <2>1, <2>2, HandlerPlace
<1>7. UNCHANGED Service!vars
  BY <1>3, <1>4, <1>5, HandlerHolding DEF HandleConnection, Service!vars, mainVars
<1>8. QED
  BY <1>6, <1>7

\* A connection that cannot be adopted keeps its place, too.
LEMMA DescriptorFailsMaps ==
    ASSUME IndInv, IndInv', PlaceInv, NEW h \in Handlers, DescriptorFails(h)
    PROVE  PlaceInv' /\ \E c \in Conns : Service!FailToAdopt(c)
<1>0. TypeOK /\ HandlerInv
  BY DEF IndInv
<1>1. /\ busy[h] /\ sock[h] = NoConn /\ unadopted[h] = NoConn
      /\ posted[h] \in Seq(Conns) /\ Len(posted[h]) <= 1 /\ posted[h] # <<>>
  BY <1>0 DEF DescriptorFails, HandlerInv, TypeOK
<1>2. Head(posted[h]) \in Conns /\ Tail(posted[h]) = <<>> /\ Head(posted[h]) # NoConn
  BY <1>1, TakenOne, ConfigAssumption, Zenon
<1>3. /\ posted'[h] = <<>> /\ sock' = sock /\ unadopted'[h] = Head(posted[h])
      /\ outcome' = [outcome EXCEPT ![Head(posted[h])] = "failed"]
      /\ \A k \in Handlers \ {h} : /\ posted'[k] = posted[k] /\ unadopted'[k] = unadopted[k]
                                   /\ busy'[k] = busy[k]
  BY <1>0, <1>2 DEF DescriptorFails, TypeOK
<1>4. Held(h) = Head(posted[h]) /\ Held(h)' = Held(h) /\ Held(h) # NoConn
  BY <1>1, <1>2, <1>3 DEF Held
<1>5. \A k \in Handlers \ {h} : Held(k)' = Held(k)
  BY <1>3 DEF Held
<1>6. PlaceInv'
  <2>1. /\ outcome'[Held(h)] = "failed" /\ unadopted'[h] # NoConn
        /\ \A c \in Conns : c # Held(h) => outcome'[c] = outcome[c]
    BY <1>0, <1>2, <1>3, <1>4 DEF TypeOK
  <2>2. UNCHANGED mainVars
    BY DEF DescriptorFails
  <2>3. QED
    BY <1>1, <1>3, <1>4, <1>5, <2>1, <2>2, HandlerPlace
<1>7. Service!FailToAdopt(Held(h)) /\ Held(h) \in Conns
  <2>1. outcome[Held(h)] = "accepted"
    BY <1>1, <1>4 DEF PlaceInv
  <2>2. Holding' = Holding /\ Held(h) \in Holding
    BY <1>4, <1>5, HandlerHolding
  <2>3. QED
    BY <1>2, <1>3, <1>4, <2>1, <2>2 DEF DescriptorFails, Service!FailToAdopt, mainVars
<1>8. QED
  BY <1>6, <1>7

\* disconnected() gives the place back.
LEMMA DisconnectedMaps ==
    ASSUME IndInv, IndInv', PlaceInv, NEW h \in Handlers, sock[h] # NoConn, Disconnected(h),
           UNCHANGED mainVars, UNCHANGED <<posted, unadopted>>
    PROVE  PlaceInv' /\ \E c \in Conns : Service!End(c)
<1>0. TypeOK /\ HandlerInv
  BY DEF IndInv
<1>1. sock[h] \in Conns /\ posted[h] = <<>> /\ unadopted[h] = NoConn
  BY <1>0 DEF HandlerInv, TypeOK
<1>2. /\ sock'[h] = NoConn /\ ~busy'[h]
      /\ outcome' = [outcome EXCEPT ![sock[h]] = "closed"]
      /\ \A k \in Handlers \ {h} : sock'[k] = sock[k] /\ busy'[k] = busy[k]
  BY <1>0 DEF Disconnected, TypeOK
<1>3. Held(h) = sock[h] /\ Held(h)' = NoConn
  BY <1>1, <1>2 DEF Held
<1>4. \A k \in Handlers \ {h} : Held(k)' = Held(k)
  BY <1>2 DEF Held
<1>5. PlaceInv'
  <2>1. \A c \in Conns : c # Held(h) => outcome'[c] = outcome[c]
    BY <1>0, <1>2, <1>3 DEF TypeOK
  <2>2. QED
    BY <1>2, <1>3, <1>4, <2>1, HandlerPlace
<1>6. Service!End(sock[h])
  <2>1. outcome[sock[h]] = "accepted"
    BY <1>1, <1>3 DEF PlaceInv
  <2>2. Holding' = Holding \ {sock[h]} /\ sock[h] \in Holding
    BY <1>3, <1>4, HandlerHolding
  <2>3. UNCHANGED <<arriving, crowded>>
    BY DEF mainVars
  <2>4. QED
    BY <1>2, <2>1, <2>2, <2>3 DEF Service!End
<1>7. QED
  BY <1>1, <1>5, <1>6

\* The end of a thread gives the place of what its handler held back: of a connection
\* that is open, still queued, or was not adopted.
LEMMA ExitMaps ==
    ASSUME IndInv, IndInv', PlaceInv, NEW h \in Handlers, Exit(h)
    PROVE  PlaceInv' /\ [\E c \in Conns : Service!End(c) \/ Service!Forget(c)]_(Service!vars)
<1>0. TypeOK /\ HandlerInv /\ HeldShape
  BY HoldingIs DEF IndInv
<1>1. /\ posted'[h] = <<>> /\ sock'[h] = NoConn /\ unadopted'[h] = NoConn /\ ~busy'[h]
      /\ \A k \in Handlers \ {h} : /\ posted'[k] = posted[k] /\ sock'[k] = sock[k]
                                   /\ unadopted'[k] = unadopted[k] /\ busy'[k] = busy[k]
  <2>1. /\ sock'[h] = NoConn /\ unadopted'[h] = NoConn /\ ~busy'[h]
        /\ \A k \in Handlers \ {h} : /\ sock'[k] = sock[k] /\ unadopted'[k] = unadopted[k]
                                     /\ busy'[k] = busy[k]
    BY <1>0 DEF Exit, TypeOK
  <2>2. posted' = [posted EXCEPT ![h] = <<>>] /\ posted \in [Handlers -> Seq(Conns)]
    BY <1>0, Zenon DEF Exit, TypeOK
  <2>3. posted'[h] = <<>> /\ \A k \in Handlers \ {h} : posted'[k] = posted[k]
    BY <2>2, Zenon
  <2>4. QED
    BY <2>1, <2>3, Zenon
<1>2. Held(h)' = NoConn
  BY <1>1 DEF Held
<1>3. \A k \in Handlers \ {h} : Held(k)' = Held(k)
  BY <1>1 DEF Held
<1>4. HeldBy(h) = {Held(h)} \ {NoConn} /\ Held(h) \in Conns \union {NoConn}
  BY <1>0 DEF HeldShape
<1>5. outcome' = [c \in Conns |-> CASE c = sock[h]            -> "closed"
                                    [] c \in ToSet(posted[h]) -> "leaked"
                                    [] OTHER                  -> outcome[c]]
  BY DEF Exit
<1>6. PlaceInv'
  <2>1. ASSUME NEW c \in Conns, c # Held(h)
        PROVE  outcome'[c] = outcome[c]
    <3>1. c # sock[h] /\ c \notin ToSet(posted[h])
      BY <1>4, <2>1, ConfigAssumption DEF HeldBy
    <3>2. QED
      BY <1>5, <3>1
  <2>2. UNCHANGED mainVars
    BY DEF Exit
  <2>3. QED
    BY <1>1, <1>2, <1>3, <2>1, <2>2, HandlerPlace
<1>7. UNCHANGED <<arriving, crowded>>
  BY DEF Exit, mainVars
<1>8. outcome \in [Conns -> Outcomes]
  BY <1>0 DEF TypeOK
<1>9. CASE Held(h) = NoConn
  <2>1. sock[h] = NoConn /\ ToSet(posted[h]) = {}
    BY <1>4, <1>9 DEF HeldBy
  <2>2. outcome' = outcome
    BY <1>5, <1>8, <2>1, ConfigAssumption
  <2>3. Holding' = Holding
    BY <1>2, <1>3, <1>9, HandlerHolding
  <2>4. QED
    BY <1>6, <1>7, <2>2, <2>3 DEF Service!vars
<1>10. CASE Held(h) # NoConn
  <2>1. Held(h) \in Conns /\ Held(h) \in Holding /\ Holding' = Holding \ {Held(h)}
    BY <1>2, <1>3, <1>10, HandlerHolding
  <2>2. outcome[Held(h)] = IF unadopted[h] = NoConn THEN "accepted" ELSE "failed"
    BY <1>10 DEF PlaceInv
  <2>3. CASE unadopted[h] # NoConn
    <3>1. posted[h] = <<>> /\ sock[h] = NoConn
      BY <1>0, <2>3 DEF HandlerInv
    <3>2. ToSet(posted[h]) = {}
      BY <3>1 DEF ToSet
    <3>3. outcome' = outcome
      BY <1>5, <1>8, <3>1, <3>2, ConfigAssumption
    <3>4. Service!Forget(Held(h))
      BY <1>7, <2>1, <2>2, <2>3, <3>3 DEF Service!Forget
    <3>5. QED
      BY <1>6, <2>1, <3>4
  <2>4. CASE unadopted[h] = NoConn
    <3>1. \E o \in {"closed", "leaked"} : outcome' = [outcome EXCEPT ![Held(h)] = o]
      <4>1. CASE sock[h] # NoConn
        <5>1. Held(h) = sock[h] /\ posted[h] = <<>>
          BY <1>0, <4>1 DEF Held, HandlerInv
        <5>2. ToSet(posted[h]) = {}
          BY <5>1 DEF ToSet
        <5>3. outcome' = [outcome EXCEPT ![Held(h)] = "closed"]
          BY <1>5, <1>8, <5>1, <5>2
        <5>4. QED
          BY <5>3
      <4>2. CASE sock[h] = NoConn
        <5>1. ToSet(posted[h]) = {Held(h)}
          BY <1>4, <1>10, <2>4, <4>2 DEF HeldBy
        <5>2. outcome' = [outcome EXCEPT ![Held(h)] = "leaked"]
          BY <1>5, <1>8, <4>2, <5>1, ConfigAssumption
        <5>3. QED
          BY <5>2
      <4>3. QED
        BY <4>1, <4>2
    <3>2. Service!End(Held(h))
      BY <1>7, <2>1, <2>2, <2>4, <3>1 DEF Service!End
    <3>3. QED
      BY <1>6, <2>1, <3>2
  <2>5. QED
    BY <2>3, <2>4
<1>11. QED
  BY <1>9, <1>10

\* Every step of the listener, its pool and the handlers is a step of the service, or
\* none.
LEMMA StepMaps ==
    ASSUME IndInv, IndInv', PlaceInv, [Next]_vars
    PROVE  PlaceInv' /\ [Service!Next]_(Service!vars)
<1>1. CASE UNCHANGED vars
  BY <1>1, QuietMaps DEF vars, mainVars, handlerVars
<1>2. CASE MainStep
  <2>1. arriving \in Conns /\ Service!Admit(arriving) => Service!Next
    BY DEF Service!Next
  <2>2. arriving \in Conns /\ Service!TurnAway(arriving) => Service!Next
    BY DEF Service!Next
  <2>3. CASE TakeFree
    BY <2>1, <2>3, TakeFreeMaps
  <2>4. ASSUME NEW h \in Handlers, Create(h)
        PROVE  PlaceInv' /\ [Service!Next]_(Service!vars)
    BY <2>1, <2>4, CreateMaps
  <2>5. CASE Reject
    BY <2>2, <2>5, RejectMaps
  <2>6. CASE PassBusy
    BY <2>6, PassBusyMaps
  <2>7. CASE KeepHandler \/ Reap \/ Reaped \/ CleanupDone \/ CloseNext \/ Closed
    <3>1. UNCHANGED <<busy, posted, sock, unadopted, outcome, arriving, crowded>>
      BY <2>7 DEF KeepHandler, Reap, Reaped, CleanupDone, CloseNext, Closed, handlerVars
    <3>2. main' # "get"
      BY <2>7 DEF KeepHandler, Reap, Reaped, CleanupDone, CloseNext, Closed
    <3>3. QED
      BY <3>1, <3>2, QuietMaps
  <2>8. QED
    BY <1>2, <2>3, <2>4, <2>5, <2>6, <2>7 DEF MainStep
<1>3. ASSUME NEW h \in Handlers, HandlerStep(h)
      PROVE  PlaceInv' /\ [Service!Next]_(Service!vars)
  <2>1. (\E c \in Conns : Service!End(c) \/ Service!Forget(c) \/ Service!FailToAdopt(c))
           => Service!Next
    BY DEF Service!Next
  <2>2. CASE HandleConnection(h)
    BY <2>2, HandleConnectionMaps
  <2>3. CASE DescriptorFails(h)
    BY <2>1, <2>3, DescriptorFailsMaps
  <2>4. CASE Exit(h)
    BY <2>1, <2>4, ExitMaps
  <2>5. CASE PeerGone(h)
    BY <2>1, <2>5, DisconnectedMaps DEF PeerGone
  <2>6. CASE Flushed(h) /\ sock[h] # NoConn
    BY <2>1, <2>6, DisconnectedMaps DEF Flushed
  <2>7. CASE \/ Flushed(h) /\ sock[h] = NoConn
             \/ Read(h) \/ KeepAlive(h) \/ CloseAfterResponse(h) \/ ReadTimeout(h)
    <3>1. UNCHANGED <<mainVars, busy, posted, sock, unadopted, outcome>>
      BY <2>7 DEF Flushed, Read, KeepAlive, CloseAfterResponse, ReadTimeout
    <3>2. QED
      BY <3>1, QuietMaps DEF mainVars
  <2>8. QED
    BY <1>3, <2>2, <2>3, <2>4, <2>5, <2>6, <2>7 DEF HandlerStep
<1>4. CASE Environment
  <2>1. ASSUME NEW c \in Conns, Incoming(c)
        PROVE  PlaceInv' /\ [Service!Next]_(Service!vars)
    BY <2>1, IncomingMaps DEF Service!Next
  <2>2. CASE \/ \E c \in Conns : HangUp(c)
             \/ \E c \in Conns, chunk \in Chunks : Send(c, chunk)
    <3>1. UNCHANGED <<mainVars, handlerVars, outcome>>
      BY <2>2 DEF HangUp, Send
    <3>2. QED
      BY <3>1, QuietMaps DEF mainVars, handlerVars
  <2>3. CASE Cleanup \/ Close \/ Listen
    <3>1. UNCHANGED <<handlerVars, outcome, arriving, crowded>> /\ main' # "get"
      BY <2>3 DEF Cleanup, Close, Listen
    <3>2. QED
      BY <3>1, QuietMaps DEF handlerVars
  <2>4. QED
    BY <1>4, <2>1, <2>2, <2>3 DEF Environment
<1>5. QED
  BY <1>1, <1>2, <1>3, <1>4 DEF Next

-----------------------------------------------------------------------------
(* What cleanup() has counted.                                             *)

\* The idle handlers that cleanup() has passed.
Spare == {i \in 1..Len(pool) : i < at /\ ~busy[pool[i]]}

\* They are at least as many as it has counted, although other handlers may have become
\* idle since; at the end the count includes the handler it deletes.
SpareInv ==
    /\ main = "cleanup" => idle <= Cardinality(Spare)
    /\ main = "reap" => MinThreads < idle /\ idle - 1 <= Cardinality(Spare)

SpareCounted == IsFiniteSet(Spare) /\ Cardinality(Spare) \in Nat

LEMMA SpareFinite == IndInv => SpareCounted
<1> SUFFICES ASSUME IndInv
             PROVE  SpareCounted
  OBVIOUS
<1>1. Len(pool) \in Nat
  BY LenProperties DEF IndInv, TypeOK
<1>2. IsFiniteSet(1..Len(pool)) /\ Spare \subseteq 1..Len(pool)
  BY <1>1, CardinalityUpTo DEF Spare
<1>3. QED
  BY <1>2, FS_Subset, FS_CardinalityType DEF SpareCounted

LEMMA SpareFinitePrimed == IndInv' => SpareCounted'
BY SpareFinite, PTL

\* While the main thread walks through the list, an idle handler stays idle.
LEMMA SpareGrows ==
    ASSUME IndInv, IndInv', SpareInv, pool' = pool, at' = at, idle' = idle, main' = main,
           \A h \in Handlers : busy'[h] => busy[h]
    PROVE  SpareInv'
<1>1. \A i \in 1..Len(pool) : pool[i] \in Handlers
  BY ElementOfSeq DEF IndInv, TypeOK
<1>2. Spare \subseteq Spare'
  BY <1>1 DEF Spare
<1>3. IsFiniteSet(Spare') /\ Cardinality(Spare') \in Nat /\ Cardinality(Spare) \in Nat
  BY SpareFinite, SpareFinitePrimed DEF SpareCounted
<1>4. Cardinality(Spare) <= Cardinality(Spare')
  BY <1>2, <1>3, FS_Subset
<1>5. idle \in Nat
  BY DEF IndInv, TypeOK
<1>6. QED
  BY <1>3, <1>4, <1>5 DEF SpareInv

\* cleanup() counts a handler only if it is idle.
LEMMA KeepHandlerSpare ==
    ASSUME IndInv, IndInv', SpareInv, KeepHandler
    PROVE  SpareInv'
<1>1. /\ Len(pool) \in Nat /\ at \in Nat \ {0} /\ idle \in Nat
      /\ at' = at + 1 /\ pool' = pool /\ busy' = busy /\ main' = "cleanup"
      /\ at <= Len(pool) /\ main = "cleanup"
  BY LenProperties DEF IndInv, TypeOK, KeepHandler, handlerVars
<1>2. IsFiniteSet(Spare) /\ Cardinality(Spare) \in Nat /\ idle <= Cardinality(Spare)
  BY <1>1, SpareFinite DEF SpareInv, SpareCounted
<1>3. at \notin Spare
  BY <1>1 DEF Spare
<1>4. CASE busy[pool[at]]
  <2>1. Spare' = Spare /\ idle' = idle
    BY <1>1, <1>4 DEF Spare, KeepHandler
  <2>2. QED
    BY <1>1, <1>2, <2>1 DEF SpareInv
<1>5. CASE ~busy[pool[at]]
  <2>1. Spare' = Spare \union {at} /\ idle' = idle + 1
    BY <1>1, <1>5 DEF Spare, KeepHandler
  <2>2. Cardinality(Spare') = Cardinality(Spare) + 1
    BY <1>2, <1>3, <2>1, FS_AddElement
  <2>3. QED
    BY <1>1, <1>2, <2>1, <2>2 DEF SpareInv
<1>6. QED
  BY <1>4, <1>5

LEMMA SpareStep ==
    ASSUME IndInv, IndInv', SpareInv, [Next]_vars
    PROVE  SpareInv'
<1>0. TypeOK /\ HandlerInv
  BY DEF IndInv
<1>1. CASE UNCHANGED vars
  BY <1>1, SpareGrows DEF vars, mainVars, handlerVars
<1>2. CASE MainStep
  <2>1. CASE KeepHandler
    BY <2>1, KeepHandlerSpare
  <2>2. CASE Reap
    <3>1. Spare' = Spare
      BY <2>2 DEF Reap, Spare, handlerVars
    <3>2. Cardinality(Spare) \in Nat /\ idle \in Nat /\ idle <= Cardinality(Spare)
      BY <1>0, <2>2, SpareFinite DEF TypeOK, SpareInv, SpareCounted, Reap
    <3>3. QED
      BY <2>2, <3>1, <3>2, ConfigAssumption DEF SpareInv, Reap
  <2>3. CASE CloseNext
    BY <2>3 DEF SpareInv, CloseNext
  <2>4. CASE PassBusy
    BY <2>4 DEF SpareInv, PassBusy
  <2>5. CASE \/ TakeFree \/ Reject \/ Reaped \/ CleanupDone \/ Closed
             \/ \E h \in Handlers : Create(h)
    <3>1. main' = "loop"
      BY <2>5 DEF TakeFree, Reject, Reaped, CleanupDone, Closed, Create, Post
    <3>2. QED
      BY <3>1 DEF SpareInv
  <2>6. QED
    BY <1>2, <2>1, <2>2, <2>3, <2>4, <2>5 DEF MainStep
<1>3. ASSUME NEW h \in Handlers, HandlerStep(h)
      PROVE  SpareInv'
  <2>1. UNCHANGED mainVars
    BY <1>3 DEF HandlerStep, HandleConnection, DescriptorFails, Read, KeepAlive,
                CloseAfterResponse, ReadTimeout, Flushed, PeerGone, Exit
  <2>2. ASSUME NEW k \in Handlers, busy'[k]
        PROVE  busy[k]
    <3>1. CASE HandleConnection(h) \/ DescriptorFails(h)
      BY <1>0, <2>2, <3>1 DEF HandleConnection, DescriptorFails, HandlerInv, TypeOK
    <3>2. CASE Read(h) \/ KeepAlive(h) \/ CloseAfterResponse(h) \/ ReadTimeout(h)
      BY <2>2, <3>2 DEF Read, KeepAlive, CloseAfterResponse, ReadTimeout
    <3>3. CASE Flushed(h) \/ PeerGone(h) \/ Exit(h)
      BY <1>0, <2>2, <3>3 DEF Flushed, PeerGone, Exit, Disconnected, TypeOK
    <3>4. QED
      BY <1>3, <3>1, <3>2, <3>3 DEF HandlerStep
  <2>3. QED
    BY <2>1, <2>2, SpareGrows DEF mainVars
<1>4. CASE Environment
  <2>1. CASE Cleanup
    <3>1. Cardinality(Spare') \in Nat
      BY SpareFinitePrimed DEF SpareCounted
    <3>2. QED
      BY <2>1, <3>1 DEF SpareInv, Cleanup
  <2>2. CASE \/ \E c \in Conns : HangUp(c)
             \/ \E c \in Conns, chunk \in Chunks : Send(c, chunk)
    BY <2>2, SpareGrows DEF HangUp, Send, mainVars, handlerVars
  <2>3. CASE Close \/ Listen \/ \E c \in Conns : Incoming(c)
    <3>1. main' \notin {"cleanup", "reap"}
      BY <2>3 DEF Close, Listen, Incoming
    <3>2. QED
      BY <3>1 DEF SpareInv
  <2>4. QED
    BY <1>4, <2>1, <2>2, <2>3 DEF Environment
<1>5. QED
  BY <1>1, <1>2, <1>3, <1>4 DEF Next

-----------------------------------------------------------------------------
(* The theorems.                                                           *)

LEMMA StepInd == IndInv /\ [Next]_vars => IndInv'
<1> SUFFICES ASSUME IndInv, [Next]_vars
             PROVE  IndInv'
  OBVIOUS
<1>1. CASE UNCHANGED vars
  <2>1. TypeOK' /\ MainInv'
    BY <1>1 DEF IndInv, TypeOK, MainInv, vars, mainVars, handlerVars, clientVars
  <2>2. QED
    BY <1>1, <2>1, Undisturbed DEF IndInv, vars, shared, mainVars, handlerVars, clientVars
<1>2. CASE MainStep
  BY <1>2, PassBusyInd, TakeFreeInd, RejectInd, CreateInd, KeepHandlerInd, ReapInd,
     ReapedInd, CleanupDoneInd, CloseNextInd, ClosedInd, Zenon DEF MainStep
<1>3. ASSUME NEW h \in Handlers, HandlerStep(h)
      PROVE  IndInv'
  BY <1>3, HandleConnectionInd, DescriptorFailsInd, ReadInd, KeepAliveInd,
     CloseAfterResponseInd, ReadTimeoutInd, FlushedInd, PeerGoneInd, ExitInd, Zenon
     DEF HandlerStep
<1>4. CASE Environment
  BY <1>4, IncomingInd, HangUpInd, SendInd, CleanupInd, CloseInd, ListenInd, Zenon
     DEF Environment
<1>5. QED
  BY <1>1, <1>2, <1>3, <1>4 DEF Next

\* IndInv, the type invariant included, holds in every reachable state.
THEOREM Invariance == Spec => []IndInv
<1>1. Init => IndInv
  BY InitInd
<1>2. IndInv /\ [Next]_vars => IndInv'
  BY StepInd
<1>3. QED
  BY <1>1, <1>2, PTL DEF Spec

\* A handler serves one connection at a time and is busy while it does, and no
\* connection has two handlers: getConnectionHandler(), handleConnection(),
\* disconnected() and cleanup() keep it so in every interleaving.
THEOREM ExclusiveHandlers == Spec => []OneConnectionPerHandler
<1>1. IndInv => OneConnectionPerHandler
  <2> SUFFICES ASSUME IndInv, NEW h \in Handlers
               PROVE  /\ HeldBy(h) # {} => busy[h]
                      /\ Len(posted[h]) + Cardinality({sock[h], unadopted[h]} \ {NoConn}) <= 1
                      /\ \A k \in Handlers \ {h} : HeldBy(h) \intersect HeldBy(k) = {}
    BY DEF OneConnectionPerHandler
  <2>1. HeldBy(h) \subseteq Conns /\ \A c \in HeldBy(h) : Owns(h, c)
    BY ElementOfSeq DEF IndInv, TypeOK, HeldBy, Owns, ToSet
  <2>2. \A k \in Handlers : \A c \in HeldBy(k) : Owns(k, c)
    BY DEF HeldBy, Owns, ToSet
  <2>3. HeldBy(h) # {} => busy[h]
    <3>1. posted[h] = <<>> => ToSet(posted[h]) = {}
      BY DEF ToSet
    <3>2. QED
      BY <3>1 DEF HeldBy, IndInv, HandlerInv
  <2>4. Len(posted[h]) + Cardinality({sock[h], unadopted[h]} \ {NoConn}) <= 1
    <3> DEFINE adopted == {sock[h], unadopted[h]} \ {NoConn}
    <3>1. CASE posted[h] # <<>>
      <4>1. adopted = {} /\ Len(posted[h]) <= 1 /\ Len(posted[h]) \in Nat
        BY <3>1, LenProperties DEF IndInv, HandlerInv, TypeOK
      <4>2. Cardinality(adopted) = 0
        BY <4>1, FS_EmptySet
      <4>3. QED
        BY <4>1, <4>2
    <3>2. CASE posted[h] = <<>>
      <4>1. Len(posted[h]) = 0
        BY <3>2, EmptySeq, Zenon
      <4>2. adopted = {} \/ \E c : adopted = {c}
        BY DEF IndInv, HandlerInv
      <4>3. Cardinality(adopted) = 0 \/ Cardinality(adopted) = 1
        BY <4>2, FS_EmptySet, FS_Singleton
      <4>4. QED
        BY <4>1, <4>3
    <3>3. QED
      BY <3>1, <3>2
  <2>5. \A k \in Handlers \ {h} : HeldBy(h) \intersect HeldBy(k) = {}
    BY <2>1, <2>2 DEF IndInv, OwnerInv
  <2>6. QED
    BY <2>3, <2>4, <2>5
<1>2. QED
  BY <1>1, Invariance, PTL

\* The pool is never larger than maxThreads, and no thread outlives it.
THEOREM BoundedPool == Spec => []PoolBounded
<1>1. IndInv => PoolBounded
  <2> SUFFICES ASSUME IndInv
               PROVE  PoolBounded
    OBVIOUS
  <2>1. DOMAIN pool = 1..Len(pool)
    BY LenProperties DEF IndInv, TypeOK
  <2>2. IsInjective(pool)
    BY <2>1 DEF IndInv, PoolInv, IsInjective
  <2>3. {h \in Handlers : pc[h] # "none"} \subseteq ToSet(pool)
    BY <2>1 DEF IndInv, PoolInv, ToSet
  <2>4. QED
    BY <2>2, <2>3 DEF PoolBounded, IndInv, PoolInv
<1>2. QED
  BY <1>1, Invariance, PTL

\* Bytes of two connections never meet in one request, although a request can
\* outlive the connection it came from.
THEOREM RequestsUnmixed == Spec => []RequestOfConnection
<1>1. Init => RequestOfConnection
  BY DEF Init, RequestOfConnection
<1>2. IndInv /\ RequestOfConnection /\ [Next]_vars => RequestOfConnection'
  <2> SUFFICES ASSUME IndInv, RequestOfConnection, [Next]_vars, NEW k \in Handlers,
                      sock'[k] # NoConn, request'[k] # NoConn
               PROVE  request'[k] = sock'[k]
    BY DEF RequestOfConnection
  <2>1. \/ sock'[k] = sock[k] /\ request'[k] = request[k]
        \/ sock'[k] = sock[k] /\ request'[k] = CurrentRequest(k)
    <3> USE DEF IndInv, TypeOK
    <3>1. CASE UNCHANGED vars
      BY <3>1 DEF vars, handlerVars
    <3>2. CASE MainStep
      BY <3>2 DEF MainStep, PassBusy, TakeFree, Reject, Create, Post, KeepHandler,
                  Reap, Reaped, CleanupDone, CloseNext, Closed, handlerVars
    <3>3. ASSUME NEW h \in Handlers, HandlerStep(h)
          PROVE  \/ sock'[k] = sock[k] /\ request'[k] = request[k]
                 \/ sock'[k] = sock[k] /\ request'[k] = CurrentRequest(k)
      <4>1. CASE HandleConnection(h)
        BY <4>1 DEF HandleConnection
      <4>2. CASE DescriptorFails(h) \/ KeepAlive(h) \/ CloseAfterResponse(h) \/ ReadTimeout(h)
        BY <4>2 DEF DescriptorFails, KeepAlive, CloseAfterResponse, ReadTimeout
      <4>3. CASE Read(h)
        BY <4>3 DEF Read
      <4>4. CASE Flushed(h) \/ PeerGone(h) \/ Exit(h)
        BY <4>4 DEF Flushed, PeerGone, Exit, Disconnected
      <4>5. QED
        BY <3>3, <4>1, <4>2, <4>3, <4>4 DEF HandlerStep
    <3>4. CASE Environment
      BY <3>4 DEF Environment, Incoming, HangUp, Send, Cleanup, Close, Listen, handlerVars
    <3>5. QED
      BY <3>1, <3>2, <3>3, <3>4 DEF Next
  <2>2. QED
    BY <2>1 DEF RequestOfConnection, CurrentRequest
<1>3. QED
  BY <1>1, <1>2, Invariance, PTL DEF Spec

\* No silent client can keep a handler: whenever a handler waits for data of an
\* open connection, its read timer is active.
THEOREM OpenConnectionsTimed == Spec => []OpenIsTimed
<1>1. Init => OpenIsTimed
  BY DEF Init, OpenIsTimed
<1>2. IndInv /\ OpenIsTimed /\ [Next]_vars => OpenIsTimed'
  <2> SUFFICES ASSUME IndInv, OpenIsTimed, [Next]_vars, NEW k \in Handlers,
                      pc'[k] = "loop", sock'[k] # NoConn
               PROVE  timer'[k]
    BY DEF OpenIsTimed
  <2>1. timer'[k] \/ (pc[k] = "loop" /\ sock[k] # NoConn /\ timer'[k] = timer[k])
    <3> USE DEF IndInv, TypeOK
    <3>1. CASE UNCHANGED vars
      BY <3>1 DEF vars, handlerVars
    <3>2. CASE MainStep
      <4>1. ASSUME NEW h \in Handlers, Create(h)
            PROVE  timer'[k] \/ (pc[k] = "loop" /\ sock[k] # NoConn /\ timer'[k] = timer[k])
        <5>1. h # k
          <6>1. \A i \in 1..Len(pool) : pool[i] # h
            BY <4>1, LenProperties DEF Create, ToSet
          <6>2. sock[h] = NoConn
            BY <6>1 DEF PoolInv, HandlerInv
          <6>3. QED
            BY <4>1, <6>2 DEF Create, Post
        <5>2. QED
          BY <4>1, <5>1 DEF Create, Post
      <4>2. CASE PassBusy \/ TakeFree \/ Reject \/ KeepHandler \/ Reap \/ Reaped
                 \/ CleanupDone \/ CloseNext \/ Closed
        BY <4>2 DEF PassBusy, TakeFree, Reject, Post, KeepHandler, Reap, Reaped,
                    CleanupDone, CloseNext, Closed, handlerVars
      <4>3. QED
        BY <3>2, <4>1, <4>2 DEF MainStep
    <3>3. ASSUME NEW h \in Handlers, HandlerStep(h)
          PROVE  timer'[k] \/ (pc[k] = "loop" /\ sock[k] # NoConn /\ timer'[k] = timer[k])
      <4>1. CASE HandleConnection(h)
        BY <4>1 DEF HandleConnection
      <4>2. CASE DescriptorFails(h) \/ KeepAlive(h) \/ CloseAfterResponse(h) \/ ReadTimeout(h)
        BY <4>2 DEF DescriptorFails, KeepAlive, CloseAfterResponse, ReadTimeout
      <4>3. CASE Read(h)
        <5>1. CASE k = h
          <6>1. pc[h] = "loop" /\ sock[h] # NoConn /\ timer[h]
            BY <4>3 DEF Read, OpenIsTimed
          <6>2. Head(wire[sock[h]]) # "full"
            <7>1. Head(wire[sock[h]]) = "full" => pc'[h] = "service"
              BY <4>3 DEF Read
            <7>2. QED
              BY <5>1, <7>1
          <6>3. QED
            BY <4>3, <5>1, <6>1, <6>2 DEF Read
        <5>2. CASE k # h
          BY <4>3, <5>2 DEF Read
        <5>3. QED
          BY <5>1, <5>2
      <4>4. CASE Flushed(h) \/ PeerGone(h) \/ Exit(h)
        BY <4>4 DEF Flushed, PeerGone, Exit, Disconnected
      <4>5. QED
        BY <3>3, <4>1, <4>2, <4>3, <4>4 DEF HandlerStep
    <3>4. CASE Environment
      BY <3>4 DEF Environment, Incoming, HangUp, Send, Cleanup, Close, Listen, handlerVars
    <3>5. QED
      BY <3>1, <3>2, <3>3, <3>4 DEF Next
  <2>2. QED
    BY <2>1 DEF OpenIsTimed
<1>3. QED
  BY <1>1, <1>2, Invariance, PTL DEF Spec

\* The listener, its pool and the handler threads implement the service: whatever the
\* interleaving, at most maxThreads connections are held, and one is turned away only
\* if all of these places were taken when it arrived.
THEOREM ServiceImplemented == Spec => ImplementsService
<1>1. Init => PlaceInv /\ Service!Init
  BY InitPlace
<1>2. IndInv /\ IndInv' /\ PlaceInv /\ [Next]_vars => PlaceInv' /\ [Service!Next]_(Service!vars)
  BY StepMaps
<1>3. QED
  BY <1>1, <1>2, Invariance, PTL DEF Spec, ImplementsService, Service!Spec

\* The handler cleanup() deletes holds no connection, and minThreads others are idle at
\* that moment, although its count was taken while the handlers went on working.
THEOREM OnlySpareReaped == Spec => []ReapsOnlySpare
<1>1. Init => SpareInv
  BY DEF Init, SpareInv
<1>2. IndInv /\ IndInv' /\ SpareInv /\ [Next]_vars => SpareInv'
  BY SpareStep
<1>3. IndInv /\ SpareInv => ReapsOnlySpare
  <2> SUFFICES ASSUME IndInv, SpareInv, main = "reap"
               PROVE  /\ HeldBy(pool[at]) = {}
                      /\ Cardinality({h \in ToSet(pool) \ {pool[at]} : ~busy[h]}) >= MinThreads
    BY DEF ReapsOnlySpare
  <2> DEFINE others == {h \in ToSet(pool) \ {pool[at]} : ~busy[h]}
             f == [i \in Spare |-> pool[i]]
  <2>0. HeldShape /\ TypeOK /\ PoolInv /\ MainInv
    BY HoldingIs DEF IndInv
  <2>1. /\ Len(pool) \in Nat /\ DOMAIN pool = 1..Len(pool)
        /\ \A i \in 1..Len(pool) : pool[i] \in Handlers
    BY <2>0, ElementOfSeq, LenProperties DEF TypeOK
  <2>2. at \in 1..Len(pool) /\ ~busy[pool[at]]
    BY <2>0 DEF MainInv
  <2>3. HeldBy(pool[at]) = {}
    BY <2>0, <2>1, <2>2 DEF HeldShape
  <2>4. IsFiniteSet(others)
    <3>1. others \subseteq Handlers
      BY <2>1 DEF ToSet
    <3>2. QED
      BY <3>1, HandlersAssumption, FS_Subset
  <2>5. \A i \in Spare : pool[i] \in others
    BY <2>0, <2>1, <2>2 DEF Spare, ToSet, PoolInv
  <2>6. f \in Injection(Spare, others)
    <3>1. \A i, j \in Spare : pool[i] = pool[j] => i = j
      BY <2>0 DEF Spare, PoolInv
    <3>2. QED
      BY <2>5, <3>1 DEF Injection, IsInjective
  <2> HIDE DEF f, others
  <2>7. Cardinality(Spare) <= Cardinality(others) /\ Cardinality(others) \in Nat
    BY <2>4, <2>6, FS_Injection, FS_CardinalityType
  <2>8. Cardinality(others) >= MinThreads
    BY <2>0, <2>7, SpareFinite, ConfigAssumption DEF SpareInv, SpareCounted, TypeOK
  <2>9. QED
    BY <2>3, <2>8 DEF others
<1>4. QED
  BY <1>1, <1>2, <1>3, Invariance, PTL DEF Spec

\* A handler is marked busy only while a connection is queued for it, open on its
\* socket, or was lost on it: disconnected(), the failures of handleConnection() and
\* the end of its thread leave it no other way.
THEOREM BusyOnlyInUse == Spec => []BusyMeansInUse
<1>1. Init => PlaceInv
  BY InitPlace
<1>2. IndInv /\ IndInv' /\ PlaceInv /\ [Next]_vars => PlaceInv'
  BY StepMaps
<1>3. PlaceInv => BusyMeansInUse
  BY DEF PlaceInv, Held, BusyMeansInUse
<1>4. QED
  BY <1>1, <1>2, <1>3, Invariance, PTL DEF Spec

=============================================================================
