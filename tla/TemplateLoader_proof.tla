------------------------ MODULE TemplateLoader_proof ------------------------
(***************************************************************************)
(* TLAPS proofs about TemplateCache and TemplateLoader, on top of it.      *)
(* Every step of a call is one of the cache, so the invariant of the cache *)
(* is proved for the cache's own actions first; the loader only decides    *)
(* which name is asked for next.                                           *)
(***************************************************************************)
EXTENDS TemplateLoader, SequenceTheorems, TLAPS

USE TemplateCacheAssumption, TemplateLoaderAssumption

\* insert() leaves the new entry or an old one under every key it keeps.
LEMMA InsertionsKeep ==
  ASSUME NEW old, NEW key, NEW e, NEW maxCost,
         NEW new \in Insertions(old, key, e, maxCost)
  PROVE  /\ DOMAIN new \subseteq DOMAIN old \union {key}
         /\ new = [k \in DOMAIN new |-> new[k]]
         /\ \A k \in DOMAIN new : new[k] = e \/ (k # key /\ k \in DOMAIN old /\ new[k] = old[k])
  <1>1. With(old, key, e) =
           [k \in DOMAIN old \union {key} |-> IF k = key THEN e ELSE old[k]]
    BY DEF With
  <1>2. CASE new = Keep(old, DOMAIN old \ {key})
    BY <1>2 DEF Keep
  <1>3. CASE new = With(old, key, e)
    BY <1>1, <1>3
  <1>4. CASE \E keys \in SUBSET (DOMAIN old \ {key}) :
                new = Keep(With(old, key, e), keys \union {key})
    BY <1>1, <1>4 DEF Keep
  <1>5. new \in {Keep(With(old, key, e), keys \union {key}) :
                    keys \in SUBSET (DOMAIN old \ {key})} =>
        \E keys \in SUBSET (DOMAIN old \ {key}) :
            new = Keep(With(old, key, e), keys \union {key})
    OBVIOUS
  <1> QED  BY <1>2, <1>3, <1>4, <1>5 DEF Insertions

-----------------------------------------------------------------------------
(***************************************************************************)
(* The cache: IndInv is preserved by each of its actions.                  *)
(***************************************************************************)
LEMMA InitInv == Init => IndInv
  <1> SUFFICES ASSUME Init PROVE IndInv  OBVIOUS
  <1>1. cache \in [{} -> Entries]
    BY DEF Init, NoEntries
  <1>2. (CHOOSE n \in Names : TRUE) \in Names
    OBVIOUS
  <1>3. TypeOK
    BY <1>1, <1>2 DEF Init, TypeOK, NoTime
  <1> QED  BY <1>1, <1>3 DEF Init, IndInv, BoundedStaleness, NoTime

LEMMA CallInv ==
  ASSUME IndInv, NEW r \in Requests, NEW n \in Names, Call(r, n)
  PROVE  IndInv'
  <1> USE DEF IndInv, TypeOK, BoundedStaleness, NoTime, Garbage
  <1> QED  BY DEF Call

\* What a call copies from a valid entry is new enough.
LEMMA HitInv ==
  ASSUME IndInv, NEW r \in Requests, Hit(r)
  PROVE  IndInv'
  <1> USE DEF IndInv, TypeOK, BoundedStaleness, NoTime, Garbage, Entries
  <1> DEFINE e == cache[name[r]]
  <1>1. e \in Entries /\ e.created <= e.document
    BY DEF Hit
  <1>2. e.document \in Nat /\ e.created \in Nat /\ e.object \in Objects
    BY <1>1
  <1>3. CacheTime > 0 => e.document > start[r] - CacheTime
    BY <1>1, <1>2 DEF Hit, Valid
  <1> HIDE DEF e
  <1>4. /\ entry' \in [Requests -> Objects \union {NoObject}]
        /\ document' \in [Requests -> Nat \union {NoTime, Garbage}]
        /\ empty' \in [Requests -> BOOLEAN]
        /\ pc' \in [Requests -> {"idle", "lock", "copy", "returned"}]
    BY <1>2 DEF Hit, e
  <1>5. \A q \in Requests : document'[q] = IF q = r THEN e.document ELSE document[q]
    BY DEF Hit, e
  <1>6. \A q \in Requests : pc'[q] = IF q = r THEN "copy" ELSE pc[q]
    BY DEF Hit
  <1> QED  BY <1>2, <1>3, <1>4, <1>5, <1>6 DEF Hit

\* What a call loads itself is not older than the call, and not newer than the clock.
LEMMA LoadInv ==
  ASSUME IndInv, NEW r \in Requests, NEW o \in Objects, Load(r, o)
  PROVE  /\ IndInv'
         /\ \A n \in DOMAIN cache : n \in DOMAIN cache' => cache'[n].document >= cache[n].document
  <1> USE DEF NoTime, Garbage, Entries
  <1>0. PICK keys \in SUBSET Names : cache \in [keys -> Entries]
    BY DEF IndInv, TypeOK
  <1>a. /\ time \in Nat
        /\ pc \in [Requests -> {"idle", "lock", "copy", "returned"}]
        /\ name \in [Requests -> Names]
        /\ start \in [Requests -> Nat]
        /\ entry \in [Requests -> Objects \union {NoObject}]
        /\ document \in [Requests -> Nat \union {NoTime, Garbage}]
        /\ empty \in [Requests -> BOOLEAN]
    BY DEF IndInv, TypeOK
  <1>b. /\ \A n \in DOMAIN cache :
              cache[n].created <= cache[n].document /\ cache[n].document <= time
        /\ \A q \in Requests :
              /\ start[q] <= time
              /\ pc[q] = "lock" => document[q] = NoTime
    BY DEF IndInv
  <1>1. PICK s \in Sizes :
          /\ cache' \in Insertions(cache, name[r],
                [object |-> o, document |-> time, created |-> start[r], cost |-> s], MaxCost)
          /\ empty' = [empty EXCEPT ![r] = s = 0]
    BY DEF Load
  <1> DEFINE e == [object |-> o, document |-> time, created |-> start[r], cost |-> s]
  <1>2. e \in Entries /\ e.created <= e.document /\ e.document = time
    BY <1>a, <1>b
  <1>3. /\ DOMAIN cache' \subseteq DOMAIN cache \union {name[r]}
        /\ cache' = [k \in DOMAIN cache' |-> cache'[k]]
        /\ \A k \in DOMAIN cache' :
              cache'[k] = e \/ (k # name[r] /\ k \in DOMAIN cache /\ cache'[k] = cache[k])
    <2> HIDE DEF e
    <2> QED  BY <1>1, InsertionsKeep DEF e
  <1>4. DOMAIN cache' \in SUBSET Names
    BY <1>0, <1>a, <1>3
  <1> HIDE DEF e
  <1>5. cache' \in [DOMAIN cache' -> Entries]
    BY <1>0, <1>2, <1>3
  <1>6. time' = time /\ time \in Nat /\ \A k \in DOMAIN cache : cache[k].document \in Nat
    BY <1>0, <1>a DEF Load
  <1>7. \A k \in DOMAIN cache' :
           /\ cache'[k].created <= cache'[k].document
           /\ cache'[k].document <= time'
    BY <1>0, <1>2, <1>3, <1>6, <1>b
  <1>8. \A n \in DOMAIN cache : n \in DOMAIN cache' => cache'[n].document >= cache[n].document
    BY <1>0, <1>2, <1>3, <1>6, <1>b
  <1>9. /\ pc' \in [Requests -> {"idle", "lock", "copy", "returned"}]
        /\ name' \in [Requests -> Names]
        /\ start' \in [Requests -> Nat]
        /\ entry' \in [Requests -> Objects \union {NoObject}]
        /\ document' \in [Requests -> Nat \union {NoTime, Garbage}]
        /\ empty' \in [Requests -> BOOLEAN]
    BY <1>1, <1>a DEF Load
  <1>10. \A q \in Requests :
           /\ start'[q] = start[q]
           /\ pc'[q] = IF q = r THEN "copy" ELSE pc[q]
           /\ document'[q] = IF q = r THEN time ELSE document[q]
    BY <1>a DEF Load
  <1>11. BoundedStaleness'
    BY <1>a, <1>6, <1>10, <1>b DEF BoundedStaleness, IndInv
  <1>12. TypeOK'
    BY <1>4, <1>5, <1>6, <1>9 DEF TypeOK
  <1> QED  BY <1>6, <1>7, <1>8, <1>10, <1>11, <1>12, <1>b DEF IndInv

LEMMA CopyInv ==
  ASSUME IndInv, NEW r \in Requests, Copy(r)
  PROVE  IndInv'
  <1>1. /\ pc' \in [Requests -> {"idle", "lock", "copy", "returned"}]
        /\ entry' \in [Requests -> Objects \union {NoObject}]
        /\ document' \in [Requests -> Nat \union {NoTime, Garbage}]
        /\ empty' \in [Requests -> BOOLEAN]
    BY DEF Copy, IndInv, TypeOK
  <1>2. \A q \in Requests :
           /\ document'[q] = document[q] \/ (q = r /\ document'[q] = Garbage)
           /\ pc'[q] = IF q = r THEN "returned" ELSE pc[q]
    BY DEF Copy, IndInv, TypeOK
  <1>3. BoundedStaleness'
    BY <1>2 DEF Copy, BoundedStaleness, IndInv
  <1>4. TypeOK'
    BY <1>1 DEF Copy, TypeOK, IndInv
  <1>5. \A q \in Requests : pc'[q] = "lock" => document'[q] = NoTime
    BY <1>2 DEF IndInv, Copy
  <1> QED  BY <1>3, <1>4, <1>5 DEF Copy, IndInv

LEMMA TickInv == ASSUME IndInv, Tick PROVE IndInv'
  BY DEF IndInv, TypeOK, BoundedStaleness, Entries, Tick, callVars

LEMMA StutterInv == ASSUME IndInv, UNCHANGED vars PROVE IndInv'
  BY DEF IndInv, TypeOK, BoundedStaleness, vars, callVars

-----------------------------------------------------------------------------
(***************************************************************************)
(* The loader: which names are tried, and in which order.                  *)
(***************************************************************************)

\* The locales come first, then their languages, then the default.
LEMMA AttemptsOf ==
  ASSUME NEW locs \in Seq(Locales)
  PROVE  /\ Attempts(locs) \in Seq(Names)
         /\ Len(locs) \in Nat /\ Len(Attempts(locs)) = 2 * Len(locs) + 1
         /\ DOMAIN locs = 1 .. Len(locs)
         /\ \A i \in DOMAIN locs :
               /\ Attempts(locs)[i] = locs[i]
               /\ locs[i] \in Names \ {Default}
               /\ Attempts(locs)[Len(locs) + i] = Language[locs[i]]
               /\ Language[locs[i]] \in Names \ {Default}
         /\ Attempts(locs)[2 * Len(locs) + 1] = Default
  <1> DEFINE langs == Languages(locs)
             n == Len(locs)
  <1>1. n \in Nat /\ DOMAIN locs = 1 .. n /\ \A i \in 1 .. n : locs[i] \in Locales
    OBVIOUS
  <1>2. \A i \in 1 .. n : Language[locs[i]] \in Names \ {Default} /\ locs[i] \in Names \ {Default}
    BY <1>1
  <1>3. langs \in Seq(Names) /\ Len(langs) = n /\ \A i \in 1 .. n : langs[i] = Language[locs[i]]
    <2>1. langs = [i \in 1 .. n |-> Language[locs[i]]]
      BY <1>1 DEF Languages
    <2>2. langs \in [1 .. n -> Names]
      BY <1>2, <2>1
    <2> QED  BY <1>1, <2>1, <2>2
  <1>4. locs \in Seq(Names) /\ <<Default>> \in Seq(Names)
    OBVIOUS
  <1> HIDE DEF langs, n
  <1>5. /\ locs \o langs \in Seq(Names)
        /\ Len(locs \o langs) = n + n
        /\ \A i \in 1 .. n + n : (locs \o langs)[i] = IF i <= n THEN locs[i] ELSE langs[i - n]
    <2>1. /\ locs \o langs \in Seq(Names)
          /\ Len(locs \o langs) = Len(locs) + Len(langs)
          /\ \A i \in 1 .. Len(locs) + Len(langs) :
                (locs \o langs)[i] = IF i <= Len(locs) THEN locs[i] ELSE langs[i - Len(locs)]
      BY <1>3, <1>4, ConcatProperties
    <2> QED  BY <1>3, <2>1 DEF n
  <1>6. /\ Attempts(locs) \in Seq(Names)
        /\ Len(Attempts(locs)) = n + n + 1
        /\ \A i \in 1 .. n + n + 1 :
              Attempts(locs)[i] = IF i <= n + n THEN (locs \o langs)[i] ELSE <<Default>>[i - (n + n)]
    <2>1. Attempts(locs) = (locs \o langs) \o <<Default>>
      BY DEF Attempts, langs
    <2> DEFINE both == locs \o langs
    <2>2. both \in Seq(Names) /\ Len(both) = n + n /\ Len(<<Default>>) = 1
      BY <1>5
    <2> HIDE DEF both
    <2>3. /\ both \o <<Default>> \in Seq(Names)
          /\ Len(both \o <<Default>>) = n + n + 1
          /\ \A i \in 1 .. n + n + 1 :
                (both \o <<Default>>)[i] = IF i <= n + n THEN both[i] ELSE <<Default>>[i - (n + n)]
      BY <1>4, <2>2, ConcatProperties
    <2> QED  BY <2>1, <2>3 DEF both
  <1>7. \A i \in 1 .. n : /\ Attempts(locs)[i] = locs[i]
                          /\ Attempts(locs)[n + i] = Language[locs[i]]
    <2> TAKE i \in 1 .. n
    <2>1. /\ i \in 1 .. n + n + 1 /\ i \in 1 .. n + n /\ i <= n /\ i <= n + n
          /\ n + i \in 1 .. n + n + 1 /\ n + i \in 1 .. n + n /\ ~ (n + i <= n) /\ n + i <= n + n
          /\ (n + i) - n = i
      BY <1>1
    <2>2. Attempts(locs)[i] = (locs \o langs)[i] /\ Attempts(locs)[n + i] = (locs \o langs)[n + i]
      BY <1>6, <2>1
    <2>3. (locs \o langs)[i] = locs[i] /\ (locs \o langs)[n + i] = langs[i]
      BY <1>5, <2>1
    <2> QED  BY <1>3, <2>2, <2>3
  <1>8. Attempts(locs)[n + n + 1] = Default
    BY <1>1, <1>6
  <1> QED  BY <1>1, <1>2, <1>6, <1>7, <1>8 DEF n

\* Whatever is preferred to the name at one place of the search is at a place before it.
LEMMA PreferredBefore ==
  ASSUME NEW locs \in Seq(Locales), NEW p \in 1 .. Len(Attempts(locs)),
         NEW m \in Preferred(locs, Attempts(locs)[p])
  PROVE  \E q \in 1 .. p - 1 : Attempts(locs)[q] = m
  <1> DEFINE A == Attempts(locs)
             n == Len(locs)
             x == A[p]
  <1>1. /\ n \in Nat /\ DOMAIN locs = 1 .. n /\ p \in 1 .. 2 * n + 1
        /\ \A i \in 1 .. n : /\ A[i] = locs[i] /\ A[n + i] = Language[locs[i]]
                              /\ locs[i] # Default /\ Language[locs[i]] # Default
        /\ A[2 * n + 1] = Default
    BY AttemptsOf
  <1> HIDE DEF A, n
  <1>2. CASE x \in ToSet(locs)
    <2>1. PICK j \in 1 .. n : m = locs[j] /\ \A k \in 1 .. j : locs[k] # x
      BY <1>1, <1>2 DEF Preferred, A
    <2>2. j < p
      BY <1>1, <2>1
    <2> QED  BY <1>1, <2>1, <2>2 DEF A
  <1>3. CASE x \notin ToSet(locs)
    <2>1. p > n
      BY <1>1, <1>3 DEF ToSet
    <2>2. CASE m \in ToSet(locs)
      <3>1. PICK j \in 1 .. n : m = locs[j]
        BY <1>1, <2>2 DEF ToSet
      <3> QED  BY <1>1, <2>1, <3>1 DEF A
    <2>3. CASE m \notin ToSet(locs)
      <3>1. /\ m \in ToSet(Languages(locs))
            /\ x = Default \/ \E i \in DOMAIN locs :
                                 /\ Language[locs[i]] = m
                                 /\ \A k \in 1 .. i : Language[locs[k]] # x
        BY <1>3, <2>3 DEF Preferred, A
      <3>2. CASE x = Default
        <4>1. p = 2 * n + 1
          <5>1. CASE p \in 1 .. n
            BY <1>1, <3>2, <5>1
          <5>2. CASE p \in n + 1 .. 2 * n
            <6>1. p - n \in 1 .. n /\ p = n + (p - n)
              BY <1>1, <5>2
            <6>2. A[p] # Default
              BY <1>1, <6>1
            <6> QED  BY <3>2, <6>2
          <5> QED  BY <1>1, <5>1, <5>2
        <4>2. PICK i \in 1 .. n : m = Language[locs[i]]
          BY <1>1, <3>1 DEF ToSet, Languages
        <4>3. n + i \in 1 .. p - 1 /\ A[n + i] = m
          BY <1>1, <4>1, <4>2
        <4> QED  BY <4>3 DEF A
      <3>3. CASE x # Default
        <4>1. PICK i \in 1 .. n :
                /\ Language[locs[i]] = m
                /\ \A k \in 1 .. i : Language[locs[k]] # x
          BY <1>1, <3>1, <3>3
        <4>2. p - n \in 1 .. n /\ p = n + (p - n)
          <5>1. p # 2 * n + 1
            BY <1>1, <3>3
          <5> QED  BY <1>1, <2>1, <5>1
        <4>3. x = Language[locs[p - n]]
          BY <1>1, <4>2
        <4>4. i < p - n
          BY <1>1, <4>1, <4>2, <4>3
        <4>5. n + i \in 1 .. p - 1 /\ A[n + i] = m
          BY <1>1, <4>1, <4>2, <4>4
        <4> QED  BY <4>5 DEF A
      <3> QED  BY <3>2, <3>3
    <2> QED  BY <2>2, <2>3
  <1> QED  BY <1>2, <1>3

LEMMA LocalesType == \A locs \in Accepted \union {<<>>} : locs \in Seq(Locales)
  BY EmptySeq

LEMMA InitSearch == LoaderInit => LoaderInv /\ SearchInv
  <1> SUFFICES ASSUME LoaderInit PROVE LoaderInv /\ SearchInv  OBVIOUS
  <1> USE DEF LoaderInit
  <1>1. IndInv /\ TypeOK
    BY InitInv DEF IndInv
  <1>2. \A r \in Requests :
          missing[r] \in [{} -> Nat \union {Garbage}] /\ DOMAIN missing[r] = {}
    BY DEF NoEntries
  <1>3. LoaderTypeOK
    BY <1>1, <1>2 DEF LoaderTypeOK
  <1>4. SearchInv
    BY <1>2 DEF SearchInv, Init
  <1> QED  BY <1>1, <1>3, <1>4 DEF LoaderInv

\* A call asks for the name at one place of its attempts.
LEMMA CallSearch ==
  ASSUME LoaderInv, SearchInv, LoaderTypeOK', NEW r \in Requests,
         NEW n \in Names, Call(r, n),
         \A q \in Requests \ {r} :
            /\ locales'[q] = locales[q] /\ place'[q] = place[q]
            /\ began'[q] = began[q] /\ missing'[q] = missing[q],
         began'[r] <= time,
         place'[r] \in 1 .. Len(Attempts(locales'[r])),
         n = Attempts(locales'[r])[place'[r]],
         \A q \in 1 .. place'[r] - 1 : Attempts(locales'[r])[q] \in DOMAIN missing'[r],
         \A m \in DOMAIN missing'[r] :
            CacheTime > 0 /\ missing'[r][m] # Garbage => missing'[r][m] > began'[r] - CacheTime
  PROVE  SearchInv'
  <1>1. /\ \A q \in Requests :
              /\ pc'[q] = IF q = r THEN "lock" ELSE pc[q]
              /\ name'[q] = IF q = r THEN n ELSE name[q]
              /\ start'[q] = IF q = r THEN time ELSE start[q]
              /\ document'[q] = IF q = r THEN NoTime ELSE document[q]
    BY DEF Call, LoaderInv, IndInv, TypeOK
  <1> SUFFICES ASSUME NEW q \in Requests
               PROVE  /\ began'[q] <= start'[q]
                      /\ pc'[q] \in {"copy", "returned"} => document'[q] # NoTime
                      /\ pc'[q] # "idle" =>
                            /\ place'[q] \in 1 .. Len(Attempts(locales'[q]))
                            /\ name'[q] = Attempts(locales'[q])[place'[q]]
                            /\ \A p \in 1 .. place'[q] - 1 :
                                  Attempts(locales'[q])[p] \in DOMAIN missing'[q]
                      /\ \A m \in DOMAIN missing'[q] :
                            CacheTime > 0 /\ missing'[q][m] # Garbage =>
                                missing'[q][m] > began'[q] - CacheTime
    BY DEF SearchInv
  <1>2. CASE q = r
    BY <1>1, <1>2
  <1>3. CASE q # r
    BY <1>1, <1>3 DEF SearchInv
  <1> QED  BY <1>2, <1>3

LEMMA GetTemplateStep ==
  ASSUME LoaderInv, SearchInv, NEW r \in Requests, NEW locs \in Accepted, GetTemplate(r, locs)
  PROVE  LoaderInv' /\ SearchInv'
  <1> DEFINE n == Attempts(locs)[1]
  <1>1. locs \in Seq(Locales) /\ 1 \in 1 .. Len(Attempts(locs)) /\ n \in Names
    <2>1. Attempts(locs) \in Seq(Names) /\ 1 \in 1 .. Len(Attempts(locs))
      BY AttemptsOf
    <2> QED  BY <2>1, ElementOfSeq
  <1>2. Call(r, n)
    BY DEF GetTemplate
  <1>3. IndInv'
    BY <1>1, <1>2, CallInv DEF LoaderInv
  <1>4. /\ locales' \in [Requests -> Accepted \union {<<>>}] /\ locales'[r] = locs
        /\ place' \in [Requests -> Nat] /\ place'[r] = 1
        /\ began' \in [Requests -> Nat] /\ began'[r] = time
        /\ DOMAIN missing' = Requests /\ missing'[r] = NoEntries
        /\ \A q \in Requests \ {r} :
              /\ locales'[q] = locales[q] /\ place'[q] = place[q]
              /\ began'[q] = began[q] /\ missing'[q] = missing[q]
    BY DEF GetTemplate, LoaderInv, LoaderTypeOK, TypeOK
  <1>5. missing'[r] \in [{} -> Nat \union {Garbage}] /\ DOMAIN missing'[r] = {}
    BY <1>4 DEF NoEntries
  <1>6. \A q \in Requests :
          \E tried \in SUBSET Names : missing'[q] \in [tried -> Nat \union {Garbage}]
    BY <1>4, <1>5 DEF LoaderInv, LoaderTypeOK
  <1>7. LoaderTypeOK'
    BY <1>3, <1>4, <1>6 DEF LoaderTypeOK, IndInv
  <1>8. time \in Nat
    BY DEF LoaderInv, IndInv, TypeOK
  <1>9. /\ began'[r] <= time
        /\ place'[r] \in 1 .. Len(Attempts(locales'[r]))
        /\ n = Attempts(locales'[r])[place'[r]]
        /\ \A q \in 1 .. place'[r] - 1 : Attempts(locales'[r])[q] \in DOMAIN missing'[r]
        /\ \A m \in DOMAIN missing'[r] :
              CacheTime > 0 /\ missing'[r][m] # Garbage => missing'[r][m] > began'[r] - CacheTime
    BY <1>1, <1>4, <1>5, <1>8
  <1> HIDE DEF n
  <1>10. SearchInv'
    BY <1>1, <1>2, <1>4, <1>7, <1>9, CallSearch
  <1> QED  BY <1>3, <1>7, <1>10 DEF LoaderInv

\* What was empty is remembered with the time at which it was read, which is not older
\* than a document may be.
LEMMA TryNextStep ==
  ASSUME LoaderInv, SearchInv, NEW r \in Requests, TryNext(r)
  PROVE  LoaderInv' /\ SearchInv'
  <1> DEFINE A == Attempts(locales[r])
             tried == With(missing[r], name[r], document[r])
  <1>1. PICK p \in place[r] + 1 .. Len(A) :
          /\ A[p] \notin DOMAIN tried
          /\ \A q \in place[r] + 1 .. p - 1 : A[q] \in DOMAIN tried
          /\ Call(r, A[p])
          /\ place' = [place EXCEPT ![r] = p]
    BY DEF TryNext
  <1>2. /\ pc[r] = "returned"
        /\ missing' = [missing EXCEPT ![r] = tried]
        /\ UNCHANGED <<locales, began>>
    BY DEF TryNext
  <1>3. /\ locales[r] \in Seq(Locales)
        /\ place[r] \in 1 .. Len(A) /\ name[r] = A[place[r]]
        /\ \A q \in 1 .. place[r] - 1 : A[q] \in DOMAIN missing[r]
        /\ began[r] <= start[r] /\ document[r] # NoTime
    <2>1. locales[r] \in Seq(Locales)
      <3>1. locales[r] \in Accepted \union {<<>>}
        BY DEF LoaderInv, LoaderTypeOK
      <3> QED  BY <3>1, LocalesType
    <2> QED  BY <1>2, <2>1 DEF SearchInv
  <1>4. A \in Seq(Names) /\ Len(A) \in Nat
    BY <1>3, AttemptsOf
  <1> HIDE DEF A
  <1>5. p \in 1 .. Len(A) /\ A[p] \in Names
    BY <1>3, <1>4, ElementOfSeq
  <1>6. /\ time \in Nat /\ start[r] \in Nat /\ start[r] <= time /\ began[r] \in Nat
        /\ document[r] \in Nat \union {Garbage} /\ name[r] \in Names
        /\ CacheTime > 0 /\ document[r] # Garbage => document[r] > start[r] - CacheTime
    BY <1>3 DEF LoaderInv, IndInv, TypeOK, LoaderTypeOK, BoundedStaleness
  <1>7. PICK before \in SUBSET Names : missing[r] \in [before -> Nat \union {Garbage}]
    BY DEF LoaderInv, LoaderTypeOK
  <1>8. /\ DOMAIN tried = before \union {name[r]}
        /\ tried \in [before \union {name[r]} -> Nat \union {Garbage}]
        /\ \A m \in DOMAIN tried : tried[m] = IF m = name[r] THEN document[r] ELSE missing[r][m]
    BY <1>6, <1>7 DEF With
  <1> HIDE DEF tried
  <1>9. IndInv'
    BY <1>1, <1>5, CallInv DEF LoaderInv
  <1>10. /\ place' \in [Requests -> Nat] /\ place'[r] = p
         /\ DOMAIN missing' = Requests /\ missing'[r] = tried
         /\ \A q \in Requests \ {r} :
               /\ locales'[q] = locales[q] /\ place'[q] = place[q]
               /\ began'[q] = began[q] /\ missing'[q] = missing[q]
    BY <1>1, <1>2, <1>4, <1>5 DEF LoaderInv, LoaderTypeOK
  <1>11. \A q \in Requests :
           \E keys \in SUBSET Names : missing'[q] \in [keys -> Nat \union {Garbage}]
    <2>1. before \union {name[r]} \in SUBSET Names
      BY <1>6
    <2> QED  BY <1>8, <1>10, <2>1 DEF LoaderInv, LoaderTypeOK
  <1>12. LoaderTypeOK'
    BY <1>2, <1>9, <1>10, <1>11 DEF LoaderTypeOK, IndInv, LoaderInv
  <1>13. \A q \in 1 .. p - 1 : A[q] \in DOMAIN tried
    <2> TAKE q \in 1 .. p - 1
    <2>1. CASE q < place[r]
      BY <1>3, <1>4, <1>5, <1>7, <1>8, <2>1
    <2>2. CASE q = place[r]
      BY <1>3, <1>8, <2>2
    <2>3. CASE q > place[r]
      BY <1>1, <1>3, <1>4, <1>5, <2>3
    <2> QED  BY <1>3, <1>4, <2>1, <2>2, <2>3
  <1>14. \A m \in DOMAIN tried :
           CacheTime > 0 /\ tried[m] # Garbage => tried[m] > began[r] - CacheTime
    <2> TAKE m \in DOMAIN tried
    <2>1. CASE m = name[r]
      BY <1>3, <1>6, <1>8, <2>1 DEF Garbage
    <2>2. CASE m # name[r]
      BY <1>7, <1>8, <2>2 DEF SearchInv
    <2> QED  BY <2>1, <2>2
  <1>15. /\ began'[r] <= time
         /\ place'[r] \in 1 .. Len(Attempts(locales'[r]))
         /\ A[p] = Attempts(locales'[r])[place'[r]]
         /\ \A q \in 1 .. place'[r] - 1 : Attempts(locales'[r])[q] \in DOMAIN missing'[r]
         /\ \A m \in DOMAIN missing'[r] :
               CacheTime > 0 /\ missing'[r][m] # Garbage => missing'[r][m] > began'[r] - CacheTime
    BY <1>2, <1>3, <1>5, <1>6, <1>10, <1>13, <1>14 DEF A
  <1>16. SearchInv'
    BY <1>1, <1>5, <1>10, <1>12, <1>15, CallSearch
  <1> QED  BY <1>9, <1>12, <1>16 DEF LoaderInv

\* tryFile() goes on, or the clock: nothing is decided about the search.
LEMMA CacheStep ==
  ASSUME LoaderInv, SearchInv, UNCHANGED loaderVars,
         (\E r \in Requests : TryFile(r)) \/ Tick
  PROVE  LoaderInv' /\ SearchInv'
  <1>1. IndInv'
    BY HitInv, LoadInv, CopyInv, TickInv DEF LoaderInv, TryFile
  <1>2. LoaderTypeOK'
    BY <1>1 DEF LoaderInv, LoaderTypeOK, loaderVars, IndInv
  <1> DEFINE Kept(q) ==
               /\ name'[q] = name[q] /\ start'[q] = start[q]
               /\ pc'[q] \in {"copy", "returned"} => document'[q] # NoTime
               /\ pc'[q] # "idle" => pc[q] # "idle"
  <1>3. \A q \in Requests : Kept(q)
    <2>1. ASSUME NEW r \in Requests, Hit(r) \/ \E o \in Objects : Load(r, o) PROVE \A q \in Requests : Kept(q)
      <3>1. PICK d \in Nat : document' = [document EXCEPT ![r] = d]
        <4>1. Hit(r) => cache[name[r]].document \in Nat
          BY DEF Hit, LoaderInv, IndInv, TypeOK, Entries
        <4>2. time \in Nat
          BY DEF LoaderInv, IndInv, TypeOK
        <4> QED  BY <2>1, <4>1, <4>2 DEF Hit, Load
      <3>2. /\ pc[r] = "lock" /\ pc' = [pc EXCEPT ![r] = "copy"]
            /\ UNCHANGED <<name, start>>
        BY <2>1 DEF Hit, Load
      <3> QED  BY <3>1, <3>2 DEF LoaderInv, IndInv, TypeOK, SearchInv, NoTime
    <2>2. ASSUME NEW r \in Requests, Copy(r) PROVE \A q \in Requests : Kept(q)
      <3>1. document' = document \/ document' = [document EXCEPT ![r] = Garbage]
        BY <2>2 DEF Copy
      <3>2. /\ pc[r] = "copy" /\ pc' = [pc EXCEPT ![r] = "returned"]
            /\ UNCHANGED <<name, start>>
        BY <2>2 DEF Copy
      <3> QED  BY <3>1, <3>2 DEF LoaderInv, IndInv, TypeOK, SearchInv, NoTime, Garbage
    <2>3. CASE Tick
      BY <2>3 DEF Tick, callVars, SearchInv
    <2> QED  BY <2>1, <2>2, <2>3 DEF TryFile
  <1>4. SearchInv'
    BY <1>3 DEF SearchInv, loaderVars
  <1> QED  BY <1>1, <1>2, <1>4 DEF LoaderInv

LEMMA StepSearch ==
  LoaderInv /\ SearchInv /\ [Next]_<<vars, loaderVars>> => LoaderInv' /\ SearchInv'
  <1> SUFFICES ASSUME LoaderInv, SearchInv, [Next]_<<vars, loaderVars>>
               PROVE  LoaderInv' /\ SearchInv'
    OBVIOUS
  <1>1. CASE UNCHANGED <<vars, loaderVars>>
    <2>1. IndInv'
      BY <1>1, StutterInv DEF LoaderInv
    <2>2. LoaderTypeOK' /\ SearchInv'
      BY <1>1, <2>1 DEF vars, callVars, loaderVars, LoaderInv, LoaderTypeOK, SearchInv, IndInv
    <2> QED  BY <2>1, <2>2 DEF LoaderInv
  <1> QED  BY <1>1, GetTemplateStep, TryNextStep, CacheStep DEF Next

-----------------------------------------------------------------------------
\* Cache, calls and searches keep their form, for every set of threads, names and
\* objects: no entry is newer than its document, and what lies before the place of a
\* search has been tried.
THEOREM LoaderInvariance == Spec => [](LoaderInv /\ SearchInv)
  BY InitSearch, StepSearch, PTL DEF Spec

\* However long a thread waits for the mutex, and whatever the cache has evicted since:
\* a call of tryFile() gets what the file contained less than cacheTime before, or later.
THEOREM NeverTooStale == Spec => []BoundedStaleness
  <1>1. LoaderInv => BoundedStaleness
    BY DEF LoaderInv, IndInv
  <1> QED  BY LoaderInvariance, <1>1, PTL

\* An entry is never replaced by one with an older document.
THEOREM NewerReplacesOlder == Spec => NeverReplacedByOlder
  <1> DEFINE Newer == \A n \in DOMAIN cache :
                        n \in DOMAIN cache' => cache'[n].document >= cache[n].document
  <1>1. LoaderInv /\ [Next]_<<vars, loaderVars>> => [Newer]_vars
    <2> SUFFICES ASSUME LoaderInv, [Next]_<<vars, loaderVars>> PROVE Newer
      OBVIOUS
    <2>1. CASE cache' = cache
      <3>1. \A n \in DOMAIN cache : cache[n].document \in Nat
        BY DEF LoaderInv, IndInv, TypeOK, Entries
      <3> QED  BY <2>1, <3>1
    <2>2. ASSUME NEW r \in Requests, NEW o \in Objects, Load(r, o) PROVE Newer
      BY <2>2, LoadInv DEF LoaderInv
    <2>3. cache' = cache \/ \E r \in Requests, o \in Objects : Load(r, o)
      BY DEF Next, GetTemplate, TryNext, TryFile, Call, Hit, Copy, Tick, vars
    <2> QED  BY <2>1, <2>2, <2>3
  <1> QED  BY LoaderInvariance, <1>1, PTL DEF Spec, NeverReplacedByOlder

\* A template is taken only when each one the browser prefers has been tried, and was
\* missing less than cacheTime before the call, or later; for all lists of locales.
THEOREM PreferredIsTaken == Spec => []PreferredFirst
  <1>1. LoaderInv /\ SearchInv => PreferredFirst
    <2> SUFFICES ASSUME LoaderInv, SearchInv, NEW r \in Requests, Finished(r),
                        NEW n \in Preferred(locales[r], name[r])
                 PROVE  /\ n \in DOMAIN missing[r]
                        /\ CacheTime > 0 =>
                              \/ missing[r][n] = Garbage
                              \/ missing[r][n] > began[r] - CacheTime
      BY DEF PreferredFirst
    <2>1. locales[r] \in Seq(Locales)
      <3>1. locales[r] \in Accepted \union {<<>>}
        BY DEF LoaderInv, LoaderTypeOK
      <3> QED  BY <3>1, LocalesType
    <2>2. /\ place[r] \in 1 .. Len(Attempts(locales[r]))
          /\ name[r] = Attempts(locales[r])[place[r]]
          /\ \A q \in 1 .. place[r] - 1 : Attempts(locales[r])[q] \in DOMAIN missing[r]
      BY DEF Finished, SearchInv
    <2>3. \E q \in 1 .. place[r] - 1 : Attempts(locales[r])[q] = n
      BY <2>1, <2>2, PreferredBefore
    <2>4. n \in DOMAIN missing[r]
      BY <2>2, <2>3
    <2> QED  BY <2>4 DEF SearchInv
  <1> QED  BY LoaderInvariance, <1>1, PTL

=============================================================================
