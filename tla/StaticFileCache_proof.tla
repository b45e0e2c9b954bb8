----------------------- MODULE StaticFileCache_proof -----------------------
(***************************************************************************)
(* TLAPS proofs about StaticFileCache.  BoundedStaleness follows from two  *)
(* facts about time stamps: the content of an entry is not older than its  *)
(* `created', and the content a request has read itself is not older than  *)
(* the request.                                                            *)
(***************************************************************************)
EXTENDS StaticFileCache, FiniteSetTheorems, TLAPS

USE StaticFileCacheAssumption

\* insert() leaves the new entry or an old one under every key it keeps.
LEMMA InsertionsKeep ==
  ASSUME NEW old, NEW key, NEW entry, NEW maxCost,
         NEW new \in Insertions(old, key, entry, maxCost)
  PROVE  /\ DOMAIN new \subseteq DOMAIN old \union {key}
         /\ new = [k \in DOMAIN new |-> new[k]]
         /\ \A k \in DOMAIN new : new[k] = entry \/ (k \in DOMAIN old /\ new[k] = old[k])
  <1>1. With(old, key, entry) =
           [k \in DOMAIN old \union {key} |-> IF k = key THEN entry ELSE old[k]]
    BY DEF With
  <1>2. CASE new = Keep(old, DOMAIN old \ {key})
    BY <1>2 DEF Keep
  <1>3. CASE new = With(old, key, entry)
    BY <1>1, <1>3
  <1>4. CASE \E keys \in SUBSET (DOMAIN old \ {key}) :
                new = Keep(With(old, key, entry), keys \union {key})
    BY <1>1, <1>4 DEF Keep
  <1>5. new \in {Keep(With(old, key, entry), keys \union {key}) :
                    keys \in SUBSET (DOMAIN old \ {key})} => 
        \E keys \in SUBSET (DOMAIN old \ {key}) :
            new = Keep(With(old, key, entry), keys \union {key})
    OBVIOUS
  <1> QED  BY <1>2, <1>3, <1>4, <1>5 DEF Insertions

LEMMA InitInv == Init => IndInv
  <1> SUFFICES ASSUME Init PROVE IndInv  OBVIOUS
  <1>1. cache \in [{} -> Entries]
    BY DEF Init, NoEntries
  <1>2. TypeOK
    BY <1>1 DEF Init, TypeOK, NoDoc
  <1> QED  BY <1>1, <1>2 DEF Init, IndInv, BoundedStaleness, NoDoc

LEMMA StepInv == IndInv /\ [Next]_vars => IndInv'
  <1> SUFFICES ASSUME IndInv, [Next]_vars PROVE IndInv'  OBVIOUS
  <1> USE DEF IndInv, TypeOK, BoundedStaleness, NoDoc, Entries
  <1>0. PICK keys \in SUBSET Paths : cache \in [keys -> Entries]
    OBVIOUS
  <1>1. ASSUME NEW r \in Requests, Begin(r) PROVE IndInv'
    <2>1. PICK p \in Paths : path' = [path EXCEPT ![r] = p]
      BY <1>1 DEF Begin
    <2> QED  BY <1>0, <1>1, <2>1 DEF Begin
  <1>2. ASSUME NEW r \in Requests, Hit(r) PROVE IndInv'
    <2>1. path[r] \in keys /\ cache[path[r]] \in Entries
      BY <1>0, <1>2 DEF Hit
    <2>2. cache[path[r]].document \in Nat /\ cache[path[r]].created \in Nat
      BY <2>1
    <2>3. CacheTime > 0 => cache[path[r]].document > start[r] - CacheTime
      BY <1>2, <2>2 DEF Hit, Valid
    <2> QED  BY <1>0, <1>2, <2>2, <2>3 DEF Hit
  <1>3. ASSUME NEW r \in Requests, Miss(r) \/ Refuse(r) PROVE IndInv'
    BY <1>0, <1>3 DEF Miss, Refuse
  <1>4. ASSUME NEW r \in Requests, Open(r) PROVE IndInv'
    BY <1>0, <1>4 DEF Open
  <1>5. ASSUME NEW r \in Requests, Read(r) PROVE IndInv'
    BY <1>0, <1>5 DEF Read
  <1>6. ASSUME NEW r \in Requests, Insert(r) PROVE IndInv'
    <2> DEFINE entry == [document |-> doc[r], created |-> start[r], cost |-> size[r]]
    <2>1. entry \in Entries /\ entry.created <= entry.document
      BY <1>6 DEF Insert
    <2>2. /\ DOMAIN cache' \subseteq DOMAIN cache \union {path[r]}
          /\ cache' = [k \in DOMAIN cache' |-> cache'[k]]
          /\ \A k \in DOMAIN cache' :
                cache'[k] = entry \/ (k \in DOMAIN cache /\ cache'[k] = cache[k])
      <3>1. cache' \in Insertions(cache, path[r], entry, MaxCost)
        BY <1>6 DEF Insert
      <3> HIDE DEF entry, IndInv, TypeOK
      <3> QED  BY <3>1, InsertionsKeep
    <2>3. DOMAIN cache' \in SUBSET Paths
      BY <1>0, <2>2
    <2> HIDE DEF entry
    <2>4. cache' \in [DOMAIN cache' -> Entries]
      BY <1>0, <2>1, <2>2
    <2>5. \A k \in DOMAIN cache' : cache'[k].created <= cache'[k].document
      BY <2>1, <2>2
    <2> QED  BY <1>6, <2>3, <2>4, <2>5 DEF Insert
  <1>7. CASE Tick
    BY <1>0, <1>7 DEF Tick
  <1>8. CASE UNCHANGED vars
    BY <1>0, <1>8 DEF vars
  <1> QED
    BY <1>1, <1>2, <1>3, <1>4, <1>5, <1>6, <1>7, <1>8 DEF Next, Serve

\* However many threads serve files at once and wherever they are held up, what
\* is sent from the cache is less than cacheTime older than the request.
THEOREM NeverTooStale == Spec => []BoundedStaleness
  <1>1. IndInv => BoundedStaleness
    BY DEF IndInv
  <1> QED  BY InitInv, StepInv, <1>1, PTL DEF Spec

-----------------------------------------------------------------------------
(***************************************************************************)
(* CacheFits.  The total cost of a cache is a fold over its entries, about *)
(* which nothing is known but how it is computed; what is needed of it is  *)
(* proved by induction over the subsets of a finite set.                   *)
(***************************************************************************)
\* Induction over the subsets of a finite set: what fails for one of them fails for a
\* smallest one.
LEMMA Smallest ==
  ASSUME NEW S, IsFiniteSet(S), NEW T \in SUBSET (SUBSET S), T # {}
  PROVE  \E s \in T : \A t \in T : t \subseteq s => t = s
  <1>1. T \subseteq FiniteSubsetsOf(S)
    BY FS_Subset DEF FiniteSubsetsOf
  <1>2. PICK s \in T : \A t \in T : <<t, s>> \notin StrictSubsetOrdering(S)
    BY <1>1, FS_StrictSubsetOrderingWellFounded, WFMin, Zenon
  <1> QED  BY <1>2 DEF StrictSubsetOrdering

First(s) == CHOOSE x \in s : TRUE
Less(s) == s \ {First(s)}

\* f sums up the costs of c over the subsets of S in the way MapThenSumSet does.
Sums(c, S, f) ==
  f = [s \in SUBSET S |-> IF s = {} THEN 0 ELSE c[First(s)].cost + f[Less(s)]]

SumFcn(c, S) == CHOOSE f : Sums(c, S, f)

LEMMA TotalCostSum == ASSUME NEW c PROVE TotalCost(c) = SumFcn(c, DOMAIN c)[DOMAIN c]
  BY DEF TotalCost, MapThenSumSet, MapThenFoldSet, SumFcn, Sums, First, Less

LEMMA LessSmaller ==
  ASSUME NEW s, s # {}
  PROVE  First(s) \in s /\ Less(s) \subseteq s /\ Less(s) # s
  BY DEF First, Less

\* What Sums says of the empty set, and of an element and the others.
LEMMA SumsUnfold ==
  ASSUME NEW c, NEW S, NEW f, Sums(c, S, f)
  PROVE  /\ f[{}] = 0
         /\ \A s \in SUBSET S : s # {} => f[s] = c[First(s)].cost + f[Less(s)]
  BY DEF Sums

\* The sum over a set depends on the costs of its elements alone.
LEMMA SumsAgree ==
  ASSUME NEW c, NEW A, NEW f, Sums(c, A, f), NEW d, NEW B, NEW g, Sums(d, B, g),
         NEW S, IsFiniteSet(S), S \subseteq A, S \subseteq B,
         \A x \in S : c[x].cost = d[x].cost
  PROVE  f[S] = g[S]
  <1> DEFINE T == {s \in SUBSET S : f[s] # g[s]}
  <1> SUFFICES ASSUME T # {} PROVE FALSE
    OBVIOUS
  <1>1. PICK s \in T : \A t \in T : t \subseteq s => t = s
    <2>1. T \in SUBSET (SUBSET S)
      OBVIOUS
    <2> HIDE DEF T
    <2> QED  BY <2>1, Smallest
  <1>2. s # {}
    BY SumsUnfold
  <1>3. /\ f[s] = c[First(s)].cost + f[Less(s)]
        /\ g[s] = d[First(s)].cost + g[Less(s)]
    BY <1>2, SumsUnfold
  <1>4. First(s) \in s /\ Less(s) \subseteq s /\ Less(s) # s
    BY <1>2, LessSmaller
  <1> QED  BY <1>1, <1>3, <1>4

\* There is such a function: the sums over the smaller sets make one for the larger.
LEMMA SumsExist ==
  ASSUME NEW c, NEW S, IsFiniteSet(S)
  PROVE  Sums(c, S, SumFcn(c, S))
  <1> DEFINE T == {s \in SUBSET S : ~ Sums(c, s, SumFcn(c, s))}
  <1> SUFFICES ASSUME T # {} PROVE FALSE
    OBVIOUS
  <1>1. PICK s \in T : \A t \in T : t \subseteq s => t = s
    <2>1. T \in SUBSET (SUBSET S)
      OBVIOUS
    <2> HIDE DEF T
    <2> QED  BY <2>1, Smallest
  <1> DEFINE f == [t \in SUBSET s |->
                     IF t = {} THEN 0
                     ELSE c[First(t)].cost + SumFcn(c, Less(t))[Less(t)]]
  <1>2. ASSUME NEW t \in SUBSET s, t # {}
        PROVE  /\ Less(t) \in SUBSET s /\ Less(t) \subseteq t /\ IsFiniteSet(Less(t))
               /\ Sums(c, Less(t), SumFcn(c, Less(t)))
    <2>1. Less(t) \in SUBSET S /\ Less(t) \subseteq s /\ Less(t) # s /\ Less(t) \subseteq t
      BY <1>2, LessSmaller
    <2>2. IsFiniteSet(Less(t))
      BY <2>1, FS_Subset
    <2> QED  BY <1>1, <2>1, <2>2
  <1>3. ASSUME NEW t \in SUBSET s, t # {}
        PROVE  f[Less(t)] = SumFcn(c, Less(t))[Less(t)]
    <2> SUFFICES ASSUME NEW u \in SUBSET s, IsFiniteSet(u), Sums(c, u, SumFcn(c, u))
                 PROVE  f[u] = SumFcn(c, u)[u]
      <3> HIDE DEF f
      <3> QED  BY <1>2, <1>3
    <2>2. CASE u = {}
      BY <2>2, SumsUnfold
    <2>3. CASE u # {}
      <3>1. f[u] = c[First(u)].cost + SumFcn(c, Less(u))[Less(u)]
        BY <2>3
      <3>2. Sums(c, Less(u), SumFcn(c, Less(u))) /\ IsFiniteSet(Less(u)) /\ Less(u) \subseteq u
        BY <1>2, <2>3
      <3>3. SumFcn(c, u)[u] = c[First(u)].cost + SumFcn(c, u)[Less(u)]
        BY <2>3, SumsUnfold
      <3>4. SumFcn(c, u)[Less(u)] = SumFcn(c, Less(u))[Less(u)]
        BY <3>2, SumsAgree
      <3> QED  BY <3>1, <3>3, <3>4
    <2> QED  BY <2>2, <2>3
  <1>4. Sums(c, s, f)
    <2>1. \A t \in SUBSET s : f[t] = IF t = {} THEN 0 ELSE c[First(t)].cost + f[Less(t)]
      BY <1>3
    <2> QED  BY <2>1 DEF Sums
  <1>5. Sums(c, s, SumFcn(c, s))
    <2> HIDE DEF f
    <2> QED  BY <1>4 DEF SumFcn
  <1> QED  BY <1>1, <1>5

LEMMA SumsType ==
  ASSUME NEW c, NEW S, NEW f, Sums(c, S, f), IsFiniteSet(S), \A x \in S : c[x].cost \in Nat
  PROVE  \A s \in SUBSET S : f[s] \in Nat
  <1> DEFINE T == {s \in SUBSET S : f[s] \notin Nat}
  <1> SUFFICES ASSUME T # {} PROVE FALSE
    OBVIOUS
  <1>1. PICK s \in T : \A t \in T : t \subseteq s => t = s
    <2>1. T \in SUBSET (SUBSET S)
      OBVIOUS
    <2> HIDE DEF T
    <2> QED  BY <2>1, Smallest
  <1>2. s # {}
    <2>1. f[{}] \in Nat
      BY SumsUnfold
    <2> QED  BY <2>1
  <1>3. First(s) \in s /\ Less(s) \subseteq s /\ Less(s) # s
    BY <1>2, LessSmaller
  <1>4. f[Less(s)] \in Nat
    BY <1>1, <1>3
  <1> QED  BY <1>2, <1>3, <1>4, SumsUnfold

\* Any element may be taken out first.
LEMMA SumsWithout ==
  ASSUME NEW c, NEW S, NEW f, Sums(c, S, f), IsFiniteSet(S), \A x \in S : c[x].cost \in Nat
  PROVE  \A s \in SUBSET S : \A x \in s : f[s] = c[x].cost + f[s \ {x}]
  <1> DEFINE T == {s \in SUBSET S : \E x \in s : f[s] # c[x].cost + f[s \ {x}]}
  <1> SUFFICES ASSUME T # {} PROVE FALSE
    OBVIOUS
  <1>1. PICK s \in T : \A t \in T : t \subseteq s => t = s
    <2>1. T \in SUBSET (SUBSET S)
      OBVIOUS
    <2> HIDE DEF T
    <2> QED  BY <2>1, Smallest
  <1>2. PICK x \in s : f[s] # c[x].cost + f[s \ {x}]
    OBVIOUS
  <1> DEFINE y == First(s)
  <1>3. y \in s /\ f[s] = c[y].cost + f[s \ {y}]
    <2>1. s # {}
      OBVIOUS
    <2>2. f[s] = c[y].cost + f[Less(s)]
      BY <2>1, SumsUnfold
    <2> QED  BY <2>1, <2>2, LessSmaller DEF Less
  <1>4. x # y
    BY <1>2, <1>3
  <1>5. f[s \ {y}] = c[x].cost + f[s \ {x, y}]
    <2>1. s \ {y} \in SUBSET S /\ s \ {y} \notin T /\ x \in s \ {y}
      BY <1>1, <1>3, <1>4
    <2>2. (s \ {y}) \ {x} = s \ {x, y}
      OBVIOUS
    <2> HIDE DEF y
    <2> QED  BY <2>1, <2>2
  <1>6. f[s \ {x}] = c[y].cost + f[s \ {x, y}]
    <2>1. s \ {x} \in SUBSET S /\ s \ {x} \notin T /\ y \in s \ {x}
      BY <1>1, <1>3, <1>4
    <2>2. (s \ {x}) \ {y} = s \ {x, y}
      OBVIOUS
    <2> HIDE DEF y
    <2> QED  BY <2>1, <2>2
  <1>7. f[s \ {x, y}] \in Nat /\ c[x].cost \in Nat /\ c[y].cost \in Nat
    BY <1>3, SumsType
  <1> HIDE DEF y, T
  <1> QED  BY <1>2, <1>3, <1>5, <1>6, <1>7

\* The total of a cache without one of its entries, and of an empty one.
LEMMA TotalCostWithout ==
  ASSUME NEW c, IsFiniteSet(DOMAIN c), \A k \in DOMAIN c : c[k].cost \in Nat, NEW key
  PROVE  /\ TotalCost(c) \in Nat
         /\ TotalCost(Keep(c, DOMAIN c \ {key})) \in Nat
         /\ TotalCost(Keep(c, DOMAIN c \ {key})) <= TotalCost(c)
  <1> DEFINE S == DOMAIN c
             f == SumFcn(c, S)
             d == Keep(c, S \ {key})
             R == S \ {key}
             g == SumFcn(d, R)
  <1>1. DOMAIN d = R /\ \A k \in R : d[k] = c[k]
    BY DEF Keep
  <1>2. IsFiniteSet(R)
    BY FS_RemoveElement
  <1>3. Sums(c, S, f) /\ Sums(d, R, g)
    BY <1>2, SumsExist
  <1>4. TotalCost(c) = f[S] /\ TotalCost(d) = g[R]
    BY <1>1, TotalCostSum
  <1>5. g[R] = f[R]
    <2> HIDE DEF f, g, d
    <2> QED  BY <1>1, <1>2, <1>3, SumsAgree
  <1> HIDE DEF f, g, d
  <1>6. f[S] \in Nat /\ f[R] \in Nat
    BY <1>3, SumsType
  <1>7. CASE key \in S
    <2>1. f[S] = c[key].cost + f[R]
      BY <1>3, <1>7, SumsWithout
    <2> QED  BY <1>4, <1>5, <1>6, <1>7, <2>1 DEF d
  <1>8. CASE key \notin S
    <2>1. R = S
      BY <1>8
    <2> HIDE DEF S, R
    <2> QED  BY <1>4, <1>5, <1>6, <2>1 DEF d, S
  <1> QED  BY <1>7, <1>8

LEMMA TotalCostEmpty == TotalCost(NoEntries) = 0
  <1>1. DOMAIN NoEntries = {}
    BY DEF NoEntries
  <1>2. Sums(NoEntries, {}, SumFcn(NoEntries, {}))
    BY FS_EmptySet, SumsExist
  <1> QED  BY <1>1, <1>2, SumsUnfold, TotalCostSum

\* insert() leaves a cache that fits if it has found one.
LEMMA InsertionsFit ==
  ASSUME NEW old, NEW key, NEW entry, NEW maxCost \in Nat,
         IsFiniteSet(DOMAIN old), \A k \in DOMAIN old : old[k].cost \in Nat,
         TotalCost(old) <= maxCost,
         NEW new \in Insertions(old, key, entry, maxCost)
  PROVE  IsFiniteSet(DOMAIN new) /\ TotalCost(new) <= maxCost
  <1>1. IsFiniteSet(DOMAIN new)
    <2>1. IsFiniteSet(DOMAIN old \union {key})
      BY FS_AddElement
    <2>2. DOMAIN new \in SUBSET (DOMAIN old \union {key})
      BY InsertionsKeep
    <2> QED  BY <2>1, <2>2, FS_Subset
  <1>2. CASE entry.cost > maxCost
    <2>1. new = Keep(old, DOMAIN old \ {key})
      BY <1>2 DEF Insertions
    <2>2. TotalCost(old) \in Nat /\ TotalCost(new) \in Nat /\ TotalCost(new) <= TotalCost(old)
      BY <2>1, TotalCostWithout
    <2> QED  BY <1>1, <2>2
  <1>3. CASE ~ (entry.cost > maxCost)
    BY <1>1, <1>3 DEF Insertions
  <1> QED  BY <1>2, <1>3

\* With it, a file that is being read to be stored is not too large.
FitInv ==
    /\ IsFiniteSet(DOMAIN cache)
    /\ CacheFits
    /\ \A r \in Requests : size[r] <= MaxCachedFileSize

LEMMA InitFit == Init => FitInv
  <1> SUFFICES ASSUME Init PROVE FitInv  OBVIOUS
  <1>1. DOMAIN cache = {}
    BY DEF Init, NoEntries
  <1>2. TotalCost(cache) = 0
    BY TotalCostEmpty DEF Init
  <1> QED  BY <1>1, <1>2, FS_EmptySet DEF Init, FitInv, CacheFits

LEMMA StepFit == IndInv /\ FitInv /\ [Next]_vars => FitInv'
  <1> SUFFICES ASSUME IndInv, FitInv, [Next]_vars PROVE FitInv'  OBVIOUS
  <1>1. ASSUME NEW r \in Requests, Begin(r) \/ Hit(r) \/ Miss(r) \/ Refuse(r) \/ Read(r)
        PROVE  FitInv'
    BY <1>1 DEF Begin, Hit, Miss, Refuse, Read, FitInv, CacheFits
  <1>2. ASSUME NEW r \in Requests, Open(r) PROVE FitInv'
    <2>1. size' \in [Requests -> Nat] /\ \A q \in Requests : size'[q] <= MaxCachedFileSize
      BY <1>2 DEF Open, FitInv, IndInv, TypeOK
    <2> QED  BY <1>2, <2>1 DEF Open, FitInv, CacheFits
  <1>3. ASSUME NEW r \in Requests, Insert(r) PROVE FitInv'
    <2> DEFINE entry == [document |-> doc[r], created |-> start[r], cost |-> size[r]]
    <2>1. cache' \in Insertions(cache, path[r], entry, MaxCost)
      BY <1>3 DEF Insert
    <2>2. entry.cost = size[r] /\ size[r] <= MaxCachedFileSize
      BY DEF FitInv
    <2>3. \A k \in DOMAIN cache : cache[k].cost \in Nat
      BY DEF IndInv, TypeOK, Entries
    <2> HIDE DEF entry
    <2>4. IsFiniteSet(DOMAIN cache') /\ TotalCost(cache') <= MaxCost
      BY <2>1, <2>3, InsertionsFit DEF FitInv, CacheFits
    <2>5. \A k \in DOMAIN cache' : cache'[k].cost <= MaxCachedFileSize
      BY <2>1, <2>2, InsertionsKeep DEF FitInv, CacheFits
    <2>6. \A q \in Requests : size'[q] <= MaxCachedFileSize
      BY <1>3 DEF Insert, FitInv, IndInv, TypeOK
    <2> QED  BY <2>4, <2>5, <2>6 DEF FitInv, CacheFits
  <1>4. CASE Tick
    BY <1>4 DEF Tick, FitInv, CacheFits
  <1>5. CASE UNCHANGED vars
    BY <1>5 DEF vars, FitInv, CacheFits
  <1> QED  BY <1>1, <1>2, <1>3, <1>4, <1>5 DEF Next, Serve

\* "Large files are not cached", and the documents in the cache fit into cacheSize,
\* whatever files are served by however many threads.
THEOREM CacheStaysWithinItsSize == Spec => []CacheFits
  <1>1. FitInv => CacheFits
    BY DEF FitInv
  <1> QED  BY InitInv, StepInv, InitFit, StepFit, <1>1, PTL DEF Spec

=============================================================================
