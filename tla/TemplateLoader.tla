--------------------------- MODULE TemplateLoader ---------------------------
(***************************************************************************)
(* TemplateLoader::getTemplate(), on top of the cache: the template is     *)
(* searched for in the languages that the browser accepts, first as they   *)
(* are named, then without their country, and at last without a language.  *)
(* Each attempt is a call of tryFile() of its own; an empty document       *)
(* stands for a file that is missing, and the next one is tried.           *)
(***************************************************************************)
EXTENDS TemplateCache, SequencesExt

CONSTANTS
    Locales,       \* the locales a browser names, as names of the template
    Language,      \* the name for the language of each
    Default,       \* the name of the template without a language
    Accepted       \* the lists of locales that browsers send

ASSUME TemplateLoaderAssumption ==
    /\ Locales \subseteq Names \ {Default}
    /\ Language \in [Locales -> Names \ {Default}]
    /\ Default \in Names
    /\ Accepted \subseteq Seq(Locales)

VARIABLES
    locales,    \* the parameter of each call of getTemplate()
    place,      \* which of its Attempts it has come to
    began,      \* history: the time at which it was called
    missing     \* the names it has tried in vain, and, as history, when they were read

loaderVars == <<locales, place, began, missing>>

Languages(locs) == [i \in DOMAIN locs |-> Language[locs[i]]]

\* Faulty variant: the languages come before the locales.
AttemptsByLanguage(locs) == Languages(locs) \o locs \o <<Default>>

\* The names in the order in which they are tried.
Attempts(locs) == locs \o Languages(locs) \o <<Default>>

LoaderTypeOK ==
    /\ TypeOK
    /\ locales \in [Requests -> Accepted \union {<<>>}]
    /\ place \in [Requests -> Nat]
    /\ began \in [Requests -> Nat]
    /\ DOMAIN missing = Requests
    /\ \A r \in Requests :
          \E tried \in SUBSET Names : missing[r] \in [tried -> Nat \union {Garbage}]

LoaderInit ==
    /\ Init
    /\ locales = [r \in Requests |-> <<>>]
    /\ place = [r \in Requests |-> 1]
    /\ began = [r \in Requests |-> 0]
    /\ missing = [r \in Requests |-> NoEntries]

\* A call that has found a document, or has tried the default, has come to its end.
Finished(r) ==
    pc[r] = "returned" /\ (~empty[r] \/ place[r] = Len(Attempts(locales[r])))

GetTemplate(r, locs) ==
    /\ pc[r] = "idle"
    /\ Call(r, Attempts(locs)[1])
    /\ locales' = [locales EXCEPT ![r] = locs]
    /\ place' = [place EXCEPT ![r] = 1]
    /\ began' = [began EXCEPT ![r] = time]
    /\ missing' = [missing EXCEPT ![r] = NoEntries]

\* tryFile() has returned an empty document: the next name is tried that has not
\* been tried before.
TryNext(r) ==
    LET names == Attempts(locales[r])
        tried == With(missing[r], name[r], document[r])
    IN  /\ pc[r] = "returned" /\ empty[r]
        /\ \E p \in place[r] + 1 .. Len(names) :
              /\ names[p] \notin DOMAIN tried
              /\ \A q \in place[r] + 1 .. p - 1 : names[q] \in DOMAIN tried
              /\ Call(r, names[p])
              /\ place' = [place EXCEPT ![r] = p]
        /\ missing' = [missing EXCEPT ![r] = tried]
        /\ UNCHANGED <<locales, began>>

Next ==
    \/ \E r \in Requests :
          \/ \E locs \in Accepted : GetTemplate(r, locs)
          \/ TryNext(r)
          \/ TryFile(r) /\ UNCHANGED loaderVars
    \/ Tick /\ UNCHANGED loaderVars

Spec == LoaderInit /\ [][Next]_<<vars, loaderVars>>

-----------------------------------------------------------------------------
\* What the cache and the calls hold has the right form, and no entry is newer than
\* its document.
LoaderInv == LoaderTypeOK /\ IndInv

\* The names a browser prefers to n: the locales it has named before, all locales if n
\* is a language only, and all languages, too, if n has none.
Preferred(locs, n) ==
    IF n \in ToSet(locs)
    THEN {locs[i] : i \in {j \in DOMAIN locs : \A k \in 1..j : locs[k] # n}}
    ELSE ToSet(locs) \union
         {l \in ToSet(Languages(locs)) :
             n = Default \/ \E i \in DOMAIN locs :
                               /\ Language[locs[i]] = l
                               /\ \A k \in 1..i : Language[locs[k]] # n}

\* What makes PreferredFirst inductive: every name before the one a call has come to has
\* been tried, and what it found missing is as old as a document may be, counted from
\* the beginning of the call.
SearchInv ==
    \A r \in Requests :
        /\ began[r] <= start[r]
        /\ pc[r] \in {"copy", "returned"} => document[r] # NoTime
        /\ pc[r] # "idle" =>
              /\ place[r] \in 1 .. Len(Attempts(locales[r]))
              /\ name[r] = Attempts(locales[r])[place[r]]
              /\ \A q \in 1 .. place[r] - 1 : Attempts(locales[r])[q] \in DOMAIN missing[r]
        /\ \A n \in DOMAIN missing[r] :
              CacheTime > 0 /\ missing[r][n] # Garbage => missing[r][n] > began[r] - CacheTime

\* A template is taken only when every preferred one was missing, though the attempts
\* are made one after the other, among other threads that evict and reload what was
\* found: each was read as missing less than cacheTime before the call, or during it.
\* (What is copied from a deleted entry may look missing, too.)
PreferredFirst ==
    \A r \in Requests :
        Finished(r) =>
            \A n \in Preferred(locales[r], name[r]) :
                /\ n \in DOMAIN missing[r]
                /\ CacheTime > 0 =>
                      \/ missing[r][n] = Garbage
                      \/ missing[r][n] > began[r] - CacheTime

=============================================================================
