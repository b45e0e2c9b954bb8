---------------------------- MODULE ObjectCache ----------------------------
(***************************************************************************)
(* QCache, the bounded cache of the Qt library, as StaticFileController    *)
(* and TemplateCache use it.  A cache is a function from its keys to       *)
(* entries; entries have a field `cost'.  The cache owns its entries: what *)
(* it no longer holds has been deleted.                                    *)
(*                                                                         *)
(* QCache trims the least recently used entries.  Here it may drop any,    *)
(* as long as it drops none when all fit.                                  *)
(***************************************************************************)
EXTENDS Integers, FiniteSets, FiniteSetsExt

NoEntries == [k \in {} |-> {}]

TotalCost(cache) == MapThenSumSet(LAMBDA k : cache[k].cost, DOMAIN cache)

Keep(cache, keys) == [k \in keys |-> cache[k]]

With(cache, key, entry) ==
    [k \in DOMAIN cache \union {key} |-> IF k = key THEN entry ELSE cache[k]]

\* The caches insert() may leave.  An entry that costs more than the whole cache
\* is deleted at once, and so is the one it would have replaced.
Insertions(cache, key, entry, maxCost) ==
    LET others == DOMAIN cache \ {key}
        all    == With(cache, key, entry)
        kept   == {Keep(all, keys \union {key}) : keys \in SUBSET others}
    IN  IF entry.cost > maxCost
        THEN {Keep(cache, others)}
        ELSE IF TotalCost(all) <= maxCost
             THEN {all}
             ELSE {c \in kept : TotalCost(c) <= maxCost}

=============================================================================
