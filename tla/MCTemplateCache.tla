-------------------------- MODULE MCTemplateCache --------------------------
(***************************************************************************)
(* Model checking of TemplateLoader and TemplateCache: one language with   *)
(* and without a country; calls and objects are interchangeable.           *)
(***************************************************************************)
EXTENDS TemplateLoader, TLC

CONSTANTS de_AT, de

MCLanguage == [l \in {de_AT, de} |-> de]

MCAccepted == {<<de_AT>>, <<de, de_AT>>}

Symmetry == Permutations(Requests) \union Permutations(Objects)

=============================================================================
