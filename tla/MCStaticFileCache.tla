------------------------- MODULE MCStaticFileCache -------------------------
(***************************************************************************)
(* Model checking of StaticFileCache: requests are interchangeable, and so *)
(* are paths.                                                              *)
(***************************************************************************)
EXTENDS StaticFileCache, TLC

Symmetry == Permutations(Requests) \union Permutations(Paths)

=============================================================================
