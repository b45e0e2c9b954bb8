-------------------------- MODULE MCConnectionPool --------------------------
(* Model values and symmetry for checking ConnectionPool with TLC.         *)
EXTENDS ConnectionPool

\* Connections and handlers are interchangeable (safety runs only).
Symmetry == Permutations(Conns) \union Permutations(Handlers)

=============================================================================
