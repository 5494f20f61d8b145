--------------------------- MODULE MCQuerySession ---------------------------
(***************************************************************************)
(* QuerySession for TLC.                                                   *)
(***************************************************************************)
EXTENDS QuerySession, TLC

Symmetry == Permutations(Client) \union Permutations(Conn)

=============================================================================
