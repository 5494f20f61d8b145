-------------------------- MODULE MCConnectionPool --------------------------
(***************************************************************************)
(* Small pools for TLC.  Clients and addresses are interchangeable.        *)
(***************************************************************************)
EXTENDS ConnectionPool, TLC

Symmetry == Permutations(Client) \union Permutations(Conn)

=============================================================================
