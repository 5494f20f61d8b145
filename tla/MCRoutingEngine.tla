-------------------------- MODULE MCRoutingEngine --------------------------
(***************************************************************************)
(* RoutingEngine for TLC.                                                  *)
(***************************************************************************)
EXTENDS RoutingEngine, TLC

Backend(id, r, w) == [id |-> id, group |-> "g", role |-> r, weight |-> w]
Pair == {Backend("b1", "PRIMARY", 0), Backend("b2", "REPLICA", 2)}
Trio == Pair \union {Backend("b3", "REPLICA", 1)}

Schema(pol, split) == [group |-> "g", policy |-> pol, split |-> split]
Mixed == {Schema("FAILOVER", None), Schema(None, FALSE), Schema("LATENCY", TRUE)}
Plain == {Schema(None, None)}

Statement(type, tx, pin, sig) ==
  [type |-> type, schema |-> "app", in_transaction |-> tx, pinned |-> pin, signal |-> sig]
Signal == [b1 |-> 1, b2 |-> 0]
Sessions == {Statement("SELECT", FALSE, FALSE, Signal), Statement("SELECT", TRUE, FALSE, Signal),
             Statement("INSERT", FALSE, TRUE, Signal), Statement("INSERT", FALSE, FALSE, Signal)}
ReadAndWrite == {Statement("SELECT", FALSE, FALSE, None), Statement("INSERT", FALSE, FALSE, None)}

Symmetry == Permutations(Entry)
=============================================================================
