--------------------------- MODULE MCApplication ---------------------------
(***************************************************************************)
(* Application for TLC: two backends; files that validate() accepts and    *)
(* files it rejects.                                                       *)
(***************************************************************************)
EXTENDS Application

Item(n, ok) == [name |-> n, complete |-> ok]
File(bs, mysql, dir) ==
  [node_id |-> TRUE, ports |-> TRUE, backends |-> bs, schemas |-> <<Item("default", TRUE)>>,
   mysql |-> mysql, data_dir |-> dir]

TheFiles ==
  {File(<<Item("b1", TRUE), Item("b2", TRUE)>>, TRUE, "d1"),
   File(<<Item("b1", TRUE), Item("b1", TRUE)>>, TRUE, "d1"),
   File(<< >>, FALSE, "d2")}
=============================================================================
