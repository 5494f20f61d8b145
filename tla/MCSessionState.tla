--------------------------- MODULE MCSessionState ---------------------------
(***************************************************************************)
(* SessionState for TLC: literals and comments hold the marks and verbs    *)
(* that would matter outside them.                                         *)
(***************************************************************************)
EXTENDS SessionState

Piece(text, means, schema) == [text |-> text, means |-> means, schema |-> schema]

TheUnits ==
  {Piece(<<"select", " ">>, "select", << >>),
   Piece(<<"insert", " ">>, "insert", << >>),
   Piece(<<"with", " ", "x", "(", "select", ")">>, "cte", << >>),
   Piece(<<"(">>, "(", << >>),
   Piece(<<";">>, ";", << >>),
   Piece(<<"quote", "bslash", "quote", "--", ";", "insert", " ", "from", " ", "c", ".", "t", "quote">>, "name", << >>),
   Piece(<<"dquote", "from", " ", "c", ".", "t", "quote", ";", "insert", "dquote">>, "name", << >>),
   Piece(<<"btick", "/*", ";", "insert", "btick">>, "name", << >>),
   Piece(<<"--", " ", "quote", ";", "insert", "\n">>, "", << >>),
   Piece(<<"/*", "btick", ";", "insert", "*/">>, "", << >>),
   Piece(<<"from", " ", "t", " ">>, "name", << >>),
   Piece(<<"into", " ", "b", ".", "t", " ">>, "name", <<"b">>),
   Piece(<<"join", " ", "btick", "a", "btick", " ", ".", "t", " ">>, "name", <<"a">>)}

About(text, open, auto, db) == [text |-> text, open |-> open, auto |-> auto, db |-> db]

\* One USE is without a name: an error, that changes nothing.
TheStatements ==
  {About(<<"begin">>, TRUE, Keep, Keep), About(<<" ", "start", " ", "\n", "transaction">>, TRUE, Keep, Keep),
   About(<<"commit">>, FALSE, Keep, Keep), About(<<"\n", "rollback">>, FALSE, Keep, Keep),
   About(<<"set", " ", "autocommit", "=", "0">>, Keep, FALSE, Keep),
   About(<<" ", "set", "\n", "autocommit", "=", "1">>, Keep, TRUE, Keep),
   About(<<"set", " ", "x", "=", "0">>, Keep, Keep, Keep),
   About(<<"use", " ", " ", "d", " ", "\n">>, Keep, Keep, <<"d">>),
   About(<<"use", " ">>, Keep, Keep, Keep)}

\* With the other common way to write SET AUTOCOMMIT.
BothSpellings ==
  TheStatements \union {About(<<"set", " ", "autocommit", " ", "=", " ", "0">>, Keep, FALSE, Keep)}

\* Spellings of USE that give current_db_ more than the name, or part of USE, and one
\* of SET AUTOCOMMIT that does not fit into the sixteen characters looked at.
OddSpellings ==
  {About(<<"use", "\n", "d">>, Keep, Keep, <<"d">>), About(<<" ", "use", " ", "d">>, Keep, Keep, <<"d">>),
   About(<<"use", " ", "btick", "d", "btick">>, Keep, Keep, <<"d">>),
   About(<<"use", " ", "d", ";">>, Keep, Keep, <<"d">>),
   About(<<"set", " ", "session", " ", "autocommit", "=", "0">>, Keep, FALSE, Keep)}

TheSchemas == {<< >>, <<"d">>}

\* Neither the type nor the schema of a query depends on the transaction: the longer
\* queries are sent in new sessions.
LongOnesInNewSessions == Len(typed) > 2 => ~in_transaction_ /\ autocommit_
=============================================================================
