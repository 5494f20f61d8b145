---------------------------- MODULE SessionState ----------------------------
(***************************************************************************)
(* What a session makes of the texts its client sends: handle_com_query    *)
(* and handle_com_init_db of protocol/mysql/src/mysql_connection.cpp, up   *)
(* to the type and schema that RoutingEngine::plan works from.             *)
(*                                                                         *)
(* The client puts queries together from units, pieces of text with what   *)
(* SQL takes each for: a verb, a bracket, a semicolon, a CTE, some other   *)
(* word, or nothing for a comment.  Statements about the session are sent  *)
(* one at a time; what they mean is recorded next to what is tracked.      *)
(* What they mean for a transaction is what BEGIN, START TRANSACTION,      *)
(* COMMIT and ROLLBACK say: that MySQL also commits before a DDL statement *)
(* and when autocommit is switched on, neither side counts.                *)
(***************************************************************************)
EXTENDS QueryClassifier, FiniteSets

CONSTANTS
  Unit,      \* [text, means, schema]: pieces of queries
  Statement, \* [text, open, auto, db]: statements about the session
  Schemas,   \* databases a client logs in with, and arguments of COM_INIT_DB
  Keep,      \* marks what a statement leaves as it is
  MaxUnits

VARIABLES
  serving,                                  \* run() has not ended
  typed,                                    \* the units of the next query
  in_transaction_, autocommit_, current_db_,
  truth,                                    \* the same, by the meaning of what was sent
  plan                                      \* type and schema of the text just sent, None if it was not routed

vars == <<serving, typed, in_transaction_, autocommit_, current_db_, truth, plan>>

Text(units) == FlattenSeq([i \in DOMAIN units |-> units[i].text])

TypeOK ==
  /\ typed \in Seq(Unit) /\ Len(typed) <= MaxUnits
  /\ {serving, in_transaction_, autocommit_} \subseteq BOOLEAN
  /\ current_db_ \in Seq(STRING)
  /\ plan # None => plan.schema \in Seq(STRING)

\* Members are initialised, and do_run takes the database of the client's response.
Init ==
  /\ serving = TRUE /\ typed = << >>
  /\ in_transaction_ = FALSE /\ autocommit_ = TRUE /\ current_db_ \in Schemas
  /\ truth = [open |-> FALSE, auto |-> TRUE, db |-> current_db_]
  /\ plan = None

-----------------------------------------------------------------------------

\* Blanks are dropped at the start and collapsed elsewhere.
normalise_prefix(s) ==
  Scan(LAMBDA out, c : IF c \notin Blank THEN Append(out, c)
                           ELSE IF out = << >> \/ Last(out) = " " THEN out ELSE Append(out, " "),
           << >>, s)

Width(c) == CASE c = "set" -> 3 [] c = "session" -> 7 [] c = "autocommit" -> 10 [] OTHER -> 1

\* Of SET, the lexemes that are complete in the first sixteen characters.
Cut(p) ==
  LET end == [i \in DOMAIN p |-> Scan(LAMBDA n, c : n + Width(c), 0, SubSeq(p, 1, i))]
  IN  SubSeq(p, 1, Cardinality({i \in DOMAIN p : end[i] <= 16}))

Finds(s, part) == \E i \in 1..(Len(s) - Len(part) + 1) : SubSeq(s, i, i + Len(part) - 1) = part

Autocommit(s) ==
  IF ~Finds(Cut(s), <<"autocommit">>) THEN autocommit_
  ELSE ~Finds(Cut(s), <<"autocommit", "=", "0">>) /\ ~Finds(Cut(s), <<"autocommit", " ", "=", " ", "0">>)

\* A text with USE after n blanks from its fourth character on: what follows USE, or
\* else blanks or the end of that word come before it.
FromFourth(s) ==
  LET n == SkipBlanks(s, 1) - 1
  IN  CASE n = 0 -> Tail(s)
        [] n = 1 -> <<"e">> \o SubSeq(s, 3, Len(s))
        [] n = 2 -> <<"se">> \o SubSeq(s, 4, Len(s))
        [] OTHER -> SubSeq(s, 4, Len(s))

Trimmed(s) == SubSeq(s, 1, Max({0} \union {i \in DOMAIN s : s[i] \notin Blank}))

\* What substr returns from the first character that is neither space nor tab.  There
\* may be none: substr(npos) throws out_of_range, which run() catches, and returns.
Use(s) ==
  LET text == FromFourth(s)
      start == Skip(text, 1, {" "})
  IN  IF start > Len(text) THEN serving' = FALSE /\ UNCHANGED current_db_
      ELSE current_db_' = Trimmed(SubSeq(text, start, Len(text))) /\ UNCHANGED serving

\* handle_com_query; ends are the statements that end a transaction.
Handle(s, ends) ==
  LET p == normalise_prefix(s)
  IN  \/ /\ IsPrefix(<<"set", " ">>, p)
         /\ autocommit_' = Autocommit(p)
         /\ plan' = None /\ UNCHANGED <<serving, in_transaction_, current_db_>>
      \/ /\ IsPrefix(<<"use", " ">>, p)
         /\ Use(s)
         /\ plan' = None /\ UNCHANGED <<in_transaction_, autocommit_>>
      \/ /\ IsPrefix(<<"begin">>, p) \/ IsPrefix(<<"start", " ", "transaction">>, p)
         /\ in_transaction_' = TRUE
         /\ plan' = None /\ UNCHANGED <<serving, autocommit_, current_db_>>
      \/ /\ \E e \in ends : IsPrefix(<<e>>, p)
         /\ in_transaction_' = FALSE
         /\ plan' = None /\ UNCHANGED <<serving, autocommit_, current_db_>>
      \/ /\ ~IsPrefix(<<"set", " ">>, p) /\ ~IsPrefix(<<"use", " ">>, p)
         /\ ~IsPrefix(<<"begin">>, p) /\ ~IsPrefix(<<"start", " ", "transaction">>, p)
         /\ \A e \in ends : ~IsPrefix(<<e>>, p)
         /\ plan' = [type |-> classify(s), schema |-> extract_or(s, current_db_)]
         /\ UNCHANGED <<serving, in_transaction_, autocommit_, current_db_>>

\* Mutant: ROLLBACK is not tracked.
HandleCommitOnly(s) == Handle(s, {"commit"})

handle_com_query(s) == Handle(s, {"commit", "rollback"})

\* The client goes on typing, sends the query, or sends a statement on its own.
Type ==
  /\ serving /\ Len(typed) < MaxUnits /\ \E u \in Unit : typed' = Append(typed, u)
  /\ plan' = None
  /\ UNCHANGED <<serving, in_transaction_, autocommit_, current_db_, truth>>

SendQuery ==
  /\ typed # << >> /\ handle_com_query(Text(typed)) /\ typed' = << >>
  /\ UNCHANGED truth

SendStatement ==
  /\ serving /\ typed = << >>
  /\ \E st \in Statement :
       /\ handle_com_query(st.text)
       /\ truth' = [open |-> IF st.open = Keep THEN truth.open ELSE st.open,
                    auto |-> IF st.auto = Keep THEN truth.auto ELSE st.auto,
                    db |-> IF st.db = Keep THEN truth.db ELSE st.db]
  /\ UNCHANGED typed

handle_com_init_db ==
  /\ serving /\ typed = << >>
  /\ \E db \in Schemas \ {<< >>} : current_db_' = db /\ truth' = [truth EXCEPT !.db = db]
  /\ plan' = None
  /\ UNCHANGED <<serving, typed, in_transaction_, autocommit_>>

\* The client starts a new session, which begins like the first.
Connect ==
  /\ ~serving /\ serving' = TRUE
  /\ in_transaction_' = FALSE /\ autocommit_' = TRUE /\ current_db_' \in Schemas
  /\ truth' = [open |-> FALSE, auto |-> TRUE, db |-> current_db_']
  /\ plan' = None /\ UNCHANGED typed

Next == Type \/ SendQuery \/ SendStatement \/ handle_com_init_db \/ Connect

Spec == Init /\ [][Next]_vars

-----------------------------------------------------------------------------
(* What SQL makes of the units typed so far.                               *)

Means == SelectSeq([i \in DOMAIN typed |-> typed[i].means], LAMBDA x : x # "")

\* The units from i on are a statement of their own.
Begins(i) == i \in DOMAIN Means /\ Means[i] # ";" /\ (i = 1 \/ Means[i - 1] = ";")

\* The first unit after the opening brackets.
Verb(i) == CHOOSE j \in i..(Len(Means) + 1) :
             (j > Len(Means) \/ Means[j] # "(") /\ \A k \in i..(j - 1) : Means[k] = "("

\* A statement writes if its verb does or, after a CTE, the verb that follows.
Writes(i) ==
  LET v == Verb(i)
  IN  /\ v <= Len(Means)
      /\ \/ Means[v] = "insert"
         \/ /\ Means[v] = "cte"
            /\ \E j \in (v + 1)..Len(Means) :
                 Means[j] = "insert" /\ \A k \in (v + 1)..(j - 1) : Means[k] \notin {"select", "(", ";"}

HasWrite == \E i \in DOMAIN Means : Begins(i) /\ Writes(i)

\* "any write/DDL makes the whole batch route as a write", wherever in the batch it
\* is, and nothing else does: verbs, quotes and semicolons in literals and comments
\* neither hide a write nor make one in the type that a query is routed by.
WritesAreFound == [][plan' # None => (is_write(plan'.type) <=> HasWrite)]_vars

\* The schema that a query means: that of its first qualified name, or else the
\* current one, as the client's own statements have set it.
MeantSchema ==
  LET named == SelectSeq(typed, LAMBDA u : u.schema # << >>)
  IN  IF named = << >> THEN truth.db ELSE Head(named).schema

\* Comments, double-quoted literals and quoted names are text like any other to
\* SchemaExtractor: it finds keywords in them, and takes a quote for a literal's.
Misread(u) ==
  /\ Head(u.text) \in {"--", "#", "/*", "dquote", "btick"}
  /\ ToSet(u.text) \intersect (Before \union {"quote"}) # {}

\* A query is routed by the schema it means, whatever string literals in single quotes
\* contain, unless a comment, a double-quoted literal or a quoted name in it contains a
\* single quote or one of the keywords that SchemaExtractor looks for.
SchemaFound ==
  [][plan' # None /\ (\A i \in DOMAIN typed : ~Misread(typed[i])) => plan'.schema = MeantSchema]_vars

\* The same without the exception.  SchemaExtractor does not give this.
SchemaAlwaysFound == [][plan' # None => plan'.schema = MeantSchema]_vars

\* The session knows whether its client has a transaction open, whether autocommit is
\* on and which database is current, whatever the statements in between, and also in
\* a session after one that USE without a name has ended.  It holds for the plain
\* spellings of these statements (see the sets of statements it is checked with).
SessionTracked == truth = [open |-> in_transaction_, auto |-> autocommit_, db |-> current_db_]
=============================================================================
