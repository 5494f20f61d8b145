-------------------------- MODULE QueryClassifier --------------------------
(***************************************************************************)
(* What routing reads out of a query's text: routing/src/query_classifier  *)
(* .cpp and schema_extractor.cpp.                                          *)
(*                                                                         *)
(* A text is a sequence of lexemes, the units the scanners tell apart: a   *)
(* word, a blank, a quote, a backslash, a comment's opening or closing     *)
(* mark, a bracket, a semicolon, a dot.  Case is left out.  A doubled      *)
(* quote closes a literal and opens it again, which comes to the same.     *)
(***************************************************************************)
EXTENDS Integers, Sequences, SequencesExt

\* A space or a tab, and a newline.
Blank == {" ", "\n"}
Quote == {"quote", "dquote", "btick"}
Mark == Blank \union Quote \union {"bslash", "--", "#", "/*", "*/", "(", ")", ";", ".", "="}

IsWord(c) == c \notin Mark

None == << >>

\* A scanner, one lexeme after the other (FoldLeft, without its sets of indices).
\* Eight lexemes at a time, each block from the value of the one before: the
\* evaluation is then not nested as deeply as the text is long.
Scan(Op(_, _), base, s) ==
  LET run(a, b) == LET upto[i \in 0..Len(b)] == IF i = 0 THEN a ELSE Op(upto[i - 1], b[i]) IN upto[Len(b)]
      block(j) == SubSeq(s, 8 * j - 7, Min({8 * j, Len(s)}))
      after[j \in 0..(Len(s) + 7) \div 8] ==
        IF j = 0 THEN base ELSE CHOOSE r \in {run(a, block(j)) : a \in {after[j - 1]}} : TRUE
  IN  after[(Len(s) + 7) \div 8]

-----------------------------------------------------------------------------
(* Literals: every scanner follows quotes in the same way.                 *)

Normal == [q |-> "", esc |-> FALSE]

Follow(m, c) ==
  CASE m.esc -> [m EXCEPT !.esc = FALSE]
    [] ~m.esc /\ m.q = "" -> IF c \in Quote THEN [m EXCEPT !.q = c] ELSE m
    [] ~m.esc /\ m.q # "" /\ c = "bslash" /\ m.q # "btick" -> [m EXCEPT !.esc = TRUE]
    [] ~m.esc /\ m.q # "" /\ c = m.q -> Normal
    [] OTHER -> m

\* One lexeme of strip_comments: a comment, with what ends it, becomes a blank.
\* (MySQL also wants a blank after --, and takes what is in /*! */ for SQL.)
Strip(a, c) ==
  CASE a.comment # "" -> [a EXCEPT !.comment = IF c = a.comment THEN "" ELSE @]
    [] a.comment = "" /\ a.m = Normal /\ c \in {"--", "#"} ->
         [a EXCEPT !.comment = "\n", !.out = Append(@, " ")]
    [] a.comment = "" /\ a.m = Normal /\ c = "/*" ->
         [a EXCEPT !.comment = "*/", !.out = Append(@, " ")]
    [] OTHER -> [a EXCEPT !.m = Follow(@, c), !.out = Append(@, c)]

strip_comments(s) == Scan(Strip, [m |-> Normal, comment |-> "", out |-> << >>], s).out

\* A statement is kept unless it is blank.
Push(out, s) == IF ToSet(s) \subseteq Blank THEN out ELSE Append(out, s)

\* Mutant: a semicolon ends a statement wherever it is.
SplitAnywhere(a, c) ==
  IF c = ";" THEN [m |-> Normal, cur |-> << >>, out |-> Push(a.out, a.cur)]
  ELSE [a EXCEPT !.m = Follow(@, c), !.cur = Append(@, c)]

Split(a, c) ==
  IF a.m = Normal /\ c = ";" THEN [a EXCEPT !.cur = << >>, !.out = Push(@, a.cur)]
  ELSE [a EXCEPT !.m = Follow(@, c), !.cur = Append(@, c)]

split_statements(s) ==
  LET a == Scan(Split, [m |-> Normal, cur |-> << >>, out |-> << >>], s) IN Push(a.out, a.cur)

-----------------------------------------------------------------------------
(* Statements                                                              *)

keyword_map(w) ==
  CASE w \in {"select", "show", "explain", "describe", "desc", "values", "table"} -> "SELECT"
    [] w \in {"insert", "replace", "load"} -> "INSERT"
    [] w = "update" -> "UPDATE"
    [] w = "delete" -> "DELETE"
    [] w \in {"create", "drop", "alter", "truncate", "rename", "analyze", "optimize", "check",
              "repair", "lock", "unlock", "grant", "revoke"} -> "DDL"
    [] w \in {"call", "do"} -> "CALL"
    [] w \in {"begin", "start"} -> "BEGIN"
    [] w = "commit" -> "COMMIT"
    [] w = "rollback" -> "ROLLBACK"
    [] w = "set" -> "SET"
    [] w = "use" -> "USE"
    [] OTHER -> "UNKNOWN"

is_write(t) == t \in {"INSERT", "UPDATE", "DELETE", "DDL", "CALL"}

\* The first lexeme that is neither blank nor an opening bracket, if that is a word.
first_keyword(s) ==
  LET rest == SelectSeq(s, LAMBDA c : c \notin Blank \union {"("})
  IN  IF rest # << >> /\ IsWord(Head(rest)) THEN Head(rest) ELSE ""

CteVerb(w) ==
  CASE w = "select" -> "SELECT"
    [] w \in {"insert", "replace"} -> "INSERT"
    [] w \in {"update", "merge"} -> "UPDATE"
    [] w = "delete" -> "DELETE"
    [] OTHER -> "UNKNOWN"

\* The scan stops at the first verb outside brackets.
Main(a, c) ==
  CASE a.type # "UNKNOWN" -> a
    [] a.type = "UNKNOWN" /\ a.m = Normal /\ c = "(" -> [a EXCEPT !.depth = @ + 1]
    [] a.type = "UNKNOWN" /\ a.m = Normal /\ c = ")" -> [a EXCEPT !.depth = IF @ > 0 THEN @ - 1 ELSE 0]
    [] a.type = "UNKNOWN" /\ a.m = Normal /\ a.depth = 0 /\ IsWord(c) -> [a EXCEPT !.type = CteVerb(c)]
    [] OTHER -> [a EXCEPT !.m = Follow(@, c)]

classify_cte(s) ==
  LET type == Scan(Main, [m |-> Normal, depth |-> 0, type |-> "UNKNOWN"], s).type
  IN  IF type = "UNKNOWN" THEN "SELECT" ELSE type

\* (The blanks and brackets before WITH are skipped.)
classify_one(s) ==
  LET w == first_keyword(s)
  IN  CASE w = "" -> "UNKNOWN"
        [] w = "with" -> classify_cte(SubSeq(s, SelectInSeq(s, LAMBDA c : c = "with"), Len(s)))
        [] OTHER -> keyword_map(w)

\* The types of the statements that are known, in order.
Known(s) ==
  LET stmts == split_statements(strip_comments(s))
  IN  SelectSeq([i \in DOMAIN stmts |-> classify_one(stmts[i])], LAMBDA t : t # "UNKNOWN")

First(types) == IF types = << >> THEN "UNKNOWN" ELSE Head(types)

\* The first write among the statements, or else the first type that is known.
classify(s) ==
  LET writes == SelectSeq(Known(s), is_write) IN First(IF writes = << >> THEN Known(s) ELSE writes)

-----------------------------------------------------------------------------
(* SchemaExtractor.  A name is a sequence of lexemes, empty if there is    *)
(* none; the scans return where they have got to.                          *)

Skip(s, i, these) ==
  CHOOSE j \in i..Max({i, Len(s) + 1}) :
    (j > Len(s) \/ s[j] \notin these) /\ \A k \in i..(j - 1) : s[k] \in these

SkipBlanks(s, i) == Skip(s, i, Blank)

RECURSIVE Quoted(_, _, _, _)
Quoted(s, i, q, name) ==
  CASE i > Len(s) -> [name |-> name, pos |-> i]
    [] i <= Len(s) /\ s[i] # q -> Quoted(s, i + 1, q, Append(name, s[i]))
    [] i < Len(s) /\ s[i] = q /\ s[i + 1] = q -> Quoted(s, i + 2, q, Append(name, q))
    [] OTHER -> [name |-> name, pos |-> i + 1]

read_ident(s, start) ==
  LET i == SkipBlanks(s, start)
  IN  CASE i > Len(s) -> [name |-> << >>, pos |-> i]
        [] i <= Len(s) /\ s[i] \in {"btick", "dquote"} -> Quoted(s, i + 1, s[i], << >>)
        [] i <= Len(s) /\ IsWord(s[i]) -> [name |-> <<s[i]>>, pos |-> i + 1]
        [] OTHER -> [name |-> << >>, pos |-> i]

read_qualified_schema(s, start) ==
  LET first == read_ident(s, start)
      i == SkipBlanks(s, first.pos)
      second == read_ident(s, i + 1)
  IN  CASE first.name = << >> \/ i > Len(s) -> [name |-> << >>, pos |-> first.pos]
        [] first.name # << >> /\ i <= Len(s) /\ s[i] # "." -> [name |-> << >>, pos |-> first.pos]
        [] OTHER -> [name |-> IF second.name = << >> THEN << >> ELSE first.name, pos |-> second.pos]

Before == {"from", "into", "update", "join", "table"}

\* Only single quotes are followed: the others may begin a name.  The loop goes
\* on at pos when a keyword was not followed by a qualified name.
Extracting(s, literals) ==
  LET at(a, i) ==
        CASE a.found # None \/ i < a.pos -> a
          [] a.found = None /\ i >= a.pos /\ (a.m # Normal \/ s[i] \in literals) ->
               [a EXCEPT !.m = Follow(@, s[i])]
          [] a.found = None /\ i >= a.pos /\ a.m = Normal /\ s[i] \in Before \ literals ->
               LET r == read_qualified_schema(s, i + 1) IN [a EXCEPT !.found = r.name, !.pos = r.pos]
          [] OTHER -> a
  IN  Scan(at, [m |-> Normal, pos |-> 1, found |-> None], [i \in DOMAIN s |-> i]).found

\* Mutant: string literals are not skipped.
ExtractInStrings(s) == Extracting(s, {})

extract(s) == Extracting(s, {"quote"})

extract_or(s, session_schema) == IF extract(s) = None THEN session_schema ELSE extract(s)
=============================================================================
