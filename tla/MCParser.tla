----------------------------- MODULE MCParser -----------------------------
(***************************************************************************)
(* Token sequences for Parser: the beginning of a statement of each kind,  *)
(* followed by every sequence of up to n tokens that matter to that kind,  *)
(* with a semicolon at the end or without. The expressions are the names   *)
(* and numbers, and in the sentences after WHERE everything.               *)
(***************************************************************************)
EXTENDS Parser

T(type) ==
  [type |-> type,
   value |-> CASE type = "IDENTIFIER"      -> <<"x">>
               [] type = "INTEGER_LITERAL" -> <<"1">>
               [] OTHER                    -> <<type>>]

Tokens(types) == [i \in DOMAIN types |-> T(types[i])]

Ends == { <<EndOfFile>>, <<T("SEMICOLON"), EndOfFile>> }
UpTo(n, types) == UNION {[1..k -> types] : k \in 0..n}
Sentences(beginning, n, types) ==
  {Tokens(beginning \o middle) \o end : middle \in UpTo(n, types), end \in Ends}

X == "IDENTIFIER"
N == "INTEGER_LITERAL"
LP == "LEFT_PAREN"
RP == "RIGHT_PAREN"

Selects == Sentences(<<"SELECT">>, 4, {"STAR", "FROM", "WHERE", "COMMA", X, "EQUAL", "DOT"})
Deletes == Sentences(<<"DELETE">>, 3, {"FROM", X, "WHERE"})
Wheres ==
  Sentences(<<"DELETE", "FROM", X, "WHERE">>, 4,
            {X, "NOT", "MINUS", LP, RP, "EQUAL", "IS", "DOT"})

(* Up to three operands, each with a sign or a parenthesis or without.     *)
Operands == { <<X>>, <<"NOT", X>>, <<"MINUS", X>>, <<LP, X>>, <<X, RP>> }
Between  == { <<"AND">>, <<"OR">>, <<"EQUAL">>, <<"IS">>, <<"IS", "NOT">>, <<"MINUS">>, <<"STAR">> }
Chains ==
  {Tokens(<<"DELETE", "FROM", X, "WHERE">> \o a \o f \o b \o g \o c \o <<"SEMICOLON">>)
     \o <<EndOfFile>> : a, b, c \in Operands, f, g \in Between}
Updates ==
  Sentences(<<"UPDATE", X, "SET">>, 5, {X, "EQUAL", "COMMA", "WHERE"})
Drops == Sentences(<<"DROP">>, 3, {"TABLE", X, N})

Inserts ==
  Sentences(<<"INSERT">>, 3, {"INTO", X, LP})
  \cup Sentences(<<"INSERT", "INTO", X>>, 4, {LP, RP, "COMMA", X, "VALUES"})
ValueLists ==
  Sentences(<<"INSERT", "INTO", X, "VALUES", LP>>, 4, {X, "COMMA", LP, RP, "FROM"})
ColumnLists ==
  {Tokens(<<"INSERT", "INTO", X, LP>> \o names \o <<RP, "VALUES", LP>> \o values \o <<RP>>)
     \o <<T("SEMICOLON"), EndOfFile>> :
     names \in { <<X>>, <<X, "COMMA", X>> }, values \in { <<N>>, <<N, "COMMA", N>> } }

Creates ==
  Sentences(<<"CREATE">>, 2, {"TABLE", "INDEX", X, LP})
  \cup Sentences(<<"CREATE", "INDEX", "ON">>, 3, {X, LP, RP})
  \cup Sentences(<<"CREATE", "INDEX", "ON", X, LP>>, 3, {X, LP, RP})
Columns ==
  Sentences(<<"CREATE", "TABLE", X, LP>>, 3, {X, "INTEGER", "TEXT", LP, N, RP, "NOT"})
Constraints ==
  Sentences(<<"CREATE", "TABLE", X, LP, X, "INTEGER">>, 4,
            {"PRIMARY", "KEY", "NOT", "TKNULL", "COMMA", RP})

(* create table, as it is typed: the word is the keyword, not its letters. *)
LowerCase ==
  { <<T("CREATE"), [type |-> "TABLE", value |-> <<"table">>], T(X), T(LP), T(X),
      T("INTEGER"), T(RP), T("SEMICOLON"), EndOfFile>> }

Others == Sentences(<< >>, 1, {"BEGIN", "UNKNOWN", "SELECT"})

All ==
  Selects \cup Deletes \cup Wheres \cup Chains \cup Updates \cup Drops \cup Inserts \cup ValueLists
  \cup ColumnLists \cup Creates \cup Columns \cup Constraints \cup LowerCase \cup Others

MCNotNumbers == {<< >>} \cup {T(t).value : t \in {X, LP, RP, "INTEGER", "TEXT", "NOT", "SEMICOLON"}}
=============================================================================
