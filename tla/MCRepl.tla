------------------------------ MODULE MCRepl ------------------------------
(***************************************************************************)
(* Sessions of two statements, the first broken into lines at every set of *)
(* the places where a blank may stand, the second at none or all of them:  *)
(* the blank is then the end of a line, and the program puts a blank in    *)
(* its place. A session ends with the last line, with exit; or with a      *)
(* statement that ends the process.                                        *)
(***************************************************************************)
EXTENDS Repl, TLC, SequencesExt

MCkeywords ==
  (<<"DROP">> :> "DROP") @@ (<<"TABLE">> :> "TABLE") @@ (<<"DELETE">> :> "DELETE")
  @@ (<<"FROM">> :> "FROM") @@ (<<"CREATE">> :> "CREATE") @@ (<<"TEXT">> :> "TEXT")
  @@ (<<"INSERT">> :> "INSERT") @@ (<<"INTO">> :> "INTO") @@ (<<"VALUES">> :> "VALUES")
MCLetters ==
  {"DROP", "TABLE", "DELETE", "FROM", "CREATE", "TEXT", "INSERT", "INTO", "VALUES",
   "drop", "t", "exit"}
MCtoUpper ==
  [c \in MCLetters |-> CASE c = "drop" -> "DROP" [] c = "t" -> "T" [] c = "exit" -> "EXIT"
                         [] OTHER -> c]
MCNotNumbers == {<< >>, <<"t">>}

Meant(kind, columns) == [kind |-> kind, table |-> <<"t">>, columns |-> columns]

(* Statements as sequences of words, and what they say.                    *)
Statements == {
  [words |-> << <<"drop">>, <<"TABLE">>, <<"t">>, <<";">> >>, says |-> Meant("DROP_TABLE", 0)],
  [words |-> << <<"DELETE">>, <<"FROM">>, <<"t">>, <<";">> >>, says |-> Meant("DELETE", 0)],
  [words |-> << <<"CREATE">>, <<"TABLE">>, <<"t", "(", "t", " ", "TEXT">>, <<"(", "1", ")">>,
                <<")", ";">> >>, says |-> Meant("CREATE_TABLE", 1)],
  [words |-> << <<"DROP">>, <<"'", "t", "'">>, <<";">> >>, says |-> ParseError],
  [words |-> << <<";">> >>, says |-> ParseError] }

Exit == << <<"exit", ";">> >>

(* The words put together: a line ends behind each word of ends.           *)
Lines(words, ends) ==
  LET stops == SetToSortSeq(ends \cup {Len(words)}, <)
      From(i) == IF i = 1 THEN 1 ELSE stops[i - 1] + 1
      Text(i) == FoldLeft(LAMBDA text, w : IF text = << >> THEN w ELSE text \o <<" ">> \o w,
                          << >>, SubSeq(words, From(i), stops[i]))
  IN  [i \in DOMAIN stops |-> Text(i)]

Breaks(words) == {Lines(words, ends) : ends \in SUBSET (1..(Len(words) - 1))}

Whole(words)  == Lines(words, {})
Broken(words) == Lines(words, 1..(Len(words) - 1))

(* The length of its TEXT is no number: the process ends.                  *)
LastWords == << <<"CREATE", " ", "TABLE", " ", "t", "(", "t", " ", "TEXT", "(", "t">>, <<";">> >>

(* What stands behind the first statement on its last line, which may be a *)
(* statement, and what follows the second statement.                       *)
Endings ==
  { [rest |-> << >>, last |-> << >>],
    [rest |-> << >>, last |-> Exit],
    [rest |-> <<" ", "drop", " ", "TABLE", " ", "t", ";">>, last |-> LastWords \o Exit] }
WithRest(lines, rest) == [lines EXCEPT ![Len(lines)] = @ \o rest]

MCSessions ==
  UNION {{[lines |-> WithRest(a, e.rest) \o b \o e.last, statements |-> <<s.says, t.says>>] :
            a \in Breaks(s.words), b \in {Whole(t.words), Broken(t.words)}, e \in Endings} :
         s, t \in Statements}

WithComment ==
  {[lines |-> << <<"DROP", " ", "TABLE", " ", "t", " ", "-", "-", " ", "t">>, <<";">> >>,
    statements |-> <<Meant("DROP_TABLE", 0)>>]}
WithSemicolon ==
  {[lines |-> << <<"INSERT", " ", "INTO", " ", "t", " ", "VALUES", "(", "'", ";", "'", ")", ";">> >>,
    statements |-> <<Meant("INSERT", 1)>>]}
=============================================================================
