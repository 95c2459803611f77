------------------------------- MODULE Repl -------------------------------
(***************************************************************************)
(* main (src/src/main.cpp): lines are read until one holds a semicolon,    *)
(* joined by spaces, cut at the first semicolon, and what comes before it  *)
(* goes through Lexer and Parser to execute. The statement handed to       *)
(* execute is an observation here, and that execute may end the process;   *)
(* Executor and Catalog model what it does.                                *)
(*                                                                         *)
(* A session is what is typed: its lines, and the statements they say, not *)
(* counting what stands behind a semicolon on its line, which is dropped.  *)
(* Text is as in Lexer: a "letter" may be a whole word.                    *)
(***************************************************************************)
EXTENDS Integers, Sequences, FiniteSets

CONSTANTS Sessions,   \* records [lines, statements]
          Letters, toUpper, keywords, INT_MAX, INT64_MAX,
          FLT_MAX, FLT_ZEROS,     \* of Lexer
          NotNumbers, MaxValues   \* of Parser

VARIABLES session,   \* the session
          read,      \* the number of its lines that have been read
          buffer,    \* the text that is kept from line to line
          pc,        \* prompt, lex, parse, exited, terminated or died
          answers,   \* the queries answered, with what execute was given
          query, position, line, lexed, lexerPc,  \* of Lexer
          parsed, p, parserPc                     \* of Parser

lexerVars  == <<query, position, line, lexed, lexerPc>>
parserVars == <<parsed, p, parserPc>>
vars == <<session, read, buffer, pc, answers, lexerVars, parserVars>>

L == INSTANCE Lexer WITH
       Texts <- {}, text <- query, tokens <- lexed, pc <- lexerPc
P == INSTANCE Parser WITH
       Inputs <- {}, tokens <- parsed, pc <- parserPc

(* As for the Lexer, no '\0' is typed.                                     *)
ASSUME SessionsAssumption ==
  \A s \in Sessions : s.lines \in Seq(Seq(STRING \ {"\\0"}))

(* True of any strings: the provers do not know that a literal is one.     *)
ASSUME LiteralsAssumption == L!TokenTypes \cup {" "} \subseteq STRING

ASSUME KeywordsAssumption ==
  /\ Letters \cap (L!Digits \cup DOMAIN L!OneChar \cup {"'", "\n", " ", "\\0"}) = {}
  /\ \A word \in DOMAIN keywords :
       keywords[word] \in L!TokenTypes \ {"ERROR", "END_OF_FILE", "SEMICOLON"}

-----------------------------------------------------------------------------
Holds(text, c)  == \E i \in DOMAIN text : text[i] = c
FirstSemi(text) ==
  CHOOSE i \in DOMAIN text : text[i] = ";" /\ \A j \in 1..(i - 1) : text[j] # ";"

(* Mutant of Join: the lines are put together with nothing in between.     *)
JoinTight(text, next) == text \o next
Join(text, next) == IF text = << >> THEN next ELSE text \o <<" ">> \o next

Token(t) ==
  [type |-> t.type,
   value |-> CASE t.type = "END_OF_FILE" -> << >>
               [] t.type = "STRING_LITERAL" -> SubSeq(query, t.from + 1, t.to - 1)
               [] OTHER -> SubSeq(query, t.from, t.to)]

-----------------------------------------------------------------------------
Init ==
  /\ session \in Sessions /\ read = 0 /\ buffer = << >> /\ pc = "prompt"
  /\ answers = << >>
  /\ query = << >> /\ position = 1 /\ line = 1 /\ lexed = << >> /\ lexerPc = "done"
  /\ parsed = <<P!EndOfFile>> /\ p = P!NoResult /\ parserPc = "done"

NextLine == Join(buffer, session.lines[read + 1])

ReadLine ==
  /\ pc = "prompt" /\ read < Len(session.lines)
  /\ read' = read + 1
  /\ UNCHANGED <<session, answers, parserVars>>

(* No semicolon yet: the prompt is "...".                                  *)
KeepReading ==
  /\ ReadLine /\ ~ Holds(NextLine, ";")
  /\ buffer' = NextLine
  /\ UNCHANGED <<pc, lexerVars>>

(* Mutant of ReadQuery: what stands behind the semicolon stays.            *)
ReadQueryKeepingRest ==
  /\ ReadLine /\ Holds(NextLine, ";")
  /\ LET text == SubSeq(NextLine, 1, FirstSemi(NextLine))
     IN  /\ text # <<"exit", ";">>
         /\ query' = text
  /\ buffer' = SubSeq(NextLine, FirstSemi(NextLine), Len(NextLine))
  /\ position' = 1 /\ line' = 1 /\ lexed' = << >> /\ lexerPc' = "scan"
  /\ pc' = "lex"

(* Mutant of ReadQuery: the query is not cut.                              *)
ReadQueryUncut ==
  /\ ReadLine /\ Holds(NextLine, ";")
  /\ NextLine # <<"exit", ";">> /\ query' = NextLine
  /\ buffer' = << >>
  /\ position' = 1 /\ line' = 1 /\ lexed' = << >> /\ lexerPc' = "scan"
  /\ pc' = "lex"

(* The rest of the line is dropped.                                        *)
ReadQuery ==
  /\ ReadLine /\ Holds(NextLine, ";")
  /\ LET text == SubSeq(NextLine, 1, FirstSemi(NextLine))
     IN  /\ text # <<"exit", ";">>
         /\ query' = text
  /\ buffer' = << >>
  /\ position' = 1 /\ line' = 1 /\ lexed' = << >> /\ lexerPc' = "scan"
  /\ pc' = "lex"

ReadExit ==
  /\ ReadLine /\ Holds(NextLine, ";")
  /\ SubSeq(NextLine, 1, FirstSemi(NextLine)) = <<"exit", ";">>
  /\ buffer' = << >> /\ pc' = "exited"
  /\ UNCHANGED lexerVars

EndOfInput ==
  /\ pc = "prompt" /\ read = Len(session.lines)
  /\ pc' = "exited"
  /\ UNCHANGED <<session, read, buffer, answers, lexerVars, parserVars>>

Tokenize ==
  /\ pc = "lex" /\ L!Step
  /\ UNCHANGED <<session, read, buffer, pc, answers, parserVars>>

StartParse ==
  /\ pc = "lex" /\ lexerPc = "done"
  /\ parsed' = [i \in DOMAIN lexed |-> Token(lexed[i])]
  /\ p' = P!NoResult /\ parserPc' = "parse" /\ pc' = "parse"
  /\ UNCHANGED <<session, read, buffer, answers, lexerVars>>

Parse ==
  /\ pc = "parse" /\ P!Step
  /\ UNCHANGED <<session, read, buffer, pc, answers, lexerVars>>

Statement ==
  [kind |-> p.kind, table |-> p.tableName, columns |-> Len(p.columnDefinitions)]
ParseError == [kind |-> "PARSE_ERROR", table |-> << >>, columns |-> 0]

(* A parse error is printed; a statement is executed and its result        *)
(* printed. Then it is the turn of the next line.                          *)
Answer ==
  /\ pc = "parse" /\ parserPc = "done"
  /\ answers' = Append(answers, IF p.error THEN ParseError ELSE Statement)
  /\ pc' = "prompt"
  /\ UNCHANGED <<session, read, buffer, lexerVars, parserVars>>

(* Nothing in main catches what execute throws, and a signal ends it too.  *)
ExecuteDies ==
  /\ pc = "parse" /\ parserPc = "done" /\ ~ p.error
  /\ answers' = Append(answers, Statement)
  /\ pc' = "died"
  /\ UNCHANGED <<session, read, buffer, lexerVars, parserVars>>

Terminate ==
  /\ pc = "parse" /\ parserPc \in {"outOfMemory", "terminated"}
  /\ pc' = "terminated"
  /\ UNCHANGED <<session, read, buffer, answers, lexerVars, parserVars>>

Step ==
  \/ KeepReading \/ ReadQuery \/ ReadExit \/ EndOfInput
  \/ Tokenize \/ StartParse \/ Parse \/ Answer \/ ExecuteDies \/ Terminate

Stop == pc \in {"exited", "terminated", "died"} /\ UNCHANGED vars

Next == Step \/ Stop

Spec == Init /\ [][Next]_vars

(* One thread; a line that is typed is there to be read.                   *)
FairSpec == Spec /\ WF_vars(Step)

-----------------------------------------------------------------------------
TypeOK ==
  /\ read \in 0..Len(session.lines)
  /\ pc \in {"prompt", "lex", "parse", "exited", "terminated", "died"}
  /\ ~ Holds(buffer, ";")
  /\ pc = "lex" => Holds(query, ";") /\ lexerPc \in {"scan", "comment", "done"}
  /\ pc = "parse" => lexerPc = "done"
  /\ Len(answers) <= read

(* What main and the Lexer leave is what the Parser takes for granted, and *)
(* nothing checks: the tokens end by END_OF_FILE, at which its cursor      *)
(* stays, and none but that follows a semicolon, behind which a finished   *)
(* statement does not look. That the query is cut is not enough: its       *)
(* semicolon may be made part of a literal or be lost in a comment, and no *)
(* other character and no keyword may come out as one.                     *)
ParserIsGivenInputs == pc = "parse" => P!IsInput(parsed)

(* What comes to execute, across all three components, is what the session *)
(* says, statement by statement and in its order, in whichever way it is   *)
(* broken into lines: no line's end is lost between two words, nothing is  *)
(* left over of one statement for the next, or of what stands behind it on *)
(* its line, be it a statement (main drops it), and the parser is handed   *)
(* the tokens of this query.                                               *)
AnswersAreTheStatements ==
  /\ Len(answers) <= Len(session.statements)
  /\ \A i \in DOMAIN answers : answers[i] = session.statements[i]

(* A session of statements that lexing and parsing are known to come to an *)
(* end of (not a comment on the last line, VALUES without an expression or *)
(* PRIMARY without KEY) comes to its end, by exit, with the last line, or  *)
(* in a parse that ends the process, and then each of its statements has   *)
(* been answered, unless execute has ended the process before: no lexing,  *)
(* parsing or waiting for a semicolon holds up what was typed.             *)
AllAreAnswered ==
  <>(\/ pc \in {"exited", "terminated"} /\ answers = session.statements
     \/ pc = "died")

-----------------------------------------------------------------------------
(* What tests say, and the program does not.                               *)

(* A test: "inline comment is ignored". The prompt comes back.             *)
PromptComesBack == pc = "lex" ~> pc # "lex"

(* A test selects by a string literal. A literal that is closed is read as *)
(* a literal, whatever characters it holds.                                *)
LiteralsAreRead ==
  (\A i \in DOMAIN session.lines :
     Cardinality({k \in DOMAIN session.lines[i] : session.lines[i][k] = "'"}) % 2 = 0)
  => \A i \in DOMAIN lexed : lexed[i].type # "ERROR"
=============================================================================
