------------------------------- MODULE Lexer -------------------------------
(***************************************************************************)
(* Lexer::tokenize (src/src/lexer/lexer.cpp and token.cpp): the text of a  *)
(* query becomes a sequence of tokens. The loop over the text is one step  *)
(* per iteration; the inner loop over a comment, which need not end, is    *)
(* one step per character.                                                 *)
(*                                                                         *)
(* A text is a sequence of characters. A token keeps the part of the text  *)
(* it was made from, from..to, in place of its value. Which letters there  *)
(* are and which words are keywords are parameters: a "letter" may stand   *)
(* for any run of letters.                                                 *)
(***************************************************************************)
EXTENDS Integers, Sequences, FiniteSets

CONSTANTS Texts,     \* the texts that may be tokenized
          Letters,   \* what isalpha accepts, and '_'
          toUpper,   \* function on Letters: the letter in upper case
          keywords,  \* function from words in upper case to token types
          INT_MAX,   \* the largest int
          INT64_MAX, \* the largest integer of 8 bytes
          FLT_MAX,   \* the largest float, rounded down to an integer
          FLT_ZEROS  \* zeros behind the point of a number too small for one

VARIABLES text, position, line, tokens, pc

vars == <<text, position, line, tokens, pc>>

TokenTypes ==
  {"SELECT", "FROM", "WHERE", "INSERT", "INTO", "VALUES", "UPDATE", "SET",
   "DELETE", "CREATE", "DROP", "PRIMARY", "KEY", "TABLE", "INDEX", "ON",
   "BEGIN", "COMMIT", "ROLLBACK", "AND", "OR", "NOT", "IS", "TKNULL", "TRUE",
   "FALSE", "INTEGER", "FLOAT", "TEXT", "BOOLEAN", "IDENTIFIER",
   "INTEGER_LITERAL", "FLOAT_LITERAL", "STRING_LITERAL", "EQUAL", "NOT_EQUAL",
   "LESS_THAN", "LESS_EQ", "GREATER_THAN", "GREATER_EQ", "PLUS", "MINUS",
   "STAR", "SLASH", "COMMA", "SEMICOLON", "LEFT_PAREN", "RIGHT_PAREN", "DOT",
   "END_OF_FILE", "UNKNOWN", "ERROR"}

DigitOrder == <<"0", "1", "2", "3", "4", "5", "6", "7", "8", "9">>
Digits     == {DigitOrder[i] : i \in DOMAIN DigitOrder}
WordChars  == Letters \cup Digits

(* Characters that are tokens of their own, and the pairs that are one.    *)
OneChar ==
  [c \in {"=", "!", "<", ">", "+", "-", "*", "/", ",", ";", ".", "(", ")"} |->
     CASE c = "=" -> "EQUAL"        [] c = "!" -> "UNKNOWN"
       [] c = "<" -> "LESS_THAN"    [] c = ">" -> "GREATER_THAN"
       [] c = "+" -> "PLUS"         [] c = "-" -> "MINUS"
       [] c = "*" -> "STAR"         [] c = "/" -> "SLASH"
       [] c = "," -> "COMMA"        [] c = ";" -> "SEMICOLON"
       [] c = "." -> "DOT"          [] c = "(" -> "LEFT_PAREN"
       [] c = ")" -> "RIGHT_PAREN" ]

TwoChars ==
  [pair \in { <<"!", "=">>, <<"<", "=">>, <<"<", ">">>, <<">", "=">> } |->
     CASE pair = <<"<", "=">> -> "LESS_EQ"
       [] pair = <<">", "=">> -> "GREATER_EQ"
       [] OTHER               -> "NOT_EQUAL" ]

ASSUME LettersAssumption ==
  /\ Letters \cap (Digits \cup DOMAIN OneChar \cup {"'", "\n", " ", "\\0"}) = {}
  /\ toUpper \in [Letters -> STRING]
  /\ \A word \in DOMAIN keywords :
       /\ keywords[word] \in TokenTypes \ {"ERROR", "END_OF_FILE"}
       /\ word \in Seq(STRING)
       /\ \A i \in DOMAIN word : word[i] \in Letters => toUpper[word[i]] = word[i]
  /\ INT_MAX \in Nat /\ INT64_MAX \in Nat /\ FLT_MAX \in Nat /\ FLT_ZEROS \in Nat
  /\ INT_MAX <= INT64_MAX /\ INT64_MAX <= FLT_MAX

(* The character '\0' ends the text for the lexer; texts hold none.        *)
ASSUME TextsAssumption == \A t \in Texts : t \in Seq(STRING \ {"\\0"})

-----------------------------------------------------------------------------
At(i) == IF i \in DOMAIN text THEN text[i] ELSE "\\0"
current == At(position)
peek    == At(position + 1)

(* Where the run of characters of S that begins at i ends.                 *)
EndOf(i, S) ==
  CHOOSE j \in i..(Len(text) + 1) :
    /\ j > Len(text) \/ text[j] \notin S
    /\ \A k \in i..(j - 1) : text[k] \in S

(* Digits with at most one dot among or behind them.                       *)
EndOfNumber(i) ==
  LET j == EndOf(i, Digits) IN IF At(j) = "." THEN EndOf(j + 1, Digits) ELSE j

(* The quote that closes the literal that opens at i, or the text's end.   *)
EndOfLiteral(i) ==
  CHOOSE j \in (i + 1)..(Len(text) + 1) :
    /\ j > Len(text) \/ text[j] = "'"
    /\ \A k \in (i + 1)..(j - 1) : text[k] # "'"

Lexeme(token) == SubSeq(text, token.from, token.to)

getTokenTypeAlpha(word) ==
  LET upper == [i \in DOMAIN word |-> IF word[i] \in Letters THEN toUpper[word[i]] ELSE word[i]]
  IN  IF upper \in DOMAIN keywords THEN keywords[upper] ELSE "IDENTIFIER"

(* The integer part of a numeral.                                          *)
Magnitude(numeral) ==
  LET value[i \in 0..Len(numeral)] ==
        IF i = 0 THEN 0
        ELSE IF numeral[i] = "." THEN value[i - 1]
        ELSE IF \E k \in 1..i : numeral[k] = "." THEN value[i - 1]
        ELSE 10 * value[i - 1] + (CHOOSE d \in 1..10 : DigitOrder[d] = numeral[i]) - 1
  IN  value[Len(numeral)]

isInt(numeral) ==
  /\ \A i \in DOMAIN numeral : numeral[i] # "."
  /\ Magnitude(numeral) <= INT_MAX

(* Not zero, but so small that the float would be: from_chars calls that   *)
(* out of range as well.                                                   *)
Underflows(numeral) ==
  /\ Magnitude(numeral) = 0
  /\ \E dot \in DOMAIN numeral :
       /\ numeral[dot] = "."
       /\ \E i \in DOMAIN numeral : i > dot /\ numeral[i] # "0"
       /\ \A i \in DOMAIN numeral : i \in (dot + 1)..(dot + FLT_ZEROS) => numeral[i] = "0"

isFloat(numeral) == Magnitude(numeral) <= FLT_MAX /\ ~ Underflows(numeral)

(* A whole number that is no int is a float; one that is no float either   *)
(* is no number.                                                           *)
getTokenTypeDigit(numeral) ==
  CASE isInt(numeral) -> "INTEGER_LITERAL"
    [] ~ isInt(numeral) /\ isFloat(numeral) -> "FLOAT_LITERAL"
    [] OTHER -> "UNKNOWN"

-----------------------------------------------------------------------------
Init ==
  /\ text \in Texts /\ position = 1 /\ line = 1 /\ tokens = << >>
  /\ pc = "scan"

Scanning(S) == pc = "scan" /\ current \in S

(* The token of the characters up to the one before next.                  *)
Emit(type, next) ==
  /\ tokens' = Append(tokens, [type |-> type, from |-> position, to |-> next - 1,
                               line |-> line])
  /\ position' = next
  /\ UNCHANGED <<text, line, pc>>

(* Mutant of Skip: continue instead of break.                              *)
SkipStandingStill ==
  /\ pc = "scan" /\ position <= Len(text)
  /\ current \notin WordChars \cup DOMAIN OneChar \cup {"\n", "'"}
  /\ UNCHANGED vars

(* Blanks, and without a word any character the switch does not know.      *)
Skip ==
  /\ pc = "scan" /\ position <= Len(text)
  /\ current \notin WordChars \cup DOMAIN OneChar \cup {"\n", "'"}
  /\ position' = position + 1
  /\ UNCHANGED <<text, line, tokens, pc>>

Newline ==
  /\ Scanning({"\n"})
  /\ position' = position + 1 /\ line' = line + 1
  /\ UNCHANGED <<text, tokens, pc>>

(* Mutants of Operator: the advance over the second character is made      *)
(* always; a token of one character continues the loop.                    *)
OperatorTwoSteps ==
  /\ Scanning(DOMAIN OneChar) /\ <<current, peek>> # <<"-", "-">>
  /\ Emit(IF <<current, peek>> \in DOMAIN TwoChars THEN TwoChars[<<current, peek>>]
          ELSE OneChar[current], position + 2)

OperatorContinue ==
  /\ Scanning(DOMAIN OneChar) /\ <<current, peek>> # <<"-", "-">>
  /\ IF <<current, peek>> \in DOMAIN TwoChars
     THEN Emit(TwoChars[<<current, peek>>], position + 2)
     ELSE Emit(OneChar[current], position)

Operator ==
  /\ Scanning(DOMAIN OneChar) /\ <<current, peek>> # <<"-", "-">>
  /\ IF <<current, peek>> \in DOMAIN TwoChars
     THEN Emit(TwoChars[<<current, peek>>], position + 2)
     ELSE Emit(OneChar[current], position + 1)

StartComment ==
  /\ Scanning({"-"}) /\ peek = "-"
  /\ pc' = "comment"
  /\ UNCHANGED <<text, position, line, tokens>>

(* Past the end of the text current() is '\0' for good: there the position *)
(* grows without end, and the model leaves it at the bound Len(text) + 1.  *)
CommentChar ==
  /\ pc = "comment" /\ current # "\n"
  /\ position' = IF position <= Len(text) THEN position + 1 ELSE position
  /\ UNCHANGED <<text, line, tokens, pc>>

(* Mutant of EndComment: the newline is passed over by the loop and again  *)
(* by the advance that ends the iteration.                                 *)
EndCommentTwice ==
  /\ pc = "comment" /\ current = "\n"
  /\ position' = IF position < Len(text) THEN position + 2 ELSE position + 1
  /\ pc' = "scan"
  /\ UNCHANGED <<text, line, tokens>>

(* The newline is passed over by the advance that ends the iteration.      *)
EndComment ==
  /\ pc = "comment" /\ current = "\n"
  /\ position' = position + 1 /\ pc' = "scan"
  /\ UNCHANGED <<text, line, tokens>>

(* A literal that is not closed takes the rest of the text with it.        *)
Literal ==
  /\ Scanning({"'"})
  /\ LET end == EndOfLiteral(position)
     IN  IF end > Len(text) THEN Emit("ERROR", end) ELSE Emit("STRING_LITERAL", end + 1)

Word ==
  /\ Scanning(Letters)
  /\ LET end == EndOf(position, WordChars)
     IN  Emit(getTokenTypeAlpha(SubSeq(text, position, end - 1)), end)

(* Mutant of Number: the digits after the dot are left to the next token.  *)
NumberToDot ==
  /\ Scanning(Digits)
  /\ LET end == EndOf(position, Digits)
     IN  Emit(getTokenTypeDigit(SubSeq(text, position, end - 1)), end)

Number ==
  /\ Scanning(Digits)
  /\ LET end == EndOfNumber(position)
     IN  Emit(getTokenTypeDigit(SubSeq(text, position, end - 1)), end)

(* The END_OF_FILE token stands for no character.                          *)
Finish ==
  /\ pc = "scan" /\ position > Len(text)
  /\ tokens' = Append(tokens, [type |-> "END_OF_FILE", from |-> Len(text) + 1,
                               to |-> Len(text), line |-> line])
  /\ pc' = "done"
  /\ UNCHANGED <<text, position, line>>

Step ==
  \/ Skip \/ Newline \/ Operator \/ StartComment \/ CommentChar \/ EndComment
  \/ Literal \/ Word \/ Number \/ Finish

(* The tokens are the caller's.                                            *)
Stop == pc = "done" /\ UNCHANGED vars

Next == Step \/ Stop

Spec == Init /\ [][Next]_vars

(* One thread that waits for nothing.                                      *)
FairSpec == Spec /\ WF_vars(Step)

-----------------------------------------------------------------------------
TypeOK ==
  /\ text \in Texts /\ line \in Nat \ {0} /\ position \in 1..(Len(text) + 1)
  /\ pc \in {"scan", "comment", "done"}
  /\ \A i \in DOMAIN tokens :
       /\ tokens[i].type \in TokenTypes /\ tokens[i].line \in 1..line
       /\ tokens[i].from \in 1..position /\ tokens[i].to \in 0..(position - 1)

InToken(k) == \E i \in DOMAIN tokens : tokens[i].from <= k /\ k <= tokens[i].to

(* A character outside the tokens in a comment that began before it.       *)
InComment(k) ==
  \E s \in 1..k :
    /\ At(s) = "-" /\ At(s + 1) = "-"
    /\ \A m \in s..k : ~ InToken(m)
    /\ \A m \in s..(k - 1) : text[m] # "\n"

(* The tokens stand for the text from left to right: no character is in    *)
(* two of them, and one that is in none is in a comment or is a newline, a *)
(* blank or a character that means nothing. The code keeps this by hand,   *)
(* with an advance() at the end of the loop that some cases pass by and    *)
(* others prepare for.                                                     *)
NothingIsLost ==
  /\ \A i, j \in DOMAIN tokens : i < j => tokens[i].to < tokens[j].from
  /\ \A k \in 1..(position - 1) :
       \/ InToken(k)
       \/ text[k] \notin WordChars \cup DOMAIN OneChar \cup {"'"}
       \/ InComment(k)

SameWord(v, w) ==
  /\ Len(v) = Len(w)
  /\ \A i \in DOMAIN v :
       v[i] = w[i] \/ (v[i] \in Letters /\ w[i] = toUpper[v[i]])

(* What the part from..to of the text is as a token of a type, and that    *)
(* the character after it could not have been part of it.                  *)
IsWord(type, from, to) ==
  /\ \A k \in from..to : text[k] \in WordChars
  /\ At(to + 1) \notin WordChars
  /\ \A w \in DOMAIN keywords : SameWord(SubSeq(text, from, to), w) => type = keywords[w]
  /\ type # "IDENTIFIER" =>
       \E w \in DOMAIN keywords : SameWord(SubSeq(text, from, to), w)

IsNumeral(type, from, to) ==
  LET dots == {k \in from..to : text[k] = "."}
  IN  /\ \A k \in from..to : text[k] \in Digits \cup {"."}
      /\ \A j, k \in dots : j = k
      /\ At(to + 1) \notin (IF dots = {} THEN Digits \cup {"."} ELSE Digits)
      /\ type = "INTEGER_LITERAL" => dots = {}

IsLiteral(type, from, to) ==
  LET quotes == {k \in (from + 1)..to : text[k] = "'"}
  IN  IF type = "ERROR" THEN to = Len(text) /\ quotes = {}
      ELSE type = "STRING_LITERAL" /\ quotes = {to}

IsOperator(type, from, to) ==
  \/ to = from + 1 /\ <<text[from], text[to]>> \in DOMAIN TwoChars
  \/ to = from /\ <<text[from], At(to + 1)>> \notin DOMAIN TwoChars

IsLexeme(type, from, to) ==
  IF type = "END_OF_FILE" THEN from > Len(text)
  ELSE CASE text[from] \in Letters -> IsWord(type, from, to)
         [] text[from] \in Digits  -> IsNumeral(type, from, to)
         [] text[from] = "'"       -> IsLiteral(type, from, to)
         [] OTHER                  -> IsOperator(type, from, to)

(* Each token is the longest one that begins where it begins, whatever     *)
(* stands before and behind it: <= is never < and =, 1.5 never 1 and .5,   *)
(* and a keyword is one in upper and lower case.                           *)
TokensAreLexemes ==
  \A i \in DOMAIN tokens : IsLexeme(tokens[i].type, tokens[i].from, tokens[i].to)

(* The step of an endless comment.                                         *)
RunsOff == pc = "comment" /\ position > Len(text)

(* Every step brings the end of the text closer, or finds the beginning or *)
(* the end of a comment or of the text, except in a comment that reaches   *)
(* the end of the text.                                                    *)
StepsAdvance == [][position < position' \/ pc # pc' \/ RunsOff]_vars

(* Whatever the text, tokenize comes to its end or to the end of the text  *)
(* inside a comment, where it stays: that main can hand over such a text   *)
(* and wait for ever is what PromptComesBack of module Repl says.          *)
TokenizeEnds == <>(pc = "done" \/ RunsOff)

-----------------------------------------------------------------------------
(* What tests and documents say, and the code does not.                    *)

(* A test: "line numbers are tracked". The line of a token is one more     *)
(* than the newlines before it; the parser reports it with its errors.     *)
LinesAreTracked ==
  \A i \in DOMAIN tokens : tokens[i].type # "END_OF_FILE" =>
    tokens[i].line =
      1 + Cardinality({k \in 1..(tokens[i].from - 1) : text[k] = "\n"})

(* README.md: an INTEGER has 8 bytes. A whole number of 8 bytes is read as *)
(* an integer literal.                                                     *)
IntegersAreIntegers ==
  \A i \in DOMAIN tokens :
    LET word == Lexeme(tokens[i])
    IN  /\ word # << >> /\ \A k \in DOMAIN word : word[k] \in Digits
        /\ Magnitude(word) <= INT64_MAX
        => tokens[i].type = "INTEGER_LITERAL"
=============================================================================
