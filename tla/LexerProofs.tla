---------------------------- MODULE LexerProofs ----------------------------
(***************************************************************************)
(* For every alphabet, every table of keywords and every text without a    *)
(* '\0': the tokens cover the text, each is the longest at its place, and  *)
(* every iteration of tokenize advances.                                   *)
(***************************************************************************)
EXTENDS Lexer, TLAPS, WellFoundedInduction

Token == [type : TokenTypes, from : Nat \ {0}, to : Nat, line : Nat \ {0}]

(* The tokens stand behind the position, from left to right.               *)
TypeInv ==
  /\ text \in Texts /\ line \in Nat \ {0} /\ position \in 1..(Len(text) + 1)
  /\ pc \in {"scan", "comment", "done"}
  /\ tokens \in Seq(Token)
  /\ \A i \in DOMAIN tokens :
       tokens[i].from <= position /\ tokens[i].to < position /\ tokens[i].line <= line

(* A comment began behind the last token and has met no newline.           *)
CommentInv ==
  pc = "comment" =>
    \E s \in 1..position :
      /\ At(s) = "-" /\ At(s + 1) = "-"
      /\ \A m \in s..(position - 1) : text[m] # "\n"
      /\ \A i \in DOMAIN tokens : tokens[i].to < s

LexInv == TypeInv /\ CommentInv /\ NothingIsLost /\ TokensAreLexemes

-----------------------------------------------------------------------------
(* Where runs of characters end.                                           *)

LEMMA Least ==
  ASSUME NEW T, T \subseteq Nat, T # {}
  PROVE  \E x \in T : \A y \in T : x <= y
<1>1. PICK x \in T : \A y \in T : ~ (<<y, x>> \in OpToRel(<, Nat))
  BY NatLessThanWellFounded, WFMin
<1>2. ASSUME NEW y \in T
      PROVE  x <= y
  <2>1. x \in Nat /\ y \in Nat
    OBVIOUS
  <2>2. ~ (y < x)
    BY <1>1, <2>1 DEF OpToRel
  <2> QED
    BY <2>1, <2>2
<1> QED
  BY <1>2

LEMMA TextIs ==
  ASSUME NEW t \in Texts
  PROVE  /\ Len(t) \in Nat /\ DOMAIN t = 1..Len(t)
         /\ \A i \in 1..Len(t) : t[i] \in STRING /\ t[i] # "\\0"
<1>1. t \in Seq(STRING \ {"\\0"})
  BY TextsAssumption
<1> QED
  BY <1>1

LEMMA EndExists ==
  ASSUME NEW t \in Texts, NEW i \in 1..(Len(t) + 1), NEW S
  PROVE  \E j \in i..(Len(t) + 1) :
           /\ j > Len(t) \/ t[j] \notin S
           /\ \A k \in i..(j - 1) : t[k] \in S
<1> DEFINE T == {j \in i..(Len(t) + 1) : j > Len(t) \/ t[j] \notin S}
<1>1. Len(t) \in Nat
  BY TextIs
<1>2. Len(t) + 1 \in T /\ T \subseteq Nat
  BY <1>1
<1>3. PICK j \in T : \A y \in T : j <= y
  BY <1>2, Least
<1>4. ASSUME NEW k \in i..(j - 1)
      PROVE  t[k] \in S
  <2>1. k < j /\ k \in i..(Len(t) + 1) /\ j \in Nat /\ k \in Nat
    BY <1>1
  <2>2. k \notin T
    BY <1>3, <2>1
  <2> QED
    BY <2>1, <2>2
<1> QED
  BY <1>4

LEMMA EndOfDef ==
  ASSUME text \in Texts, NEW i \in 1..(Len(text) + 1), NEW S
  PROVE  /\ EndOf(i, S) \in i..(Len(text) + 1)
         /\ EndOf(i, S) > Len(text) \/ text[EndOf(i, S)] \notin S
         /\ \A k \in i..(EndOf(i, S) - 1) : text[k] \in S
<1>1. \E j \in i..(Len(text) + 1) :
        /\ j > Len(text) \/ text[j] \notin S
        /\ \A k \in i..(j - 1) : text[k] \in S
  BY EndExists
<1> QED
  BY <1>1 DEF EndOf

LEMMA EndOfLiteralDef ==
  ASSUME text \in Texts, NEW i \in 1..Len(text)
  PROVE  /\ EndOfLiteral(i) \in (i + 1)..(Len(text) + 1)
         /\ EndOfLiteral(i) > Len(text) \/ text[EndOfLiteral(i)] = "'"
         /\ \A k \in (i + 1)..(EndOfLiteral(i) - 1) : text[k] # "'"
<1> DEFINE S == STRING \ {"'"}
<1>1. Len(text) \in Nat /\ \A k \in 1..Len(text) : text[k] \in STRING
  BY TextIs
<1>2. i + 1 \in 1..(Len(text) + 1)
  BY <1>1
<1>3. PICK j \in (i + 1)..(Len(text) + 1) :
        /\ j > Len(text) \/ text[j] \notin S
        /\ \A k \in (i + 1)..(j - 1) : text[k] \in S
  BY <1>2, EndExists
<1>4. j > Len(text) \/ text[j] = "'"
  BY <1>1, <1>3
<1>5. \A k \in (i + 1)..(j - 1) : text[k] # "'"
  BY <1>3
<1>6. \E e \in (i + 1)..(Len(text) + 1) :
        /\ e > Len(text) \/ text[e] = "'"
        /\ \A k \in (i + 1)..(e - 1) : text[k] # "'"
  BY <1>4, <1>5
<1> QED
  BY <1>6 DEF EndOfLiteral

LEMMA AtDef ==
  ASSUME text \in Texts, NEW i \in Nat
  PROVE  /\ i \in 1..Len(text) => At(i) = text[i]
         /\ i \notin 1..Len(text) => At(i) = "\\0"
         /\ At(i) # "\\0" => i \in 1..Len(text)
BY TextIs DEF At

(* The characters that the switch tells apart.                             *)
LEMMA Characters ==
  /\ "\\0" \notin WordChars /\ "\\0" \notin DOMAIN OneChar
  /\ \A c \in Letters : c \notin Digits
  /\ \A c \in DOMAIN OneChar : c \notin Letters /\ c \notin Digits /\ c # "'"
  /\ "'" \notin Letters /\ "'" \notin Digits
  /\ "\n" \notin WordChars \cup DOMAIN OneChar \cup {"'"}
  /\ "." \notin Digits
<1>1. Digits = {"0", "1", "2", "3", "4", "5", "6", "7", "8", "9"}
  BY DEF Digits, DigitOrder
<1>2. DOMAIN OneChar = {"=", "!", "<", ">", "+", "-", "*", "/", ",", ";", ".", "(", ")"}
  BY DEF OneChar
<1>3. Letters \cap (Digits \cup DOMAIN OneChar \cup {"'", "\n", " ", "\\0"}) = {}
  BY LettersAssumption
<1> HIDE DEF Digits, OneChar
<1>4. "\\0" \notin WordChars /\ "\\0" \notin DOMAIN OneChar
  BY <1>1, <1>2, <1>3 DEF WordChars
<1>5. \A c \in Letters : c \notin Digits
  BY <1>3
<1>6. \A c \in DOMAIN OneChar : c \notin Letters /\ c \notin Digits /\ c # "'"
  BY <1>1, <1>2, <1>3
<1>7. "'" \notin Letters /\ "'" \notin Digits
  BY <1>1, <1>3
<1>8. "\n" \notin WordChars \cup DOMAIN OneChar \cup {"'"}
  BY <1>1, <1>2, <1>3 DEF WordChars
<1>9. "." \notin Digits
  BY <1>1
<1> QED
  BY <1>4, <1>5, <1>6, <1>7, <1>8, <1>9

LEMMA OperatorTypes ==
  /\ \A c \in DOMAIN OneChar : OneChar[c] \in TokenTypes /\ OneChar[c] # "END_OF_FILE"
  /\ \A pair \in DOMAIN TwoChars :
       /\ TwoChars[pair] \in TokenTypes /\ TwoChars[pair] # "END_OF_FILE"
       /\ pair[2] # "\\0"
<1>1. ASSUME NEW c \in DOMAIN OneChar
      PROVE  OneChar[c] \in TokenTypes /\ OneChar[c] # "END_OF_FILE"
  <2>1. c \in {"=", "!", "<", ">", "+", "-", "*", "/", ",", ";", ".", "(", ")"}
    BY DEF OneChar
  <2>2. OneChar[c] \in {"EQUAL", "UNKNOWN", "LESS_THAN", "GREATER_THAN", "PLUS", "MINUS",
                        "STAR", "SLASH", "COMMA", "SEMICOLON", "DOT", "LEFT_PAREN",
                        "RIGHT_PAREN"}
    BY <2>1, Zenon DEF OneChar
  <2> QED
    BY <2>2 DEF TokenTypes
<1>2. ASSUME NEW pair \in DOMAIN TwoChars
      PROVE  /\ TwoChars[pair] \in TokenTypes /\ TwoChars[pair] # "END_OF_FILE"
             /\ pair[2] # "\\0"
  <2>1. pair \in { <<"!", "=">>, <<"<", "=">>, <<"<", ">">>, <<">", "=">> }
    BY DEF TwoChars
  <2>2. pair[2] = "=" \/ pair[2] = ">"
    BY <2>1
  <2>3. TwoChars[pair] \in {"LESS_EQ", "GREATER_EQ", "NOT_EQUAL"}
    BY <2>1 DEF TwoChars
  <2> QED
    BY <2>2, <2>3 DEF TokenTypes
<1> QED
  BY <1>1, <1>2

-----------------------------------------------------------------------------
(* Each case of the switch that makes a token makes the longest one there  *)
(* is, and at least one character long.                                    *)

Emits ==
  \E type \in TokenTypes : \E next \in (position + 1)..(Len(text) + 1) :
    Emit(type, next) /\ IsLexeme(type, position, next - 1)

LEMMA PlaceFacts ==
  ASSUME TypeInv
  PROVE  /\ text \in Texts /\ Len(text) \in Nat /\ DOMAIN text = 1..Len(text)
         /\ position \in Nat \ {0} /\ position + 1 \in Nat
         /\ current # "\\0" => position \in 1..Len(text) /\ text[position] = current
         /\ peek # "\\0" => position + 1 \in 1..Len(text) /\ text[position + 1] = peek
BY TextIs, AtDef DEF TypeInv, current, peek

LEMMA OperatorEmits ==
  ASSUME TypeInv, Operator
  PROVE  Emits
<1>1. /\ text \in Texts /\ Len(text) \in Nat /\ position \in Nat \ {0}
      /\ current # "\\0" => position \in 1..Len(text) /\ text[position] = current
      /\ peek # "\\0" => position + 1 \in 1..Len(text) /\ text[position + 1] = peek
  BY PlaceFacts
<1>2. current \in DOMAIN OneChar
  BY DEF Operator, Scanning
<1>3. position \in 1..Len(text) /\ text[position] = current
  BY <1>1, <1>2, Characters
<1>4. current \notin Letters /\ current \notin Digits /\ current # "'"
  BY <1>2, Characters
<1>5. CASE <<current, peek>> \in DOMAIN TwoChars
  <2>1. PICK pair \in DOMAIN TwoChars : pair = <<current, peek>>
    BY <1>5
  <2>2. peek # "\\0" /\ TwoChars[pair] \in TokenTypes /\ TwoChars[pair] # "END_OF_FILE"
    BY <2>1, OperatorTypes
  <2>3. position + 1 \in 1..Len(text) /\ text[position + 1] = peek
    BY <1>1, <2>2
  <2>4. PICK next : next = position + 2
    OBVIOUS
  <2>5. next \in (position + 1)..(Len(text) + 1) /\ next - 1 = position + 1
    BY <1>1, <2>3, <2>4
  <2>6. Emit(TwoChars[pair], next)
    BY <1>5, <2>1, <2>4 DEF Operator
  <2>7. IsOperator(TwoChars[pair], position, next - 1)
    BY <1>3, <1>5, <2>3, <2>5 DEF IsOperator
  <2>8. IsLexeme(TwoChars[pair], position, next - 1)
    BY <1>3, <1>4, <2>2, <2>7 DEF IsLexeme
  <2> QED
    BY <2>2, <2>5, <2>6, <2>8 DEF Emits
<1>6. CASE <<current, peek>> \notin DOMAIN TwoChars
  <2>1. OneChar[current] \in TokenTypes /\ OneChar[current] # "END_OF_FILE"
    BY <1>2, OperatorTypes
  <2>2. PICK next : next = position + 1
    OBVIOUS
  <2>3. next \in (position + 1)..(Len(text) + 1) /\ next - 1 = position
    BY <1>1, <1>3, <2>2
  <2>4. Emit(OneChar[current], next)
    BY <1>6, <2>2 DEF Operator
  <2>5. At(position + 1) = peek
    BY DEF peek
  <2>6. IsOperator(OneChar[current], position, next - 1)
    BY <1>3, <1>6, <2>3, <2>5 DEF IsOperator
  <2>7. IsLexeme(OneChar[current], position, next - 1)
    BY <1>3, <1>4, <2>1, <2>6 DEF IsLexeme
  <2> QED
    BY <2>1, <2>3, <2>4, <2>7 DEF Emits
<1> QED
  BY <1>5, <1>6

LEMMA LiteralEmits ==
  ASSUME TypeInv, Literal
  PROVE  Emits
<1>1. /\ text \in Texts /\ Len(text) \in Nat /\ position \in Nat \ {0}
      /\ current # "\\0" => position \in 1..Len(text) /\ text[position] = current
  BY PlaceFacts
<1>2. current = "'"
  BY DEF Literal, Scanning
<1>3. position \in 1..Len(text) /\ text[position] = "'"
  BY <1>1, <1>2
<1>4. text[position] \notin Letters /\ text[position] \notin Digits
  BY <1>3, Characters
<1>5. PICK end : end = EndOfLiteral(position)
  OBVIOUS
<1>6. /\ end \in (position + 1)..(Len(text) + 1)
      /\ end > Len(text) \/ text[end] = "'"
      /\ \A k \in (position + 1)..(end - 1) : text[k] # "'"
  BY <1>1, <1>3, <1>5, EndOfLiteralDef
<1>7. CASE end > Len(text)
  <2>1. Emit("ERROR", end)
    BY <1>5, <1>7 DEF Literal
  <2>2. end - 1 = Len(text)
    BY <1>1, <1>6, <1>7
  <2>3. IsLiteral("ERROR", position, end - 1)
    BY <1>6, <2>2 DEF IsLiteral
  <2>4. IsLexeme("ERROR", position, end - 1)
    BY <1>3, <1>4, <2>3 DEF IsLexeme
  <2>5. "ERROR" \in TokenTypes
    BY DEF TokenTypes
  <2> QED
    BY <1>6, <2>1, <2>4, <2>5 DEF Emits
<1>8. CASE ~ (end > Len(text))
  <2>1. Emit("STRING_LITERAL", end + 1)
    BY <1>5, <1>8 DEF Literal
  <2>2. end \in Nat /\ end + 1 \in (position + 1)..(Len(text) + 1) /\ (end + 1) - 1 = end
    BY <1>1, <1>6, <1>8
  <2>3. \A k \in (position + 1)..end : text[k] = "'" <=> k = end
    BY <1>1, <1>6, <1>8, <2>2
  <2>4. end \in (position + 1)..end
    BY <1>1, <1>6, <2>2
  <2>5. {k \in (position + 1)..end : text[k] = "'"} = {end}
    BY <2>3, <2>4
  <2>6. IsLiteral("STRING_LITERAL", position, end)
    BY <2>5 DEF IsLiteral
  <2>7. IsLexeme("STRING_LITERAL", position, end)
    BY <1>3, <1>4, <2>6 DEF IsLexeme
  <2>8. "STRING_LITERAL" \in TokenTypes
    BY DEF TokenTypes
  <2> QED
    BY <2>1, <2>2, <2>7, <2>8 DEF Emits
<1> QED
  BY <1>7, <1>8

(* A word is a keyword if its letters in upper case are one.               *)
LEMMA WordTypes ==
  ASSUME NEW word \in Seq(STRING)
  PROVE  /\ getTokenTypeAlpha(word) \in TokenTypes \ {"ERROR", "END_OF_FILE"}
         /\ \A w \in DOMAIN keywords :
              SameWord(word, w) => getTokenTypeAlpha(word) = keywords[w]
         /\ getTokenTypeAlpha(word) # "IDENTIFIER" =>
              \E w \in DOMAIN keywords : SameWord(word, w)
<1> DEFINE up(c) == IF c \in Letters THEN toUpper[c] ELSE c
           upper == [i \in DOMAIN word |-> up(word[i])]
<1>1. getTokenTypeAlpha(word) = IF upper \in DOMAIN keywords THEN keywords[upper]
                                ELSE "IDENTIFIER"
  BY DEF getTokenTypeAlpha
<1>2. DOMAIN word = 1..Len(word) /\ Len(word) \in Nat
  OBVIOUS
<1>3. upper \in Seq(STRING) /\ Len(upper) = Len(word)
  <2>1. \A i \in DOMAIN word : up(word[i]) \in STRING
    <3>1. \A c \in STRING : up(c) \in STRING
      BY LettersAssumption
    <3>2. \A i \in DOMAIN word : word[i] \in STRING
      OBVIOUS
    <3> QED
      BY <3>1, <3>2
  <2>2. upper \in [1..Len(word) -> STRING]
    BY <1>2, <2>1
  <2> HIDE DEF upper
  <2> QED
    BY <1>2, <2>2
<1>4. ASSUME NEW w \in DOMAIN keywords, SameWord(word, w)
      PROVE  w = upper
  <2>1. /\ w \in Seq(STRING) /\ Len(w) = Len(word)
        /\ \A i \in DOMAIN w : w[i] \in Letters => toUpper[w[i]] = w[i]
        /\ \A i \in DOMAIN word :
             word[i] = w[i] \/ (word[i] \in Letters /\ w[i] = toUpper[word[i]])
    BY <1>4, LettersAssumption DEF SameWord
  <2>2. DOMAIN w = DOMAIN word
    BY <1>2, <2>1
  <2>3. ASSUME NEW i \in DOMAIN word
        PROVE  w[i] = upper[i]
    BY <2>1, <2>2
  <2>4. w = [i \in DOMAIN word |-> w[i]]
    BY <2>1, <2>2
  <2> QED
    BY <2>3, <2>4
<1>5. ASSUME upper \in DOMAIN keywords
      PROVE  SameWord(word, upper)
  BY <1>3 DEF SameWord
<1>6. getTokenTypeAlpha(word) \in TokenTypes \ {"ERROR", "END_OF_FILE"}
  <2>1. "IDENTIFIER" \in TokenTypes
    BY DEF TokenTypes
  <2> HIDE DEF upper
  <2> QED
    BY <1>1, <2>1, LettersAssumption
<1> HIDE DEF upper
<1>7. \A w \in DOMAIN keywords : SameWord(word, w) => getTokenTypeAlpha(word) = keywords[w]
  BY <1>1, <1>4
<1>8. getTokenTypeAlpha(word) # "IDENTIFIER" => \E w \in DOMAIN keywords : SameWord(word, w)
  BY <1>1, <1>5
<1> QED
  BY <1>6, <1>7, <1>8

LEMMA WordEmits ==
  ASSUME TypeInv, Word
  PROVE  Emits
<1>1. /\ text \in Texts /\ Len(text) \in Nat /\ position \in Nat \ {0}
      /\ current # "\\0" => position \in 1..Len(text) /\ text[position] = current
  BY PlaceFacts
<1>2. current \in Letters
  BY DEF Word, Scanning
<1>3. current \in WordChars
  BY <1>2 DEF WordChars
<1>4. position \in 1..Len(text) /\ text[position] = current
  BY <1>1, <1>3, Characters
<1>5. PICK end : end = EndOf(position, WordChars)
  OBVIOUS
<1>6. /\ end \in position..(Len(text) + 1)
      /\ end > Len(text) \/ text[end] \notin WordChars
      /\ \A k \in position..(end - 1) : text[k] \in WordChars
  BY <1>1, <1>4, <1>5, EndOfDef
<1>7. end # position
  BY <1>1, <1>3, <1>4, <1>6
<1>8. end \in (position + 1)..(Len(text) + 1) /\ end \in Nat /\ (end - 1) + 1 = end
  BY <1>1, <1>6, <1>7
<1>9. PICK word : word = SubSeq(text, position, end - 1)
  OBVIOUS
<1>10. word \in Seq(STRING)
  <2>1. text \in Seq(STRING)
    BY <1>1, TextsAssumption
  <2>2. \A k \in position..(end - 1) : k \in 1..Len(text)
    BY <1>1, <1>8
  <2> QED
    BY <1>1, <1>8, <1>9, <2>1, <2>2
<1>11. PICK type : type = getTokenTypeAlpha(word)
  OBVIOUS
<1>12. Emit(type, end)
  BY <1>5, <1>9, <1>11 DEF Word
<1>13. At(end) \notin WordChars
  BY <1>1, <1>6, <1>8, AtDef, Characters
<1>14. IsWord(type, position, end - 1)
  BY <1>6, <1>8, <1>9, <1>10, <1>11, <1>13, WordTypes DEF IsWord
<1>15. type \in TokenTypes /\ type # "END_OF_FILE"
  BY <1>10, <1>11, WordTypes
<1>16. IsLexeme(type, position, end - 1)
  BY <1>2, <1>4, <1>14, <1>15, Characters DEF IsLexeme
<1> QED
  BY <1>8, <1>12, <1>15, <1>16 DEF Emits

LEMMA NumeralTypes ==
  ASSUME NEW numeral
  PROVE  /\ getTokenTypeDigit(numeral) \in TokenTypes
         /\ getTokenTypeDigit(numeral) # "END_OF_FILE"
         /\ getTokenTypeDigit(numeral) = "INTEGER_LITERAL" =>
              \A i \in DOMAIN numeral : numeral[i] # "."
<1>1. CASE isInt(numeral)
  <2>1. getTokenTypeDigit(numeral) = "INTEGER_LITERAL"
    BY <1>1 DEF getTokenTypeDigit
  <2> QED
    BY <1>1, <2>1 DEF isInt, TokenTypes
<1>2. CASE ~ isInt(numeral)
  <2>1. getTokenTypeDigit(numeral) \in {"FLOAT_LITERAL", "UNKNOWN"}
    BY <1>2 DEF getTokenTypeDigit
  <2> QED
    BY <2>1 DEF TokenTypes
<1> QED
  BY <1>1, <1>2

(* The digits from the position on, and those behind a dot that follows.   *)
DotsUpTo(p, end) == {k \in p..(end - 1) : text[k] = "."}

LEMMA NumberEnds ==
  ASSUME text \in Texts, NEW p \in 1..Len(text), text[p] \in Digits,
         NEW end, end = EndOfNumber(p)
  PROVE  /\ end \in (p + 1)..(Len(text) + 1)
         /\ \A k \in p..(end - 1) : text[k] \in Digits \cup {"."}
         /\ \A j, k \in DotsUpTo(p, end) : j = k
         /\ At(end) \notin (IF DotsUpTo(p, end) = {} THEN Digits \cup {"."} ELSE Digits)
<1> DEFINE dots == DotsUpTo(p, end)
<1>0. dots = {k \in p..(end - 1) : text[k] = "."}
  BY DEF DotsUpTo
<1> HIDE DEF dots
<1>1. Len(text) \in Nat /\ p \in Nat /\ p \in 1..(Len(text) + 1)
  BY TextIs
<1>2. PICK j : j = EndOf(p, Digits)
  OBVIOUS
<1>3. /\ j \in p..(Len(text) + 1)
      /\ j > Len(text) \/ text[j] \notin Digits
      /\ \A k \in p..(j - 1) : text[k] \in Digits
  BY <1>1, <1>2, EndOfDef
<1>4. j # p /\ j \in Nat /\ j \in (p + 1)..(Len(text) + 1)
  BY <1>1, <1>3
<1>5. "." \notin Digits /\ "\\0" \notin Digits
  BY Characters DEF WordChars
<1>6. CASE At(j) = "."
  <2>1. j \in 1..Len(text) /\ text[j] = "."
    BY <1>4, <1>6, AtDef
  <2>2. end = EndOf(j + 1, Digits) /\ j + 1 \in 1..(Len(text) + 1)
    BY <1>1, <1>2, <1>6, <2>1 DEF EndOfNumber
  <2>3. /\ end \in (j + 1)..(Len(text) + 1)
        /\ end > Len(text) \/ text[end] \notin Digits
        /\ \A k \in (j + 1)..(end - 1) : text[k] \in Digits
    BY <2>2, EndOfDef
  <2>4. end \in Nat /\ end \in (p + 1)..(Len(text) + 1)
    BY <1>1, <1>4, <2>3
  <2>5. \A k \in p..(end - 1) : k = j \/ text[k] \in Digits
    BY <1>1, <1>3, <1>4, <2>3, <2>4
  <2>6. \A k \in p..(end - 1) : text[k] \in Digits \cup {"."}
    BY <2>1, <2>5
  <2>7. dots = {j}
    <3>1. \A k \in p..(end - 1) : text[k] = "." <=> k = j
      BY <1>5, <2>1, <2>5
    <3>2. j \in p..(end - 1)
      BY <1>1, <1>4, <2>3, <2>4
    <3> QED
      BY <1>0, <3>1, <3>2
  <2>8. At(end) \notin Digits
    BY <1>1, <1>5, <2>3, <2>4, AtDef
  <2> QED
    BY <2>4, <2>6, <2>7, <2>8 DEF dots
<1>7. CASE At(j) # "."
  <2>1. end = j
    BY <1>2, <1>7 DEF EndOfNumber
  <2>2. dots = {}
    BY <1>0, <1>3, <1>5, <2>1
  <2>3. At(end) \notin Digits
    BY <1>1, <1>3, <1>4, <1>5, <2>1, AtDef
  <2> QED
    BY <1>3, <1>4, <1>7, <2>1, <2>2, <2>3 DEF dots
<1> QED
  BY <1>6, <1>7

LEMMA NumberEmits ==
  ASSUME TypeInv, Number
  PROVE  Emits
<1>1. /\ text \in Texts /\ Len(text) \in Nat /\ position \in Nat \ {0}
      /\ current # "\\0" => position \in 1..Len(text) /\ text[position] = current
  BY PlaceFacts
<1>2. current \in Digits
  BY DEF Number, Scanning
<1>3. current \in WordChars
  BY <1>2 DEF WordChars
<1>4. position \in 1..Len(text) /\ text[position] = current
  BY <1>1, <1>3, Characters
<1>5. PICK end : end = EndOfNumber(position)
  OBVIOUS
<1>6. PICK dots : dots = DotsUpTo(position, end)
  OBVIOUS
<1>7. /\ end \in (position + 1)..(Len(text) + 1)
      /\ \A k \in position..(end - 1) : text[k] \in Digits \cup {"."}
      /\ \A j, k \in dots : j = k
      /\ At(end) \notin (IF dots = {} THEN Digits \cup {"."} ELSE Digits)
  BY <1>1, <1>2, <1>4, <1>5, <1>6, NumberEnds
<1>8. PICK numeral : numeral = SubSeq(text, position, end - 1)
  OBVIOUS
<1>9. PICK type : type = getTokenTypeDigit(numeral)
  OBVIOUS
<1>10. Emit(type, end)
  BY <1>5, <1>8, <1>9 DEF Number
<1>11. type \in TokenTypes /\ type # "END_OF_FILE"
  BY <1>9, NumeralTypes
<1>12. end \in Nat /\ (end - 1) + 1 = end
  BY <1>1, <1>7
<1>13. ASSUME type = "INTEGER_LITERAL"
       PROVE  dots = {}
  <2> SUFFICES ASSUME NEW k \in dots PROVE FALSE
    OBVIOUS
  <2>1. k \in position..(end - 1) /\ text[k] = "."
    BY <1>6 DEF DotsUpTo
  <2>2. text \in Seq(STRING)
    BY <1>1, TextsAssumption
  <2>3. /\ DOMAIN numeral = 1..(end - position)
        /\ \A i \in 1..(end - position) : numeral[i] = text[position + i - 1]
    <3>1. position \in 1..(Len(text) + 1) /\ end - 1 \in 0..Len(text) /\ position - 1 <= end - 1
      BY <1>1, <1>7, <1>12
    <3>2. Len(numeral) = end - position
      BY <1>1, <1>8, <1>12, <2>2, <3>1
    <3> QED
      BY <1>1, <1>8, <1>12, <2>2, <3>1, <3>2
  <2>4. PICK i : i = k - position + 1
    OBVIOUS
  <2>5. i \in 1..(end - position) /\ position + i - 1 = k
    BY <1>1, <1>12, <2>1, <2>4
  <2>6. numeral[i] = "." /\ i \in DOMAIN numeral
    BY <2>1, <2>3, <2>5
  <2> QED
    BY <1>9, <1>13, <2>6, NumeralTypes
<1>14. IsNumeral(type, position, end - 1)
  BY <1>6, <1>7, <1>12, <1>13 DEF IsNumeral, DotsUpTo
<1>15. IsLexeme(type, position, end - 1)
  BY <1>2, <1>4, <1>11, <1>14, Characters DEF IsLexeme
<1> QED
  BY <1>7, <1>10, <1>11, <1>15 DEF Emits

-----------------------------------------------------------------------------
(* What a new token changes, and what it leaves as it was.                 *)

LEMMA Appended ==
  ASSUME TypeInv, NEW token \in Token, tokens' = Append(tokens, token)
  PROVE  /\ Len(tokens) \in Nat /\ DOMAIN tokens = 1..Len(tokens)
         /\ tokens' \in Seq(Token) /\ DOMAIN tokens' = 1..(Len(tokens) + 1)
         /\ \A i \in 1..Len(tokens) : tokens'[i] = tokens[i]
         /\ tokens'[Len(tokens) + 1] = token
BY DEF TypeInv

LEMMA TokenFacts ==
  ASSUME TypeInv
  PROVE  /\ tokens \in Seq(Token)
         /\ \A i \in DOMAIN tokens :
              /\ i \in Nat /\ tokens[i] \in Token
              /\ tokens[i].from \in Nat /\ tokens[i].to \in Nat
              /\ tokens[i].type \in TokenTypes /\ tokens[i].line \in Nat
<1>1. tokens \in Seq(Token)
  BY DEF TypeInv
<1>2. ASSUME NEW i \in DOMAIN tokens
      PROVE  i \in Nat /\ tokens[i] \in Token
  BY <1>1
<1> QED
  BY <1>1, <1>2 DEF Token

(* A token from the position on leaves the characters before it as they    *)
(* were.                                                                   *)
LEMMA PlacesStay ==
  ASSUME TypeInv, NEW token \in Token, tokens' = Append(tokens, token),
         text' = text, token.from >= position,
         NEW k \in 1..(position - 1)
  PROVE  /\ InToken(k)' <=> InToken(k)
         /\ InComment(k) => InComment(k)'
<1>1. /\ Len(tokens) \in Nat /\ DOMAIN tokens = 1..Len(tokens)
      /\ DOMAIN tokens' = 1..(Len(tokens) + 1)
      /\ \A i \in 1..Len(tokens) : tokens'[i] = tokens[i]
      /\ tokens'[Len(tokens) + 1] = token
  BY Appended
<1>2. position \in Nat /\ token.from \in Nat
  BY PlaceFacts DEF Token
<1>3. ASSUME NEW m \in 1..(position - 1)
      PROVE  InToken(m)' <=> InToken(m)
  <2>1. m \in Nat /\ ~ (token.from <= m)
    BY <1>2
  <2>2. ASSUME InToken(m)'
        PROVE  InToken(m)
    <3>1. PICK i \in DOMAIN tokens' : tokens'[i].from <= m /\ m <= tokens'[i].to
      BY <2>2 DEF InToken
    <3>2. i # Len(tokens) + 1
      BY <1>1, <2>1, <3>1
    <3>3. i \in 1..Len(tokens)
      BY <1>1, <3>2
    <3> QED
      BY <1>1, <3>1, <3>3 DEF InToken
  <2>3. ASSUME InToken(m)
        PROVE  InToken(m)'
    <3>1. PICK i \in 1..Len(tokens) : tokens[i].from <= m /\ m <= tokens[i].to
      BY <1>1, <2>3 DEF InToken
    <3>2. i \in 1..(Len(tokens) + 1)
      BY <1>1
    <3> QED
      BY <1>1, <3>1, <3>2 DEF InToken
  <2> QED
    BY <2>2, <2>3
<1>4. ASSUME InComment(k)
      PROVE  InComment(k)'
  <2>1. PICK s \in 1..k :
          /\ At(s) = "-" /\ At(s + 1) = "-"
          /\ \A m \in s..k : ~ InToken(m)
          /\ \A m \in s..(k - 1) : text[m] # "\n"
    BY <1>4 DEF InComment
  <2>2. \A m \in s..k : m \in 1..(position - 1)
    BY <1>2
  <2>3. \A m \in s..k : ~ InToken(m)'
    BY <1>3, <2>1, <2>2
  <2>4. At(s)' = At(s) /\ At(s + 1)' = At(s + 1)
    BY DEF At
  <2> QED
    BY <2>1, <2>3, <2>4 DEF InComment
<1> QED
  BY <1>3, <1>4

LEMMA LexemeStays ==
  ASSUME text' = text, NEW type, NEW from, NEW to
  PROVE  IsLexeme(type, from, to)' <=> IsLexeme(type, from, to)
<1>1. \A i : At(i)' = At(i)
  BY DEF At
<1>2. IsWord(type, from, to)' <=> IsWord(type, from, to)
  BY <1>1 DEF IsWord
<1>3. IsNumeral(type, from, to)' <=> IsNumeral(type, from, to)
  BY <1>1 DEF IsNumeral
<1>4. IsLiteral(type, from, to)' <=> IsLiteral(type, from, to)
  BY DEF IsLiteral
<1>5. IsOperator(type, from, to)' <=> IsOperator(type, from, to)
  BY <1>1 DEF IsOperator
<1> QED
  BY <1>2, <1>3, <1>4, <1>5 DEF IsLexeme

(* The same for a step that makes no token.                                *)
LEMMA NoTokenNoChange ==
  ASSUME text' = text, tokens' = tokens
  PROVE  /\ \A k : InToken(k)' <=> InToken(k)
         /\ \A k : InComment(k)' <=> InComment(k)
         /\ TokensAreLexemes => TokensAreLexemes'
<1>1. \A k : InToken(k)' <=> InToken(k)
  BY DEF InToken
<1>2. \A k : At(k)' = At(k)
  BY DEF At
<1>3. \A k : InComment(k)' <=> InComment(k)
  BY <1>1, <1>2 DEF InComment
<1>4. TokensAreLexemes => TokensAreLexemes'
  BY LexemeStays DEF TokensAreLexemes
<1> QED
  BY <1>1, <1>3, <1>4

-----------------------------------------------------------------------------
(* The steps.                                                              *)

LEMMA EmitInv ==
  ASSUME LexInv, pc = "scan", Emits
  PROVE  LexInv' /\ position < position'
<1>1. PICK type \in TokenTypes, next \in (position + 1)..(Len(text) + 1) :
        Emit(type, next) /\ IsLexeme(type, position, next - 1)
  BY DEF Emits
<1>2. TypeInv /\ NothingIsLost /\ TokensAreLexemes
  BY DEF LexInv
<1>3. /\ text \in Texts /\ Len(text) \in Nat /\ position \in Nat \ {0}
      /\ line \in Nat \ {0}
  BY <1>2, PlaceFacts DEF TypeInv
<1>4. next \in Nat /\ next - 1 \in Nat /\ position <= next - 1 /\ position < next
  BY <1>3
<1>5. PICK token : token = [type |-> type, from |-> position, to |-> next - 1, line |-> line]
  OBVIOUS
<1>6. token \in Token
  BY <1>3, <1>4, <1>5 DEF Token
<1>7. /\ tokens' = Append(tokens, token) /\ position' = next
      /\ text' = text /\ line' = line /\ pc' = pc
  BY <1>1, <1>5 DEF Emit
<1>8. /\ token.type = type /\ token.from = position /\ token.to = next - 1
      /\ token.line = line
  BY <1>5
<1>9. /\ Len(tokens) \in Nat /\ DOMAIN tokens = 1..Len(tokens)
      /\ tokens' \in Seq(Token) /\ DOMAIN tokens' = 1..(Len(tokens) + 1)
      /\ \A i \in 1..Len(tokens) : tokens'[i] = tokens[i]
      /\ tokens'[Len(tokens) + 1] = token
  BY <1>2, <1>6, <1>7, Appended
<1>10. \A i \in 1..Len(tokens) :
         /\ tokens[i].from \in Nat /\ tokens[i].to \in Nat /\ tokens[i].line \in Nat
         /\ tokens[i].from <= position /\ tokens[i].to < position /\ tokens[i].line <= line
  BY <1>2, <1>9, TokenFacts DEF TypeInv
<1>11. TypeInv'
  <2>1. ASSUME NEW i \in DOMAIN tokens'
        PROVE  tokens'[i].from <= next /\ tokens'[i].to < next /\ tokens'[i].line <= line
    <3>1. CASE i = Len(tokens) + 1
      BY <1>3, <1>4, <1>8, <1>9, <3>1
    <3>2. CASE i # Len(tokens) + 1
      <4>1. i \in 1..Len(tokens)
        BY <1>9, <3>2
      <4> QED
        BY <1>3, <1>4, <1>9, <1>10, <4>1
    <3> QED
      BY <3>1, <3>2
  <2> QED
    BY <1>2, <1>3, <1>4, <1>7, <1>9, <2>1 DEF TypeInv
<1>12. CommentInv'
  BY <1>7 DEF CommentInv
<1>13. NothingIsLost'
  <2>1. ASSUME NEW i \in DOMAIN tokens', NEW j \in DOMAIN tokens', i < j
        PROVE  tokens'[i].to < tokens'[j].from
    <3>1. i \in 1..Len(tokens)
      BY <1>9, <2>1
    <3>2. CASE j = Len(tokens) + 1
      BY <1>8, <1>9, <1>10, <3>1, <3>2
    <3>3. CASE j # Len(tokens) + 1
      <4>1. j \in 1..Len(tokens)
        BY <1>9, <3>3
      <4> QED
        BY <1>2, <1>9, <2>1, <3>1, <4>1 DEF NothingIsLost
    <3> QED
      BY <3>2, <3>3
  <2>2. ASSUME NEW k \in 1..(next - 1)
        PROVE  \/ InToken(k)'
               \/ text'[k] \notin WordChars \cup DOMAIN OneChar \cup {"'"}
               \/ InComment(k)'
    <3>1. CASE k < position
      <4>1. k \in 1..(position - 1)
        BY <1>3, <1>4, <3>1
      <4>2. /\ InToken(k) => InToken(k)'
            /\ InComment(k) => InComment(k)'
        BY <1>2, <1>3, <1>6, <1>7, <1>8, <4>1, PlacesStay
      <4> QED
        BY <1>2, <1>7, <4>1, <4>2 DEF NothingIsLost
    <3>2. CASE ~ (k < position)
      <4>1. position <= k /\ k <= next - 1
        BY <1>3, <1>4, <3>2
      <4>2. Len(tokens) + 1 \in DOMAIN tokens'
        BY <1>9
      <4> QED
        BY <1>8, <1>9, <4>1, <4>2 DEF InToken
    <3> QED
      BY <3>1, <3>2
  <2> QED
    BY <1>7, <2>1, <2>2 DEF NothingIsLost
<1>14. TokensAreLexemes'
  <2>1. ASSUME NEW i \in DOMAIN tokens'
        PROVE  IsLexeme(tokens'[i].type, tokens'[i].from, tokens'[i].to)
    <3>1. CASE i = Len(tokens) + 1
      BY <1>1, <1>8, <1>9, <3>1
    <3>2. CASE i # Len(tokens) + 1
      <4>1. i \in 1..Len(tokens)
        BY <1>9, <3>2
      <4> QED
        BY <1>2, <1>9, <4>1 DEF TokensAreLexemes
    <3> QED
      BY <3>1, <3>2
  <2> QED
    BY <1>7, <2>1, LexemeStays DEF TokensAreLexemes
<1> QED
  BY <1>4, <1>7, <1>11, <1>12, <1>13, <1>14 DEF LexInv

LEMMA OnwardInv ==
  ASSUME LexInv, Skip \/ Newline
  PROVE  LexInv' /\ position < position'
<1>1. TypeInv /\ NothingIsLost /\ TokensAreLexemes
  BY DEF LexInv
<1>2. /\ text \in Texts /\ Len(text) \in Nat /\ position \in Nat \ {0}
      /\ current # "\\0" => position \in 1..Len(text) /\ text[position] = current
  BY <1>1, PlaceFacts
<1>3. /\ pc = "scan" /\ position' = position + 1
      /\ text' = text /\ tokens' = tokens /\ pc' = pc
      /\ line' \in {line, line + 1}
  BY DEF Skip, Newline, Scanning
<1>4. /\ position \in 1..Len(text)
      /\ text[position] \notin WordChars \cup DOMAIN OneChar \cup {"'"}
  <2>1. CASE Skip
    <3>1. position \in 1..Len(text)
      BY <1>2, <2>1 DEF Skip
    <3>2. current = text[position]
      BY <1>2, <3>1, AtDef DEF current
    <3> QED
      BY <2>1, <3>1, <3>2 DEF Skip
  <2>2. CASE Newline
    <3>1. current = "\n"
      BY <2>2 DEF Newline, Scanning
    <3> QED
      BY <1>2, <3>1, Characters
  <2> QED
    BY <2>1, <2>2
<1>5. TypeInv'
  <2>1. line \in Nat \ {0} /\ line' \in Nat \ {0} /\ line <= line'
    BY <1>1, <1>3 DEF TypeInv
  <2>2. \A i \in DOMAIN tokens :
          tokens[i].from <= position + 1 /\ tokens[i].to < position + 1 /\ tokens[i].line <= line'
    BY <1>1, <1>2, <2>1, TokenFacts DEF TypeInv
  <2>3. position + 1 \in 1..(Len(text) + 1)
    BY <1>2, <1>4
  <2> QED
    BY <1>1, <1>3, <2>1, <2>2, <2>3 DEF TypeInv
<1>6. CommentInv'
  BY <1>3 DEF CommentInv
<1>7. NothingIsLost'
  <2>1. ASSUME NEW k \in 1..position
        PROVE  \/ InToken(k)
               \/ text[k] \notin WordChars \cup DOMAIN OneChar \cup {"'"}
               \/ InComment(k)
    <3>1. CASE k = position
      BY <1>4, <3>1
    <3>2. CASE k # position
      <4>1. k \in 1..(position - 1)
        BY <1>2, <3>2
      <4> QED
        BY <1>1, <4>1 DEF NothingIsLost
    <3> QED
      BY <3>1, <3>2
  <2>2. (position + 1) - 1 = position
    BY <1>2
  <2>3. \A k : (InToken(k)' <=> InToken(k)) /\ (InComment(k)' <=> InComment(k))
    BY <1>3, NoTokenNoChange
  <2> QED
    BY <1>1, <1>3, <2>1, <2>2, <2>3 DEF NothingIsLost
<1>8. TokensAreLexemes'
  BY <1>1, <1>3, NoTokenNoChange
<1> QED
  BY <1>2, <1>3, <1>5, <1>6, <1>7, <1>8 DEF LexInv

LEMMA StartCommentInv ==
  ASSUME LexInv, StartComment
  PROVE  LexInv'
<1>1. TypeInv /\ NothingIsLost /\ TokensAreLexemes
  BY DEF LexInv
<1>2. position \in Nat \ {0}
  BY <1>1, PlaceFacts
<1>3. /\ text' = text /\ position' = position /\ line' = line /\ tokens' = tokens
      /\ pc' = "comment" /\ At(position) = "-" /\ At(position + 1) = "-"
  BY DEF StartComment, Scanning, current, peek
<1>4. TypeInv'
  BY <1>1, <1>3 DEF TypeInv
<1>5. CommentInv'
  <2>1. \A i \in DOMAIN tokens : tokens[i].to < position
    BY <1>1 DEF TypeInv
  <2>2. At(position)' = At(position) /\ At(position + 1)' = At(position + 1)
    BY <1>3 DEF At
  <2>3. position \in 1..position /\ \A m \in position..(position - 1) : FALSE
    BY <1>2
  <2> QED
    BY <1>3, <2>1, <2>2, <2>3 DEF CommentInv
<1>6. NothingIsLost'
  BY <1>1, <1>3, NoTokenNoChange DEF NothingIsLost
<1>7. TokensAreLexemes'
  BY <1>1, <1>3, NoTokenNoChange
<1> QED
  BY <1>4, <1>5, <1>6, <1>7 DEF LexInv

(* The characters of a comment are in one.                                 *)
LEMMA CommentIsThere ==
  ASSUME LexInv, pc = "comment", position <= Len(text)
  PROVE  InComment(position)
<1>1. TypeInv /\ CommentInv
  BY DEF LexInv
<1>2. /\ tokens \in Seq(Token) /\ position \in Nat \ {0}
      /\ \A i \in DOMAIN tokens : tokens[i].from \in Nat /\ tokens[i].to \in Nat
  BY <1>1, TokenFacts, PlaceFacts
<1>3. PICK s \in 1..position :
        /\ At(s) = "-" /\ At(s + 1) = "-"
        /\ \A m \in s..(position - 1) : text[m] # "\n"
        /\ \A i \in DOMAIN tokens : tokens[i].to < s
  BY <1>1 DEF CommentInv
<1>4. \A m \in s..position : ~ InToken(m)
  BY <1>2, <1>3 DEF InToken
<1> QED
  BY <1>3, <1>4 DEF InComment

LEMMA InCommentInv ==
  ASSUME LexInv, CommentChar \/ EndComment
  PROVE  LexInv'
<1>1. TypeInv /\ CommentInv /\ NothingIsLost /\ TokensAreLexemes /\ pc = "comment"
  BY DEF LexInv, CommentChar, EndComment
<1>2. /\ text \in Texts /\ Len(text) \in Nat /\ position \in Nat \ {0}
      /\ current # "\\0" => position \in 1..Len(text) /\ text[position] = current
  BY <1>1, PlaceFacts
<1>3. text' = text /\ tokens' = tokens /\ line' = line
  BY DEF CommentChar, EndComment
<1>4. CASE position > Len(text)
  <2>1. current # "\n"
    BY <1>2, <1>4
  <2>2. position' = position /\ pc' = pc
    BY <1>2, <1>4, <2>1 DEF CommentChar, EndComment
  <2>3. TypeInv'
    BY <1>1, <1>3, <2>2 DEF TypeInv
  <2>4. CommentInv'
    <3>1. \A k : At(k)' = At(k)
      BY <1>3 DEF At
    <3> QED
      BY <1>1, <1>3, <2>2, <3>1 DEF CommentInv
  <2>5. NothingIsLost' /\ TokensAreLexemes'
    BY <1>1, <1>3, <2>2, NoTokenNoChange DEF NothingIsLost
  <2> QED
    BY <2>3, <2>4, <2>5 DEF LexInv
<1>5. CASE ~ (position > Len(text))
  <2>1. position' = position + 1 /\ pc' \in {"scan", "comment"}
    BY <1>1, <1>2, <1>5 DEF CommentChar, EndComment
  <2>2. TypeInv'
    <3>1. \A i \in DOMAIN tokens : tokens[i].from <= position + 1 /\ tokens[i].to < position + 1
      BY <1>1, <1>2, TokenFacts DEF TypeInv
    <3>2. position + 1 \in 1..(Len(text) + 1)
      BY <1>2, <1>5
    <3> QED
      BY <1>1, <1>3, <2>1, <3>1, <3>2 DEF TypeInv
  <2>3. CommentInv'
    <3> SUFFICES ASSUME pc' = "comment" PROVE CommentInv'
      BY DEF CommentInv
    <3>1. current # "\n"
      BY DEF CommentChar, EndComment
    <3>2. text[position] # "\n"
      BY <1>2, <1>5, <3>1, AtDef DEF current
    <3>3. PICK s \in 1..position :
            /\ At(s) = "-" /\ At(s + 1) = "-"
            /\ \A m \in s..(position - 1) : text[m] # "\n"
            /\ \A i \in DOMAIN tokens : tokens[i].to < s
      BY <1>1 DEF CommentInv
    <3>4. \A m \in s..position : text[m] # "\n"
      BY <1>2, <3>2, <3>3
    <3>5. s \in 1..(position + 1) /\ (position + 1) - 1 = position
      BY <1>2
    <3>6. At(s)' = At(s) /\ At(s + 1)' = At(s + 1)
      BY <1>3 DEF At
    <3> QED
      BY <1>3, <2>1, <3>3, <3>4, <3>5, <3>6 DEF CommentInv
  <2>4. NothingIsLost'
    <3>1. ASSUME NEW k \in 1..position
          PROVE  \/ InToken(k)
                 \/ text[k] \notin WordChars \cup DOMAIN OneChar \cup {"'"}
                 \/ InComment(k)
      <4>1. CASE k = position
        BY <1>1, <1>2, <1>5, <4>1, CommentIsThere
      <4>2. CASE k # position
        <5>1. k \in 1..(position - 1)
          BY <1>2, <4>2
        <5> QED
          BY <1>1, <5>1 DEF NothingIsLost
      <4> QED
        BY <4>1, <4>2
    <3>2. (position + 1) - 1 = position
      BY <1>2
    <3>3. \A k : (InToken(k)' <=> InToken(k)) /\ (InComment(k)' <=> InComment(k))
      BY <1>3, NoTokenNoChange
    <3> QED
      BY <1>1, <1>3, <2>1, <3>1, <3>2, <3>3 DEF NothingIsLost
  <2>5. TokensAreLexemes'
    BY <1>1, <1>3, NoTokenNoChange
  <2> QED
    BY <2>2, <2>3, <2>4, <2>5 DEF LexInv
<1> QED
  BY <1>4, <1>5

LEMMA FinishInv ==
  ASSUME LexInv, Finish
  PROVE  LexInv'
<1>1. TypeInv /\ NothingIsLost /\ TokensAreLexemes
  BY DEF LexInv
<1>2. /\ text \in Texts /\ Len(text) \in Nat /\ position \in Nat \ {0}
      /\ line \in Nat \ {0} /\ position = Len(text) + 1
  BY <1>1, PlaceFacts DEF TypeInv, Finish
<1>3. PICK token : token = [type |-> "END_OF_FILE", from |-> Len(text) + 1,
                            to |-> Len(text), line |-> line]
  OBVIOUS
<1>4. "END_OF_FILE" \in TokenTypes
  BY DEF TokenTypes
<1>5. token \in Token
  BY <1>2, <1>3, <1>4 DEF Token
<1>6. /\ tokens' = Append(tokens, token) /\ pc' = "done"
      /\ text' = text /\ position' = position /\ line' = line
  BY <1>3 DEF Finish
<1>7. /\ token.type = "END_OF_FILE" /\ token.from = position /\ token.to = Len(text)
      /\ token.line = line
  BY <1>2, <1>3
<1>8. /\ Len(tokens) \in Nat /\ DOMAIN tokens = 1..Len(tokens)
      /\ tokens' \in Seq(Token) /\ DOMAIN tokens' = 1..(Len(tokens) + 1)
      /\ \A i \in 1..Len(tokens) : tokens'[i] = tokens[i]
      /\ tokens'[Len(tokens) + 1] = token
  BY <1>1, <1>5, <1>6, Appended
<1>9. ASSUME NEW i \in DOMAIN tokens'
      PROVE  i = Len(tokens) + 1 \/ i \in 1..Len(tokens)
  BY <1>8
<1>10. TypeInv'
  <2>1. ASSUME NEW i \in DOMAIN tokens'
        PROVE  /\ tokens'[i].from <= position /\ tokens'[i].to < position
               /\ tokens'[i].line <= line
    <3>1. CASE i = Len(tokens) + 1
      BY <1>2, <1>7, <1>8, <3>1
    <3>2. CASE i \in 1..Len(tokens)
      BY <1>1, <1>8, <3>2 DEF TypeInv
    <3> QED
      BY <1>9, <3>1, <3>2
  <2> QED
    BY <1>1, <1>6, <1>8, <2>1 DEF TypeInv
<1>11. CommentInv'
  BY <1>6 DEF CommentInv
<1>12. NothingIsLost'
  <2>1. ASSUME NEW i \in DOMAIN tokens', NEW j \in DOMAIN tokens', i < j
        PROVE  tokens'[i].to < tokens'[j].from
    <3>1. i \in 1..Len(tokens)
      BY <1>8, <2>1
    <3>2. CASE j = Len(tokens) + 1
      BY <1>1, <1>7, <1>8, <3>1, <3>2 DEF TypeInv
    <3>3. CASE j \in 1..Len(tokens)
      BY <1>1, <1>8, <2>1, <3>1, <3>3 DEF NothingIsLost
    <3> QED
      BY <1>9, <3>2, <3>3
  <2>2. ASSUME NEW k \in 1..(position - 1)
        PROVE  \/ InToken(k)'
               \/ text'[k] \notin WordChars \cup DOMAIN OneChar \cup {"'"}
               \/ InComment(k)'
    <3>1. /\ InToken(k) => InToken(k)'
          /\ InComment(k) => InComment(k)'
      BY <1>1, <1>2, <1>5, <1>6, <1>7, PlacesStay
    <3> QED
      BY <1>1, <1>6, <3>1 DEF NothingIsLost
  <2> QED
    BY <1>6, <2>1, <2>2 DEF NothingIsLost
<1>13. TokensAreLexemes'
  <2>1. IsLexeme(token.type, token.from, token.to)
    BY <1>2, <1>7 DEF IsLexeme
  <2>2. ASSUME NEW i \in DOMAIN tokens'
        PROVE  IsLexeme(tokens'[i].type, tokens'[i].from, tokens'[i].to)
    <3>1. CASE i = Len(tokens) + 1
      BY <1>8, <2>1, <3>1
    <3>2. CASE i \in 1..Len(tokens)
      BY <1>1, <1>8, <3>2 DEF TokensAreLexemes
    <3> QED
      BY <1>9, <3>1, <3>2
  <2> QED
    BY <1>6, <2>2, LexemeStays DEF TokensAreLexemes
<1> QED
  BY <1>10, <1>11, <1>12, <1>13 DEF LexInv

(* A step keeps the invariant, and advances or changes what it looks for.  *)
LEMMA StepInv ==
  ASSUME LexInv, Step
  PROVE  LexInv' /\ (position < position' \/ pc # pc' \/ RunsOff)
<1>1. TypeInv
  BY DEF LexInv
<1>2. CASE Skip \/ Newline
  BY <1>2, OnwardInv
<1>3. CASE Operator
  BY <1>1, <1>3, OperatorEmits, EmitInv DEF Operator, Scanning
<1>4. CASE StartComment
  BY <1>4, StartCommentInv DEF StartComment, Scanning
<1>5. CASE CommentChar \/ EndComment
  <2>1. LexInv'
    BY <1>5, InCommentInv
  <2>2. position \in Nat /\ Len(text) \in Nat
    BY <1>1, PlaceFacts
  <2> QED
    BY <1>5, <2>1, <2>2 DEF CommentChar, EndComment, RunsOff
<1>6. CASE Literal
  BY <1>1, <1>6, LiteralEmits, EmitInv DEF Literal, Scanning
<1>7. CASE Word
  BY <1>1, <1>7, WordEmits, EmitInv DEF Word, Scanning
<1>8. CASE Number
  BY <1>1, <1>8, NumberEmits, EmitInv DEF Number, Scanning
<1>9. CASE Finish
  BY <1>9, FinishInv DEF Finish
<1> QED
  BY <1>2, <1>3, <1>4, <1>5, <1>6, <1>7, <1>8, <1>9 DEF Step

LEMMA StutterInv ==
  ASSUME LexInv, UNCHANGED vars
  PROVE  LexInv'
<1>1. /\ text' = text /\ position' = position /\ line' = line /\ tokens' = tokens
      /\ pc' = pc
  BY DEF vars
<1>2. \A k : At(k)' = At(k)
  BY <1>1 DEF At
<1> QED
  BY <1>1, <1>2, NoTokenNoChange DEF LexInv, TypeInv, CommentInv, NothingIsLost

LEMMA InitInv ==
  ASSUME Init
  PROVE  LexInv
<1>1. /\ text \in Texts /\ Len(text) \in Nat /\ position = 1 /\ line = 1
      /\ tokens = << >> /\ pc = "scan"
  BY TextIs DEF Init
<1>2. tokens \in Seq(Token) /\ DOMAIN tokens = {}
  BY <1>1
<1> QED
  BY <1>1, <1>2 DEF LexInv, TypeInv, CommentInv, NothingIsLost, TokensAreLexemes

LEMMA Invariance == Spec => []LexInv
<1>1. Init => LexInv
  BY InitInv
<1>2. LexInv /\ [Next]_vars => LexInv'
  BY StepInv, StutterInv DEF Next, Stop
<1> QED
  BY <1>1, <1>2, PTL DEF Spec

(* The tokens of tokenize stand at places of the text before the position, *)
(* and their lines are lines that were counted.                            *)
THEOREM TypeCorrect == Spec => []TypeOK
<1>1. LexInv => TypeOK
  <2> SUFFICES ASSUME LexInv PROVE TypeOK
    OBVIOUS
  <2>1. TypeInv
    BY DEF LexInv
  <2>2. line \in Nat /\ position \in Nat
    BY <2>1, PlaceFacts DEF TypeInv
  <2>3. ASSUME NEW i \in DOMAIN tokens
        PROVE  /\ tokens[i].type \in TokenTypes /\ tokens[i].line \in 1..line
               /\ tokens[i].from \in 1..position /\ tokens[i].to \in 0..(position - 1)
    <3>1. tokens[i] \in Token
      BY <2>1, TokenFacts
    <3>2. /\ tokens[i].type \in TokenTypes /\ tokens[i].line \in Nat \ {0}
          /\ tokens[i].from \in Nat \ {0} /\ tokens[i].to \in Nat
      BY <3>1 DEF Token
    <3>3. tokens[i].from <= position /\ tokens[i].to < position /\ tokens[i].line <= line
      BY <2>1 DEF TypeInv
    <3> QED
      BY <2>2, <3>2, <3>3
  <2> QED
    BY <2>1, <2>3 DEF TypeInv, TypeOK
<1> QED
  BY <1>1, Invariance, PTL

(* No character of the text is in two tokens, and one that is in none is   *)
(* in a comment or means nothing: no advance() of the loop passes by a     *)
(* character of a token, whatever the text.                                *)
THEOREM NothingLost == Spec => []NothingIsLost
<1>1. LexInv => NothingIsLost
  BY DEF LexInv
<1> QED
  BY <1>1, Invariance, PTL

(* Each token is the longest one at its place and has the type that        *)
(* getTokenTypeAlpha, getTokenTypeDigit and the switch give its characters.*)
THEOREM LexemesAreLongest == Spec => []TokensAreLexemes
<1>1. LexInv => TokensAreLexemes
  BY DEF LexInv
<1> QED
  BY <1>1, Invariance, PTL

(* No iteration of the loops leaves tokenize where it was, except in a     *)
(* comment that reaches the end of the text.                               *)
THEOREM EveryStepAdvances == Spec => StepsAdvance
<1>1. LexInv /\ [Next]_vars => [position < position' \/ pc # pc' \/ RunsOff]_vars
  BY StepInv DEF Next, Stop
<1> QED
  BY <1>1, Invariance, PTL DEF Spec, StepsAdvance
=============================================================================
