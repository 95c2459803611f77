----------------------------- MODULE ReplProofs -----------------------------
(***************************************************************************)
(* For all sessions, alphabets and keywords: main gives each of the        *)
(* components what it is written for.                                      *)
(***************************************************************************)
EXTENDS Repl, SequenceTheorems, WellFoundedInduction, TLAPS

Chars == STRING \ {"\\0"}

LexedToken == [type : L!TokenTypes, from : Nat \ {0}, to : Nat, line : Nat \ {0}]

Semi  == ";"
Blank == " "

IsQuery(text) ==
  /\ text \in Seq(Chars) /\ Holds(text, Semi)
  /\ \A k \in DOMAIN text : text[k] = Semi => k = Len(text)

(* Every query is answered before the next line is read.                   *)
SessionInv ==
  /\ session \in Sessions /\ read \in 0..Len(session.lines)
  /\ buffer \in Seq(Chars) /\ ~ Holds(buffer, Semi)
  /\ pc \in {"prompt", "lex", "parse", "exited", "terminated", "died"}
  /\ \E S : answers \in Seq(S)
  /\ Len(answers) <= read
  /\ pc \in {"lex", "parse"} => Len(answers) < read

(* A token of the semicolon is made where the query ends, and END_OF_FILE  *)
(* behind it.                                                              *)
LexInv ==
  /\ IsQuery(query)
  /\ line \in Nat \ {0} /\ position \in 1..(Len(query) + 1)
  /\ lexerPc \in {"scan", "comment", "done"}
  /\ lexed \in Seq(LexedToken)
  /\ \A i \in DOMAIN lexed : lexed[i].to <= Len(query)
  /\ lexerPc # "done" =>
       \A i \in DOMAIN lexed :
         /\ lexed[i].type # "END_OF_FILE"
         /\ lexed[i].type = "SEMICOLON" => i = Len(lexed) /\ position > Len(query)
  /\ lexerPc = "done" =>
       /\ lexed # << >> /\ lexed[Len(lexed)].type = "END_OF_FILE"
       /\ \A i \in DOMAIN lexed : lexed[i].type = "SEMICOLON" => i = Len(lexed) - 1

ReplInv ==
  /\ SessionInv
  /\ pc = "lex" => LexInv
  /\ pc = "parse" => lexerPc = "done" /\ P!IsInput(parsed)

-----------------------------------------------------------------------------
(* Where runs of characters end.                                           *)

LEMMA Least ==
  ASSUME NEW T, T \subseteq Nat, T # {}
  PROVE  \E x \in T : \A y \in T : x <= y
<1>1. PICK x \in T : \A y \in T : ~ (<<y, x>> \in OpToRel(<, Nat))
  BY NatLessThanWellFounded, WFMin
<1>2. ASSUME NEW y \in T
      PROVE  x <= y
  <2>1. x \in Nat /\ y \in Nat
    OBVIOUS
  <2>2. ~ (y < x)
    BY <1>1, <2>1 DEF OpToRel
  <2> QED
    BY <2>1, <2>2
<1> QED
  BY <1>2

(* The first place from i on that is outside S, or the text's end.         *)
LEMMA EndExists ==
  ASSUME NEW text, Len(text) \in Nat, NEW i \in 1..(Len(text) + 1), NEW S
  PROVE  \E j \in i..(Len(text) + 1) :
           /\ j > Len(text) \/ text[j] \notin S
           /\ \A k \in i..(j - 1) : text[k] \in S
<1> DEFINE T == {j \in i..(Len(text) + 1) : j > Len(text) \/ text[j] \notin S}
<1>1. Len(text) + 1 \in T /\ T \subseteq Nat
  OBVIOUS
<1>2. PICK j \in T : \A y \in T : j <= y
  BY <1>1, Least
<1>3. ASSUME NEW k \in i..(j - 1)
      PROVE  text[k] \in S
  <2>1. k < j /\ k \in i..(Len(text) + 1) /\ j \in Nat /\ k \in Nat
    OBVIOUS
  <2>2. k \notin T
    BY <1>2, <2>1
  <2> QED
    BY <2>1, <2>2
<1> QED
  BY <1>3

LEMMA EndOfDef ==
  ASSUME Len(query) \in Nat, NEW i \in 1..(Len(query) + 1), NEW S
  PROVE  /\ L!EndOf(i, S) \in i..(Len(query) + 1)
         /\ L!EndOf(i, S) > Len(query) \/ query[L!EndOf(i, S)] \notin S
<1>1. \E j \in i..(Len(query) + 1) :
        /\ j > Len(query) \/ query[j] \notin S
        /\ \A k \in i..(j - 1) : query[k] \in S
  BY EndExists
<1> QED
  BY <1>1 DEF L!EndOf

LEMMA EndOfLiteralDef ==
  ASSUME query \in Seq(Chars), NEW i \in 1..Len(query)
  PROVE  L!EndOfLiteral(i) \in (i + 1)..(Len(query) + 1)
<1> DEFINE S == STRING \ {"'"}
<1>1. Len(query) \in Nat /\ \A k \in 1..Len(query) : query[k] \in STRING
  BY DEF Chars
<1>2. i + 1 \in 1..(Len(query) + 1)
  BY <1>1
<1>3. PICK j \in (i + 1)..(Len(query) + 1) :
        /\ j > Len(query) \/ query[j] \notin S
        /\ \A k \in (i + 1)..(j - 1) : query[k] \in S
  BY <1>1, <1>2, EndExists
<1>4. j > Len(query) \/ query[j] = "'"
  BY <1>1, <1>3
<1>5. \A k \in (i + 1)..(j - 1) : query[k] # "'"
  BY <1>3
<1>6. \E e \in (i + 1)..(Len(query) + 1) :
        /\ e > Len(query) \/ query[e] = "'"
        /\ \A k \in (i + 1)..(e - 1) : query[k] # "'"
  BY <1>4, <1>5
<1> QED
  BY <1>6 DEF L!EndOfLiteral

LEMMA AtDef ==
  ASSUME query \in Seq(Chars), NEW i \in Nat
  PROVE  /\ L!At(i) # "\\0" <=> i \in 1..Len(query)
         /\ L!At(i) # "\\0" => L!At(i) = query[i]
BY DEF L!At, Chars

LEMMA FirstSemiDef ==
  ASSUME NEW text \in Seq(Chars), Holds(text, Semi)
  PROVE  /\ FirstSemi(text) \in 1..Len(text) /\ text[FirstSemi(text)] = Semi
         /\ \A j \in 1..(FirstSemi(text) - 1) : text[j] # Semi
<1>1. Len(text) \in Nat /\ DOMAIN text = 1..Len(text)
  OBVIOUS
<1> DEFINE T == {i \in 1..Len(text) : text[i] = Semi}
<1>2. PICK k \in 1..Len(text) : text[k] = Semi
  BY <1>1 DEF Holds
<1>3. T # {} /\ T \subseteq Nat
  BY <1>1, <1>2
<1>4. PICK i \in T : \A y \in T : i <= y
  BY <1>3, Least
<1>5. ASSUME NEW j \in 1..(i - 1), text[j] = Semi
      PROVE  FALSE
  <2>1. i \in 1..Len(text)
    OBVIOUS
  <2>2. j \in 1..Len(text) /\ j < i
    BY <1>1, <2>1
  <2>3. j \in T
    BY <1>5, <2>2
  <2> QED
    BY <1>4, <2>1, <2>2, <2>3
<1>6. \E n \in DOMAIN text : text[n] = Semi /\ \A j \in 1..(n - 1) : text[j] # Semi
  BY <1>1, <1>5
<1>7. FirstSemi(text) =
        CHOOSE n \in DOMAIN text : text[n] = Semi /\ \A j \in 1..(n - 1) : text[j] # Semi
  BY Zenon DEF FirstSemi, Semi
<1> QED
  BY <1>1, <1>6, <1>7

-----------------------------------------------------------------------------
(* The Lexer, on a query that main has cut.                                *)

LEMMA OneCharTypes ==
  ASSUME NEW c \in DOMAIN L!OneChar
  PROVE  /\ L!OneChar[c] \in L!TokenTypes \ {"END_OF_FILE"} /\ c # "\\0"
         /\ L!OneChar[c] = "SEMICOLON" => c = Semi
<1>1. c \in {"=", "!", "<", ">", "+", "-", "*", "/", ",", ";", ".", "(", ")"}
  BY Zenon DEF L!OneChar
<1>2. \/ L!OneChar[c] \in {"EQUAL", "UNKNOWN", "LESS_THAN", "GREATER_THAN", "PLUS", "MINUS",
                           "STAR", "SLASH", "COMMA", "DOT", "LEFT_PAREN", "RIGHT_PAREN"}
      \/ c = Semi /\ L!OneChar[c] = "SEMICOLON"
  BY <1>1, Zenon DEF L!OneChar, Semi
<1>3. c # "\\0"
  BY <1>1, Zenon
<1> QED
  BY <1>2, <1>3 DEF L!TokenTypes

LEMMA TwoCharsTypes ==
  ASSUME NEW pair \in DOMAIN L!TwoChars
  PROVE  /\ L!TwoChars[pair] \in L!TokenTypes \ {"END_OF_FILE", "SEMICOLON"}
         /\ pair[2] # "\\0"
<1>1. pair \in { <<"!", "=">>, <<"<", "=">>, <<"<", ">">>, <<">", "=">> }
  BY DEF L!TwoChars
<1>2. pair[2] = "=" \/ pair[2] = ">"
  BY <1>1
<1>3. L!TwoChars[pair] \in {"LESS_EQ", "GREATER_EQ", "NOT_EQUAL"}
  BY <1>1 DEF L!TwoChars
<1> QED
  BY <1>2, <1>3 DEF L!TokenTypes

LEMMA WordTypes ==
  ASSUME NEW word
  PROVE  L!getTokenTypeAlpha(word) \in L!TokenTypes \ {"END_OF_FILE", "SEMICOLON"}
<1>1. L!getTokenTypeAlpha(word) \in {keywords[w] : w \in DOMAIN keywords} \cup {"IDENTIFIER"}
  BY DEF L!getTokenTypeAlpha
<1>2. \A w \in DOMAIN keywords :
        keywords[w] \in L!TokenTypes \ {"ERROR", "END_OF_FILE", "SEMICOLON"}
  BY KeywordsAssumption, Zenon
<1> QED
  BY <1>1, <1>2 DEF L!TokenTypes

LEMMA NumeralTypes ==
  ASSUME NEW numeral
  PROVE  L!getTokenTypeDigit(numeral) \in L!TokenTypes \ {"END_OF_FILE", "SEMICOLON"}
<1>1. CASE L!isInt(numeral)
  BY <1>1 DEF L!getTokenTypeDigit, L!TokenTypes
<1>2. CASE ~ L!isInt(numeral)
  <2>1. L!getTokenTypeDigit(numeral) \in {"FLOAT_LITERAL", "UNKNOWN"}
    BY <1>2 DEF L!getTokenTypeDigit
  <2> QED
    BY <2>1 DEF L!TokenTypes
<1> QED
  BY <1>1, <1>2

LEMMA Characters ==
  /\ "\\0" \notin Letters /\ "\\0" \notin L!Digits
<1>1. L!Digits = {"0", "1", "2", "3", "4", "5", "6", "7", "8", "9"}
  BY DEF L!Digits, L!DigitOrder
<1>2. "\\0" \notin Letters
  BY KeywordsAssumption, Zenon
<1> QED
  BY <1>1, <1>2

LEMMA PlaceFacts ==
  ASSUME LexInv
  PROVE  /\ query \in Seq(Chars) /\ Len(query) \in Nat /\ DOMAIN query = 1..Len(query)
         /\ position \in Nat \ {0} /\ position <= Len(query) + 1
         /\ L!current # "\\0" <=> position <= Len(query)
         /\ L!current # "\\0" => L!current = query[position]
         /\ L!peek # "\\0" <=> position + 1 <= Len(query)
<1>1. query \in Seq(Chars) /\ position \in 1..(Len(query) + 1) /\ Len(query) \in Nat
  BY DEF LexInv, IsQuery
<1>2. position \in Nat /\ position + 1 \in Nat
  BY <1>1
<1> QED
  BY <1>1, <1>2, AtDef DEF L!current, L!peek

(* A token that is made, of the semicolon only where the query ends.       *)
LEMMA EmitKeeps ==
  ASSUME LexInv, lexerPc = "scan", position <= Len(query),
         NEW type \in L!TokenTypes \ {"END_OF_FILE"},
         NEW next \in position..(Len(query) + 1),
         type = "SEMICOLON" => next > Len(query),
         L!Emit(type, next)
  PROVE  LexInv'
<1> DEFINE token == [type |-> type, from |-> position, to |-> next - 1, line |-> line]
<1>1. /\ Len(query) \in Nat /\ position \in Nat \ {0} /\ line \in Nat \ {0}
      /\ lexed \in Seq(LexedToken) /\ IsQuery(query)
  BY PlaceFacts DEF LexInv
<1>2. /\ lexed' = Append(lexed, token) /\ position' = next
      /\ query' = query /\ line' = line /\ lexerPc' = lexerPc
  BY DEF L!Emit
<1>3. token \in LexedToken /\ token.type = type /\ token.to = next - 1
  <2>1. next - 1 \in Nat
    BY <1>1
  <2> QED
    BY <1>1, <2>1 DEF LexedToken
<1> HIDE DEF token
<1>4. /\ lexed' \in Seq(LexedToken) /\ Len(lexed') = Len(lexed) + 1 /\ Len(lexed) \in Nat
      /\ DOMAIN lexed = 1..Len(lexed) /\ DOMAIN lexed' = 1..(Len(lexed) + 1)
      /\ lexed'[Len(lexed) + 1] = token
      /\ \A i \in 1..Len(lexed) : lexed'[i] = lexed[i]
  BY <1>1, <1>2, <1>3
<1>5. \A i \in DOMAIN lexed : lexed[i].type # "SEMICOLON" /\ lexed[i].type # "END_OF_FILE"
                              /\ lexed[i].to <= Len(query)
  BY DEF LexInv
<1>6. \A i \in DOMAIN lexed' :
        /\ lexed'[i].to <= Len(query) /\ lexed'[i].type # "END_OF_FILE"
        /\ lexed'[i].type = "SEMICOLON" => i = Len(lexed') /\ next > Len(query)
  BY <1>1, <1>3, <1>4, <1>5
<1>7. IsQuery(query')
  BY <1>1, <1>2
<1> QED
  BY <1>1, <1>2, <1>4, <1>6, <1>7 DEF LexInv

LEMMA OperatorKeeps ==
  ASSUME LexInv, L!Operator
  PROVE  LexInv'
<1>1. /\ Len(query) \in Nat /\ position \in Nat \ {0}
      /\ L!current # "\\0" <=> position <= Len(query)
      /\ L!current # "\\0" => L!current = query[position]
      /\ L!peek # "\\0" <=> position + 1 <= Len(query)
      /\ DOMAIN query = 1..Len(query)
  BY PlaceFacts
<1>2. lexerPc = "scan" /\ L!current \in DOMAIN L!OneChar
  BY DEF L!Operator, L!Scanning
<1>3. position <= Len(query)
  BY <1>1, <1>2, OneCharTypes
<1>4. CASE <<L!current, L!peek>> \in DOMAIN L!TwoChars
  <2>1. PICK pair \in DOMAIN L!TwoChars : pair = <<L!current, L!peek>>
    BY <1>4
  <2>2. L!TwoChars[pair] \in L!TokenTypes \ {"END_OF_FILE", "SEMICOLON"} /\ L!peek # "\\0"
    BY <2>1, TwoCharsTypes
  <2>3. L!Emit(L!TwoChars[pair], position + 2)
    BY <1>4, <2>1 DEF L!Operator
  <2>4. position + 2 \in position..(Len(query) + 1)
    BY <1>1, <2>2
  <2> QED
    BY <1>2, <1>3, <2>2, <2>3, <2>4, EmitKeeps
<1>5. CASE <<L!current, L!peek>> \notin DOMAIN L!TwoChars
  <2>1. PICK type : type = L!OneChar[L!current]
    OBVIOUS
  <2>2. type \in L!TokenTypes \ {"END_OF_FILE"}
    BY <1>2, <2>1, OneCharTypes
  <2>3. L!Emit(type, position + 1)
    BY <1>5, <2>1 DEF L!Operator
  <2>4. position + 1 \in position..(Len(query) + 1)
    BY <1>1, <1>3
  <2>5. ASSUME type = "SEMICOLON"
        PROVE  position + 1 > Len(query)
    <3>1. L!current = Semi
      BY <1>2, <2>1, <2>5, OneCharTypes
    <3>2. query[position] = Semi /\ position \in DOMAIN query
      BY <1>1, <1>3, <3>1
    <3>3. position = Len(query)
      BY <3>2 DEF LexInv, IsQuery
    <3> QED
      BY <1>1, <3>3
  <2> QED
    BY <1>2, <1>3, <2>2, <2>3, <2>4, <2>5, EmitKeeps
<1> QED
  BY <1>4, <1>5

LEMMA LiteralKeeps ==
  ASSUME LexInv, L!Literal
  PROVE  LexInv'
<1>1. /\ Len(query) \in Nat /\ position \in Nat \ {0} /\ query \in Seq(Chars)
      /\ L!current # "\\0" <=> position <= Len(query)
  BY PlaceFacts
<1>2. lexerPc = "scan" /\ L!current = "'"
  BY DEF L!Literal, L!Scanning
<1>3. position <= Len(query)
  BY <1>1, <1>2
<1>4. PICK end : end = L!EndOfLiteral(position)
  OBVIOUS
<1>5. end \in (position + 1)..(Len(query) + 1)
  BY <1>1, <1>3, <1>4, EndOfLiteralDef
<1>6. /\ "ERROR" \in L!TokenTypes \ {"END_OF_FILE"} /\ "ERROR" # "SEMICOLON"
      /\ "STRING_LITERAL" \in L!TokenTypes \ {"END_OF_FILE"} /\ "STRING_LITERAL" # "SEMICOLON"
  BY DEF L!TokenTypes
<1>7. CASE end > Len(query)
  <2>1. L!Emit("ERROR", end)
    BY <1>4, <1>7 DEF L!Literal
  <2>2. end \in position..(Len(query) + 1)
    BY <1>1, <1>5
  <2> QED
    BY <1>2, <1>3, <1>6, <2>1, <2>2, EmitKeeps
<1>8. CASE ~ (end > Len(query))
  <2>1. L!Emit("STRING_LITERAL", end + 1)
    BY <1>4, <1>8 DEF L!Literal
  <2>2. end + 1 \in position..(Len(query) + 1)
    BY <1>1, <1>5, <1>8
  <2> QED
    BY <1>2, <1>3, <1>6, <2>1, <2>2, EmitKeeps
<1> QED
  BY <1>7, <1>8

LEMMA WordKeeps ==
  ASSUME LexInv, L!Word
  PROVE  LexInv'
<1>1. /\ Len(query) \in Nat /\ position \in Nat \ {0}
      /\ L!current # "\\0" <=> position <= Len(query)
  BY PlaceFacts
<1>2. lexerPc = "scan" /\ position <= Len(query)
  BY <1>1, Characters DEF L!Word, L!Scanning
<1>3. PICK end : end = L!EndOf(position, L!WordChars)
  OBVIOUS
<1>4. end \in position..(Len(query) + 1)
  BY <1>1, <1>2, <1>3, EndOfDef
<1>5. PICK type : type = L!getTokenTypeAlpha(SubSeq(query, position, end - 1))
  OBVIOUS
<1>6. L!Emit(type, end)
  BY <1>3, <1>5 DEF L!Word
<1>7. type \in L!TokenTypes \ {"END_OF_FILE"} /\ type # "SEMICOLON"
  BY <1>5, WordTypes
<1> QED
  BY <1>2, <1>4, <1>6, <1>7, EmitKeeps

LEMMA NumberKeeps ==
  ASSUME LexInv, L!Number
  PROVE  LexInv'
<1>1. /\ Len(query) \in Nat /\ position \in Nat \ {0} /\ query \in Seq(Chars)
      /\ L!current # "\\0" <=> position <= Len(query)
  BY PlaceFacts
<1>2. lexerPc = "scan" /\ position <= Len(query)
  BY <1>1, Characters DEF L!Number, L!Scanning
<1>3. PICK end : end = L!EndOfNumber(position)
  OBVIOUS
<1>4. end \in position..(Len(query) + 1)
  <2>1. PICK j \in position..(Len(query) + 1) : j = L!EndOf(position, L!Digits)
    BY <1>1, <1>2, EndOfDef
  <2>2. CASE L!At(j) = "."
    <3>1. j \in Nat /\ j \in 1..Len(query)
      BY <1>1, <2>2, AtDef
    <3>2. j + 1 \in 1..(Len(query) + 1)
      BY <1>1, <3>1
    <3>3. end = L!EndOf(j + 1, L!Digits)
      BY <1>3, <2>1, <2>2 DEF L!EndOfNumber
    <3>4. end \in (j + 1)..(Len(query) + 1)
      BY <1>1, <3>2, <3>3, EndOfDef
    <3> QED
      BY <1>1, <3>1, <3>4
  <2>3. CASE L!At(j) # "."
    BY <1>3, <2>1, <2>3 DEF L!EndOfNumber
  <2> QED
    BY <2>2, <2>3
<1>5. PICK type : type = L!getTokenTypeDigit(SubSeq(query, position, end - 1))
  OBVIOUS
<1>6. L!Emit(type, end)
  BY <1>3, <1>5 DEF L!Number
<1>7. type \in L!TokenTypes \ {"END_OF_FILE"} /\ type # "SEMICOLON"
  BY <1>5, NumeralTypes
<1> QED
  BY <1>2, <1>4, <1>6, <1>7, EmitKeeps

LEMMA FinishKeeps ==
  ASSUME LexInv, L!Finish
  PROVE  LexInv'
<1> DEFINE token == [type |-> "END_OF_FILE", from |-> Len(query) + 1,
                     to |-> Len(query), line |-> line]
<1>1. /\ Len(query) \in Nat /\ position \in 1..(Len(query) + 1) /\ line \in Nat \ {0}
      /\ lexed \in Seq(LexedToken) /\ IsQuery(query)
  BY PlaceFacts DEF LexInv
<1>2. /\ lexed' = Append(lexed, token) /\ position' = position /\ lexerPc = "scan"
      /\ query' = query /\ line' = line /\ lexerPc' = "done"
  BY DEF L!Finish
<1>3. token \in LexedToken /\ token.type = "END_OF_FILE" /\ token.to = Len(query)
  BY <1>1 DEF LexedToken, L!TokenTypes
<1> HIDE DEF token
<1>4. /\ lexed' \in Seq(LexedToken) /\ Len(lexed') = Len(lexed) + 1 /\ Len(lexed) \in Nat
      /\ DOMAIN lexed = 1..Len(lexed) /\ DOMAIN lexed' = 1..(Len(lexed) + 1)
      /\ lexed'[Len(lexed) + 1] = token
      /\ \A i \in 1..Len(lexed) : lexed'[i] = lexed[i]
  BY <1>1, <1>2, <1>3
<1>5. \A i \in DOMAIN lexed : /\ lexed[i].type = "SEMICOLON" => i = Len(lexed)
                              /\ lexed[i].to <= Len(query)
  BY <1>2 DEF LexInv
<1>6. \A i \in DOMAIN lexed' : /\ lexed'[i].to <= Len(query)
                               /\ lexed'[i].type = "SEMICOLON" => i = Len(lexed') - 1
  BY <1>1, <1>3, <1>4, <1>5
<1>7. IsQuery(query') /\ lexed' # << >>
  BY <1>1, <1>2, <1>4
<1>8. lexed'[Len(lexed')].type = "END_OF_FILE"
  BY <1>3, <1>4
<1> QED
  BY <1>1, <1>2, <1>4, <1>6, <1>7, <1>8 DEF LexInv

(* An iteration without a token only goes on.                              *)
LEMMA OnwardKeeps ==
  ASSUME LexInv, lexerPc # "done", lexerPc' \in {"scan", "comment"},
         query' = query, lexed' = lexed, line' \in Nat \ {0},
         position' \in position..(Len(query) + 1)
  PROVE  LexInv'
<1>1. /\ Len(query) \in Nat /\ position \in Nat \ {0} /\ IsQuery(query)
      /\ lexed \in Seq(LexedToken)
  BY PlaceFacts DEF LexInv
<1>2. position' \in 1..(Len(query) + 1) /\ (position > Len(query) => position' > Len(query))
  BY <1>1
<1>3. \A i \in DOMAIN lexed :
        /\ lexed[i].to <= Len(query) /\ lexed[i].type # "END_OF_FILE"
        /\ lexed[i].type = "SEMICOLON" => i = Len(lexed) /\ position > Len(query)
  BY DEF LexInv
<1>4. IsQuery(query')
  BY <1>1
<1> QED
  BY <1>1, <1>2, <1>3, <1>4 DEF LexInv

LEMMA LexerKeeps ==
  ASSUME LexInv, L!Step
  PROVE  LexInv'
<1>1. /\ Len(query) \in Nat /\ position \in Nat \ {0} /\ position <= Len(query) + 1
      /\ line \in Nat \ {0}
      /\ L!current # "\\0" <=> position <= Len(query)
  BY PlaceFacts DEF LexInv
<1>2. CASE L!Skip
  <2>1. position' \in position..(Len(query) + 1)
    BY <1>1, <1>2 DEF L!Skip
  <2> QED
    BY <1>1, <1>2, <2>1, OnwardKeeps DEF L!Skip
<1>3. CASE L!Newline
  <2>1. lexerPc = "scan" /\ position <= Len(query)
    <3>1. L!current = "\n" /\ lexerPc = "scan"
      BY <1>3 DEF L!Newline, L!Scanning
    <3> QED
      BY <1>1, <3>1
  <2>2. /\ position' = position + 1 /\ line' = line + 1
        /\ query' = query /\ lexed' = lexed /\ lexerPc' = lexerPc
    BY <1>3 DEF L!Newline
  <2>3. position' \in position..(Len(query) + 1) /\ line' \in Nat \ {0}
    BY <1>1, <2>1, <2>2
  <2> QED
    BY <2>1, <2>2, <2>3, OnwardKeeps
<1>4. CASE L!StartComment
  <2>1. position' \in position..(Len(query) + 1)
    BY <1>1, <1>4 DEF L!StartComment
  <2> QED
    BY <1>1, <1>4, <2>1, OnwardKeeps DEF L!StartComment, L!Scanning
<1>5. CASE L!CommentChar
  <2>1. position' \in position..(Len(query) + 1)
    BY <1>1, <1>5 DEF L!CommentChar
  <2> QED
    BY <1>1, <1>5, <2>1, OnwardKeeps DEF L!CommentChar
<1>6. CASE L!EndComment
  <2>1. L!current = "\n" /\ lexerPc = "comment"
    BY <1>6 DEF L!EndComment
  <2>2. position <= Len(query)
    BY <1>1, <2>1
  <2>3. /\ position' = position + 1 /\ line' = line
        /\ query' = query /\ lexed' = lexed /\ lexerPc' = "scan"
    BY <1>6 DEF L!EndComment
  <2>4. position' \in position..(Len(query) + 1)
    BY <1>1, <2>2, <2>3
  <2> QED
    BY <1>1, <2>1, <2>3, <2>4, OnwardKeeps
<1> QED
  BY <1>2, <1>3, <1>4, <1>5, <1>6, OperatorKeeps, LiteralKeeps, WordKeeps, NumberKeeps,
     FinishKeeps DEF L!Step

-----------------------------------------------------------------------------
(* The Parser reads its tokens only.                                       *)

LEMMA ParserReads ==
  ASSUME P!Step
  PROVE  parsed' = parsed
<1>1. CASE P!ParseSelect
  BY <1>1 DEF P!ParseSelect, P!Done, P!Proceed
<1>2. CASE P!SelectColumn
  BY <1>2 DEF P!SelectColumn, P!Done, P!Proceed
<1>3. CASE P!ParseInsert
  BY <1>3 DEF P!ParseInsert, P!Done, P!Proceed
<1>4. CASE P!ParseValues
  BY <1>4 DEF P!ParseValues, P!Done, P!Proceed
<1>5. CASE P!UnexpectedToken \/ P!EndOfSelectList \/ P!ParseFrom \/ P!ParseDelete
            \/ P!ParseUpdate \/ P!MoreAssignments \/ P!EndOfAssignments \/
            P!ParseDrop \/ P!ColumnName \/ P!EndOfColumnNames \/ P!NextValue
  BY <1>5 DEF P!UnexpectedToken, P!EndOfSelectList, P!ParseFrom, P!ParseDelete,
           P!ParseUpdate, P!MoreAssignments, P!EndOfAssignments, P!ParseDrop,
           P!ColumnName, P!EndOfColumnNames, P!NextValue, P!Done, P!Proceed
<1>6. CASE P!OutOfMemory \/ P!EndOfValueList \/ P!ParseEndOfValues \/
            P!UnknownCreate \/ P!ParseCreateIndex \/ P!ParseCreateTable \/
            P!BadTextLength \/ P!ColumnDefinition \/ P!Constraint \/
            P!EndOfConstraints \/ P!EndOfColumns
  BY <1>6 DEF P!OutOfMemory, P!EndOfValueList, P!ParseEndOfValues, P!UnknownCreate,
           P!ParseCreateIndex, P!ParseCreateTable, P!BadTextLength,
           P!ColumnDefinition, P!Constraint, P!EndOfConstraints, P!EndOfColumns,
           P!Done, P!Proceed
<1> QED
  BY <1>1, <1>2, <1>3, <1>4, <1>5, <1>6 DEF P!Step

(* What the Lexer made of a query, as the Parser takes it.                 *)
LEMMA TokenIs ==
  ASSUME query \in Seq(Chars), NEW t \in LexedToken, t.to <= Len(query)
  PROVE  /\ Token(t) \in P!TokenRecord /\ Token(t).type = t.type
         /\ t.type = "END_OF_FILE" => Token(t) = P!EndOfFile
<1>1. /\ Len(query) \in Nat /\ \A i \in 1..Len(query) : query[i] \in STRING
      /\ t.from \in Nat \ {0} /\ t.to \in Nat /\ t.type \in STRING
  <2>1. Len(query) \in Nat /\ \A i \in 1..Len(query) : query[i] \in STRING
    BY DEF Chars
  <2>2. t.from \in Nat \ {0} /\ t.to \in Nat /\ t.type \in L!TokenTypes
    BY DEF LexedToken
  <2>3. L!TokenTypes \subseteq STRING
    BY LiteralsAssumption, Zenon
  <2> QED
    BY <2>1, <2>2, <2>3
<1>2. \A m \in Nat \ {0} : \A n \in Int :
        n <= Len(query) => SubSeq(query, m, n) \in Seq(STRING)
  <2> TAKE m \in Nat \ {0}, n \in Int
  <2> HAVE n <= Len(query)
  <2>1. \A i \in m..n : query[i] \in STRING
    BY <1>1
  <2> QED
    BY <2>1, SubSeqProperties
<1>3. /\ SubSeq(query, t.from, t.to) \in Seq(STRING)
      /\ SubSeq(query, t.from + 1, t.to - 1) \in Seq(STRING)
  BY <1>1, <1>2
<1>4. << >> \in Seq(STRING)
  OBVIOUS
<1> QED
  BY <1>1, <1>3, <1>4 DEF Token, P!TokenRecord, P!EndOfFile

LEMMA StartParseGives ==
  ASSUME LexInv, StartParse
  PROVE  P!IsInput(parsed)'
<1>1. /\ lexed \in Seq(LexedToken) /\ query \in Seq(Chars)
      /\ \A i \in DOMAIN lexed : lexed[i].to <= Len(query)
      /\ lexed # << >> /\ lexed[Len(lexed)].type = "END_OF_FILE"
      /\ \A i \in DOMAIN lexed : lexed[i].type = "SEMICOLON" => i = Len(lexed) - 1
  BY DEF LexInv, IsQuery, StartParse
<1>2. parsed' = [i \in DOMAIN lexed |-> Token(lexed[i])]
  BY DEF StartParse
<1>3. Len(lexed) \in Nat \ {0} /\ DOMAIN lexed = 1..Len(lexed)
  BY <1>1
<1>4. \A i \in 1..Len(lexed) :
        /\ parsed'[i] \in P!TokenRecord /\ parsed'[i].type = lexed[i].type
        /\ lexed[i].type = "END_OF_FILE" => parsed'[i] = P!EndOfFile
  <2> TAKE i \in 1..Len(lexed)
  <2>1. lexed[i] \in LexedToken /\ lexed[i].to <= Len(query)
    BY <1>1, <1>3
  <2>2. parsed'[i] = Token(lexed[i])
    BY <1>2, <1>3
  <2> QED
    BY <1>1, <2>1, <2>2, TokenIs
<1>5. parsed' \in [1..Len(lexed) -> P!TokenRecord]
  BY <1>2, <1>3, <1>4
<1>6. /\ parsed' \in Seq(P!TokenRecord) /\ Len(parsed') = Len(lexed)
      /\ DOMAIN parsed' = 1..Len(lexed)
  BY <1>3, <1>5
<1> QED
  BY <1>1, <1>3, <1>4, <1>6 DEF P!IsInput

-----------------------------------------------------------------------------
(* main.                                                                   *)

LEMMA SemiTests ==
  ASSUME NEW text
  PROVE  Holds(text, ";") <=> Holds(text, Semi)
  BY Zenon DEF Semi

LEMMA CutIsQuery ==
  ASSUME NEW text \in Seq(Chars), Holds(text, Semi)
  PROVE  IsQuery(SubSeq(text, 1, FirstSemi(text)))
<1>1. PICK n \in 1..Len(text) :
        n = FirstSemi(text) /\ text[n] = Semi /\ \A j \in 1..(n - 1) : text[j] # Semi
  BY FirstSemiDef
<1>2. Len(text) \in Nat /\ \A i \in 1..Len(text) : text[i] \in Chars
  OBVIOUS
<1>3. PICK cut : cut = SubSeq(text, 1, n)
  OBVIOUS
<1>4. /\ cut \in Seq(Chars) /\ Len(cut) = n /\ DOMAIN cut = 1..n
      /\ \A i \in 1..n : cut[i] = text[i]
  <2>1. n \in Int /\ 1 \in Int /\ 1 <= n /\ \A i \in 1..n : text[i] \in Chars
    BY <1>2
  <2>2. /\ cut \in Seq(Chars) /\ Len(cut) = n - 1 + 1
        /\ \A i \in 1..(n - 1 + 1) : cut[i] = text[1 + i - 1]
    BY <1>3, <2>1, SubSeqProperties
  <2> QED
    BY <2>1, <2>2
<1>5. \A k \in DOMAIN cut : cut[k] = Semi => k = Len(cut)
  BY <1>1, <1>2, <1>4
<1>6. Holds(cut, Semi)
  BY <1>1, <1>2, <1>4 DEF Holds
<1> QED
  BY <1>1, <1>3, <1>4, <1>5, <1>6 DEF IsQuery

LEMMA ReadFacts ==
  ASSUME ReplInv, ReadLine
  PROVE  /\ NextLine \in Seq(Chars) /\ read' \in 0..Len(session.lines)
         /\ read' = read + 1 /\ read \in Nat
         /\ pc = "prompt" /\ session' = session /\ answers' = answers /\ parsed' = parsed
<1>1. /\ pc = "prompt" /\ read < Len(session.lines) /\ read' = read + 1
      /\ session' = session /\ answers' = answers /\ parsed' = parsed
  BY DEF ReadLine, parserVars
<1>2. /\ session \in Sessions /\ read \in 0..Len(session.lines) /\ buffer \in Seq(Chars)
  BY DEF ReplInv, SessionInv
<1>3. session.lines \in Seq(Seq(Chars))
  BY <1>2, SessionsAssumption DEF Chars
<1>4. session.lines[read + 1] \in Seq(Chars) /\ Len(session.lines) \in Nat
  BY <1>1, <1>2, <1>3
<1>5. Blank \in Chars
  BY LiteralsAssumption, Zenon DEF Chars, Blank
<1>6. NextLine \in Seq(Chars)
  <2>1. <<Blank>> \in Seq(Chars)
    BY <1>5
  <2>2. NextLine = IF buffer = << >> THEN session.lines[read + 1]
                   ELSE buffer \o <<Blank>> \o session.lines[read + 1]
    BY Zenon DEF NextLine, Join, Blank
  <2> QED
    BY <1>2, <1>4, <2>1, <2>2
<1> QED
  BY <1>1, <1>2, <1>4, <1>6

LEMMA KeepReadingKeeps ==
  ASSUME ReplInv, KeepReading
  PROVE  ReplInv'
<1>1. /\ NextLine \in Seq(Chars) /\ read' \in 0..Len(session.lines)
      /\ read' = read + 1 /\ read \in Nat
      /\ pc = "prompt" /\ session' = session /\ answers' = answers
  BY ReadFacts DEF KeepReading
<1>2. ~ Holds(NextLine, Semi)
  BY Zenon DEF KeepReading, Semi
<1>3. buffer' = NextLine /\ pc' = pc
  BY Zenon DEF KeepReading
<1>4. ~ Holds(buffer', Semi)
  BY <1>2, <1>3
<1>5. session \in Sessions /\ Len(answers) <= read /\ \E S : answers \in Seq(S)
  BY DEF ReplInv, SessionInv
<1>6. Len(answers) \in Nat
  BY <1>5
<1>7. SessionInv'
  BY <1>1, <1>3, <1>4, <1>5, <1>6 DEF SessionInv
<1> QED
  BY <1>1, <1>3, <1>7 DEF ReplInv

LEMMA EmptyBuffer == << >> \in Seq(Chars) /\ ~ Holds(<< >>, Semi)
  BY DEF Holds

LEMMA ReadQueryKeeps ==
  ASSUME ReplInv, ReadQuery
  PROVE  ReplInv'
<1>1. /\ NextLine \in Seq(Chars) /\ read' \in 0..Len(session.lines)
      /\ read' = read + 1 /\ read \in Nat
      /\ pc = "prompt" /\ session' = session /\ answers' = answers
  BY ReadFacts DEF ReadQuery
<1>2. Holds(NextLine, Semi)
  BY Zenon DEF ReadQuery, Semi
<1>3. /\ query' = SubSeq(NextLine, 1, FirstSemi(NextLine)) /\ buffer' = << >> /\ pc' = "lex"
      /\ position' = 1 /\ line' = 1 /\ lexed' = << >> /\ lexerPc' = "scan"
  BY Zenon DEF ReadQuery
<1>4. IsQuery(query')
  BY <1>1, <1>2, <1>3, CutIsQuery
<1>5. Len(query') \in Nat
  BY <1>4 DEF IsQuery
<1>6. LexInv'
  <2>1. lexed' \in Seq(LexedToken) /\ \A i \in DOMAIN lexed' : FALSE
    BY <1>3
  <2>2. position' \in 1..(Len(query') + 1) /\ line' \in Nat \ {0}
    <3>1. position' = 1 /\ line' = 1
      BY <1>3
    <3> QED
      BY <1>5, <3>1
  <2> QED
    BY <1>3, <1>4, <2>1, <2>2 DEF LexInv
<1>7. session \in Sessions /\ Len(answers) <= read /\ \E S : answers \in Seq(S)
  BY DEF ReplInv, SessionInv
<1>8. Len(answers) \in Nat
  BY <1>7
<1>9. buffer' \in Seq(Chars) /\ ~ Holds(buffer', Semi)
  BY <1>3, EmptyBuffer
<1>10. SessionInv'
  BY <1>1, <1>3, <1>7, <1>8, <1>9 DEF SessionInv
<1> QED
  BY <1>3, <1>6, <1>10 DEF ReplInv

LEMMA ReadExitKeeps ==
  ASSUME ReplInv, ReadExit
  PROVE  ReplInv'
<1>1. /\ read' \in 0..Len(session.lines) /\ read' = read + 1 /\ read \in Nat
      /\ session' = session /\ answers' = answers
  BY ReadFacts, Zenon DEF ReadExit
<1>2. buffer' = << >> /\ pc' = "exited"
  BY Zenon DEF ReadExit
<1>3. buffer' \in Seq(Chars) /\ ~ Holds(buffer', Semi)
  BY <1>2, EmptyBuffer
<1>4. session \in Sessions /\ Len(answers) <= read /\ \E S : answers \in Seq(S)
  BY DEF ReplInv, SessionInv
<1>5. Len(answers) \in Nat
  BY <1>4
<1>6. SessionInv'
  BY <1>1, <1>2, <1>3, <1>4, <1>5 DEF SessionInv
<1> QED
  BY <1>2, <1>6 DEF ReplInv

(* Nothing is read or answered.                                            *)
LEMMA SessionStays ==
  ASSUME SessionInv, session' = session, read' = read, buffer' = buffer, answers' = answers,
         \/ pc' = pc
         \/ pc' \in {"exited", "terminated"}
         \/ pc = "lex" /\ pc' = "parse"
  PROVE  SessionInv'
<1>1. Holds(buffer', Semi) = Holds(buffer, Semi)
  OBVIOUS
<1> QED
  BY <1>1 DEF SessionInv

LEMMA TokenizeKeeps ==
  ASSUME ReplInv, Tokenize
  PROVE  ReplInv'
<1>1. pc = "lex" /\ L!Step
  BY DEF Tokenize
<1>2. LexInv'
  BY <1>1, LexerKeeps DEF ReplInv
<1>3. SessionInv'
  BY SessionStays DEF Tokenize, ReplInv
<1> QED
  BY <1>1, <1>2, <1>3 DEF Tokenize, ReplInv

LEMMA StartParseKeeps ==
  ASSUME ReplInv, StartParse
  PROVE  ReplInv'
<1>1. /\ pc = "lex" /\ pc' = "parse" /\ lexerPc = "done" /\ lexerPc' = lexerPc
      /\ session' = session /\ read' = read /\ buffer' = buffer /\ answers' = answers
  BY DEF StartParse, lexerVars
<1>2. P!IsInput(parsed)'
  BY <1>1, StartParseGives DEF ReplInv
<1>3. SessionInv'
  BY <1>1, SessionStays DEF ReplInv
<1> QED
  BY <1>1, <1>2, <1>3 DEF ReplInv

LEMMA ParseKeeps ==
  ASSUME ReplInv, Parse
  PROVE  ReplInv'
<1>1. /\ pc = "parse" /\ pc' = pc /\ lexerPc' = lexerPc
      /\ session' = session /\ read' = read /\ buffer' = buffer /\ answers' = answers
  BY DEF Parse, lexerVars
<1>2. parsed' = parsed
  BY ParserReads DEF Parse
<1>3. P!IsInput(parsed) /\ lexerPc = "done" /\ SessionInv
  BY <1>1 DEF ReplInv
<1>4. P!IsInput(parsed)'
  BY <1>2, <1>3 DEF P!IsInput
<1>5. SessionInv'
  BY <1>1, <1>3, SessionStays
<1> QED
  BY <1>1, <1>3, <1>4, <1>5 DEF ReplInv

LEMMA AnswerKeeps ==
  ASSUME ReplInv, Answer \/ ExecuteDies
  PROVE  ReplInv'
<1>1. /\ pc = "parse" /\ pc' \in {"prompt", "died"}
      /\ session' = session /\ read' = read /\ buffer' = buffer
  BY DEF Answer, ExecuteDies
<1>2. PICK answer : answers' = Append(answers, answer)
  BY DEF Answer, ExecuteDies
<1>3. SessionInv /\ Len(answers) < read /\ read \in 0..Len(session.lines)
  BY <1>1 DEF ReplInv, SessionInv
<1>4. PICK S : answers \in Seq(S)
  BY <1>3 DEF SessionInv
<1>5. answers' \in Seq(S \cup {answer}) /\ Len(answers') = Len(answers) + 1
  BY <1>2, <1>4
<1>6. Len(answers) \in Nat
  BY <1>4
<1>7. Len(answers') <= read'
  <2>1. read \in Int
    BY <1>3 DEF SessionInv
  <2> QED
    BY <1>1, <1>3, <1>5, <1>6, <2>1
<1>8. \E T : answers' \in Seq(T)
  BY <1>5
<1>9. SessionInv'
  BY <1>1, <1>3, <1>7, <1>8 DEF SessionInv
<1> QED
  BY <1>1, <1>9 DEF ReplInv

LEMMA StopKeeps ==
  ASSUME ReplInv, EndOfInput \/ Terminate
  PROVE  ReplInv'
<1>1. /\ pc' \in {"exited", "terminated"}
      /\ session' = session /\ read' = read /\ buffer' = buffer /\ answers' = answers
  BY DEF EndOfInput, Terminate
<1>2. SessionInv'
  BY <1>1, SessionStays DEF ReplInv
<1> QED
  BY <1>1, <1>2 DEF ReplInv

LEMMA StutterKeeps ==
  ASSUME ReplInv, UNCHANGED vars
  PROVE  ReplInv'
<1>1. /\ session' = session /\ read' = read /\ buffer' = buffer /\ answers' = answers
      /\ pc' = pc /\ query' = query /\ position' = position /\ line' = line
      /\ lexed' = lexed /\ lexerPc' = lexerPc /\ parsed' = parsed
  BY DEF vars, lexerVars, parserVars
<1>2. SessionInv'
  BY <1>1, SessionStays DEF ReplInv
<1>3. LexInv' = LexInv
  BY <1>1 DEF LexInv
<1>4. P!IsInput(parsed)' = P!IsInput(parsed)
  BY <1>1 DEF P!IsInput
<1> QED
  BY <1>1, <1>2, <1>3, <1>4 DEF ReplInv

LEMMA InitKeeps ==
  ASSUME Init
  PROVE  ReplInv
<1>1. /\ session \in Sessions /\ read = 0 /\ buffer = << >> /\ pc = "prompt" /\ answers = << >>
  BY DEF Init
<1>2. session.lines \in Seq(Seq(Chars))
  BY <1>1, SessionsAssumption DEF Chars
<1>3. read \in 0..Len(session.lines)
  BY <1>1, <1>2
<1>4. answers \in Seq({}) /\ Len(answers) = 0
  BY <1>1
<1>5. buffer \in Seq(Chars) /\ ~ Holds(buffer, Semi)
  BY <1>1, EmptyBuffer
<1>6. \E S : answers \in Seq(S)
  BY <1>4
<1>7. SessionInv
  BY <1>1, <1>3, <1>4, <1>5, <1>6 DEF SessionInv
<1> QED
  BY <1>1, <1>7 DEF ReplInv

(* main keeps what each component needs of the others.                     *)
THEOREM Invariance == Spec => []ReplInv
<1>1. Init => ReplInv
  BY InitKeeps
<1>2. ReplInv /\ [Next]_vars => ReplInv'
  <2> SUFFICES ASSUME ReplInv, [Next]_vars
               PROVE  ReplInv'
    OBVIOUS
  <2>1. ASSUME Step
        PROVE  ReplInv'
    BY <2>1, KeepReadingKeeps, ReadQueryKeeps, ReadExitKeeps, StopKeeps, TokenizeKeeps,
       StartParseKeeps, ParseKeeps, AnswerKeeps DEF Step
  <2>2. ASSUME UNCHANGED vars
        PROVE  ReplInv'
    BY <2>2, StutterKeeps
  <2> QED
    BY <2>1, <2>2 DEF Next, Stop
<1> QED
  BY <1>1, <1>2, PTL DEF Spec

(* Type correctness: no more queries are answered than lines are read, no  *)
(* semicolon waits in the buffer, and a query has one.                     *)
THEOREM TypeCorrect == Spec => []TypeOK
<1>1. ReplInv => TypeOK
  <2> SUFFICES ASSUME ReplInv
               PROVE  TypeOK
    OBVIOUS
  <2>1. /\ read \in 0..Len(session.lines) /\ Len(answers) <= read
        /\ pc \in {"prompt", "lex", "parse", "exited", "terminated", "died"}
    BY DEF ReplInv, SessionInv
  <2>2. ~ Holds(buffer, ";")
    BY Zenon DEF ReplInv, SessionInv, Semi
  <2>3. ASSUME pc = "lex"
        PROVE  Holds(query, ";") /\ lexerPc \in {"scan", "comment", "done"}
    BY <2>3, Zenon DEF ReplInv, LexInv, IsQuery, Semi
  <2>4. pc = "parse" => lexerPc = "done"
    BY DEF ReplInv
  <2> QED
    BY <2>1, <2>2, <2>3, <2>4, Zenon DEF TypeOK
<1> QED
  BY <1>1, Invariance, PTL

(* What reaches the Parser is an input of it: its tokens end by            *)
(* END_OF_FILE, and no semicolon stands before the last place but one.     *)
THEOREM GivenInputs == Spec => []ParserIsGivenInputs
<1>1. ReplInv => ParserIsGivenInputs
  BY DEF ReplInv, ParserIsGivenInputs
<1> QED
  BY <1>1, Invariance, PTL
=============================================================================
