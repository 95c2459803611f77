------------------------------ MODULE Parser ------------------------------
(***************************************************************************)
(* parse (src/src/parser/parser.cpp): recursive descent from tokens to a   *)
(* statement and the expressions it refers to.                             *)
(*                                                                         *)
(* struct Parser is the record p: its position, the ParseResult it builds, *)
(* and the value returned by the last parse function. A function of the    *)
(* code is an operator from p to p; a loop of a statement is one step per  *)
(* iteration, for not each of them ends. Expressions are numbered from 1,  *)
(* and 0 is the index -1 of the code.                                      *)
(***************************************************************************)
EXTENDS Integers, Sequences, FiniteSets

CONSTANTS Inputs,    \* the token sequences that may be parsed
          NotNumbers, \* the words of which std::stoi throws
          MaxValues  \* values of an INSERT that memory can hold

VARIABLES tokens, p, pc

vars == <<tokens, p, pc>>

(* A token is [type, value]; its value is the word it was made from.       *)
EndOfFile == [type |-> "END_OF_FILE", value |-> << >>]

TokenRecord == [type : STRING, value : Seq(STRING)]

(* The Lexer ends its tokens by END_OF_FILE; main cuts a query at its      *)
(* first semicolon.                                                        *)
IsInput(t) ==
  /\ t \in Seq(TokenRecord) /\ t # << >> /\ t[Len(t)] = EndOfFile
  /\ \A i \in DOMAIN t : t[i].type = "SEMICOLON" => i = Len(t) - 1

ASSUME InputsAssumption == \A t \in Inputs : IsInput(t)
ASSUME MaxValuesAssumption == MaxValues \in Nat \ {0}

NoResult ==
  [position |-> 1, index |-> 0, error |-> FALSE, returned |-> FALSE,
   exprs |-> << >>, kind |-> "NONE", tableName |-> << >>, selectColumns |-> << >>,
   whereIndex |-> 0, insertColumnNames |-> << >>, insertValues |-> << >>,
   assignments |-> << >>, columnDefinitions |-> << >>]

-----------------------------------------------------------------------------
(* The cursor: from the END_OF_FILE token on, it reads END_OF_FILE.        *)
TokenAt(i)  == IF i < Len(tokens) THEN tokens[i] ELSE tokens[Len(tokens)]
current(q)  == TokenAt(q.position)
Is(q, type) == current(q).type = type
IsOneOf(q, types) == current(q).type \in types
peekIs(q, type)   == TokenAt(q.position + 1).type = type
advance(q)  == [q EXCEPT !.position = @ + 1]

(* Mutant of Reject: the message of the error is left empty.               *)
RejectSilently(q) == [q EXCEPT !.returned = TRUE]

(* An error that the caller answers by returning to parse().               *)
Reject(q) == [q EXCEPT !.error = TRUE, !.returned = TRUE]

(* Mutant of consume: the caller goes on without the token.               *)
consumeOptional(q, type) ==
  IF q.returned THEN q ELSE IF Is(q, type) THEN advance(q) ELSE q

consume(q, type) ==
  IF q.returned THEN q ELSE IF Is(q, type) THEN advance(q) ELSE Reject(q)

consumeIdentifier(q) ==
  IF q.returned THEN q ELSE IF Is(q, "IDENTIFIER") THEN advance(q) ELSE Reject(q)

consumeTableName(q) ==
  LET named == consumeIdentifier(q)
  IN  IF named.returned THEN named ELSE [named EXCEPT !.tableName = current(q).value]

skipComma(q) == IF ~ q.returned /\ Is(q, "COMMA") THEN advance(q) ELSE q

-----------------------------------------------------------------------------
(* Expressions. An index of 0 says that there is none, with or without an  *)
(* error set.                                                              *)
Nothing(q)   == [q EXCEPT !.index = 0]
Wrong(q)     == [q EXCEPT !.index = 0, !.error = TRUE]
Push(q, e)   == [q EXCEPT !.exprs = Append(@, e), !.index = Len(q.exprs) + 1]
Leaf(q, e)   == advance(Push(q, e))

Literals ==
  {"INTEGER_LITERAL", "FLOAT_LITERAL", "STRING_LITERAL", "TKNULL", "TRUE", "FALSE"}

(* The levels of precedence, the loosest first: OR, AND, NOT, comparisons, *)
(* sums, products, unary minus and primaries; the binary operators of each.*)
Operators ==
  <<{"OR"}, {"AND"}, {},
    {"EQUAL", "NOT_EQUAL", "LESS_THAN", "LESS_EQ", "GREATER_THAN", "GREATER_EQ", "IS"},
    {"PLUS", "MINUS"}, {"STAR", "SLASH"}, {}, {}>>

(* IS NOT is one operator of two tokens.                                   *)
OperatorOf(q) ==
  IF Is(q, "IS") /\ peekIs(q, "NOT") THEN "IS_NOT" ELSE current(q).type

(* Mutant of SkipOperator: the NOT of an IS NOT is left.                   *)
SkipOneToken(q) == advance(q)
SkipOperator(q) ==
  IF Is(q, "IS") /\ peekIs(q, "NOT") THEN advance(advance(q)) ELSE advance(q)

(* Mutants: the next operand of a chain comes first, or is forgotten.      *)
BinarySwapped(operator, left, right) ==
  [kind |-> "BINARY", operator |-> operator, left |-> right, right |-> left]
BinaryLeftTwice(operator, left, right) ==
  [kind |-> "BINARY", operator |-> operator, left |-> left, right |-> left]

Binary(operator, left, right) ==
  [kind |-> "BINARY", operator |-> operator, left |-> left, right |-> right]
Unary(operator, operand) ==
  [kind |-> "UNARY", operator |-> operator, operand |-> operand]

BinaryOperator == (UNION {Operators[l] : l \in DOMAIN Operators}) \cup {"IS_NOT"}
UnaryOperator  == {"NOT", "NEGATE"}

(* What a parse function for expressions reads and writes.                 *)
Exprs ==
  [kind : {"COLUMN_REF", "LITERAL"}, value : Seq(STRING)]
  \cup [kind : {"BINARY"}, operator : BinaryOperator, left : Nat, right : Nat]
  \cup [kind : {"UNARY"}, operator : UnaryOperator, operand : Nat]
Cursors ==
  [position : Nat \ {0}, index : Nat, error : BOOLEAN, exprs : Seq(Exprs)]

(* The functions call each other to any depth: below, deeper is what their *)
(* calls answer, level[l][q] for an expression of level l at q, more[l][q] *)
(* for the rest of a chain of level l of which q holds the left side.      *)

(* A column may be prefixed: a name, a dot and a name.                     *)
parsePrimary(deeper, q) ==
  CASE Is(q, "IDENTIFIER") /\ peekIs(q, "DOT") ->
         IF peekIs(advance(q), "IDENTIFIER")
         THEN Leaf(advance(advance(q)),
                   [kind |-> "COLUMN_REF", value |-> current(advance(advance(q))).value])
         ELSE Wrong(advance(q))
    [] Is(q, "IDENTIFIER") /\ ~ peekIs(q, "DOT") ->
         Leaf(q, [kind |-> "COLUMN_REF", value |-> current(q).value])
    [] IsOneOf(q, Literals) -> Leaf(q, [kind |-> "LITERAL", value |-> current(q).value])
    [] Is(q, "LEFT_PAREN") ->
         LET inner == deeper.level[1][advance(q)]
         IN  IF inner.index = 0 THEN inner
             ELSE IF Is(inner, "RIGHT_PAREN") THEN advance(inner) ELSE Wrong(inner)
    [] OTHER -> Nothing(q)

Prefixed(operand, operator, q) ==
  LET inner == operand[advance(q)]
  IN  IF inner.index = 0 THEN inner ELSE Push(inner, Unary(operator, inner.index))

parseUnary(deeper, q) ==
  IF Is(q, "MINUS") THEN Prefixed(deeper.level[8], "NEGATE", q) ELSE deeper.level[8][q]

parseNot(deeper, q) ==
  IF Is(q, "NOT") THEN Prefixed(deeper.level[4], "NOT", q) ELSE deeper.level[4][q]

(* parseExpression is the chain of level 1; parseAnd, parseComparison,     *)
(* parseAddSubstract and parseMultiplyDivide are those of 2, 4, 5 and 6.   *)
parseChain(deeper, l, q) ==
  LET left == deeper.level[l + 1][q]
  IN  IF left.index = 0 THEN left ELSE deeper.more[l][left]

(* A chain grows to the left. Only a comparison complains of a missing     *)
(* right side.                                                             *)
MoreOperands(deeper, l, q) ==
  IF ~ IsOneOf(q, Operators[l]) THEN q
  ELSE LET right == deeper.level[l + 1][SkipOperator(q)]
       IN  IF right.index # 0
           THEN deeper.more[l][Push(right, Binary(OperatorOf(q), q.index, right.index))]
           ELSE IF l = 4 THEN Wrong(right) ELSE right

Level(deeper, l, q) ==
  CASE l = 8 -> parsePrimary(deeper, q)
    [] l = 7 -> parseUnary(deeper, q)
    [] l = 3 -> parseNot(deeper, q)
    [] OTHER -> parseChain(deeper, l, q)

NoCalls ==
  [level |-> [l \in 1..8 |-> [q \in Cursors |-> Nothing(q)]],
   more  |-> [l \in 1..8 |-> [q \in Cursors |-> Nothing(q)]]]
Calls(deeper) ==
  [level |-> [l \in 1..8 |-> [q \in Cursors |-> Level(deeper, l, q)]],
   more  |-> [l \in 1..8 |-> [q \in Cursors |-> MoreOperands(deeper, l, q)]]]

(* Calls that go no deeper than depth. From one token to the next there    *)
(* are at most nine, so none is cut short.                                 *)
Depth == 9 * (Len(tokens) + 1)
parse[depth \in 0..Depth] == IF depth = 0 THEN NoCalls ELSE Calls(parse[depth - 1])

parseExpression(q) ==
  LET parsed == parse[Depth].level[1][[position |-> q.position, index |-> q.index,
                                       error |-> q.error, exprs |-> q.exprs]]
  IN  [q EXCEPT !.position = parsed.position, !.index = parsed.index,
                !.error = parsed.error, !.exprs = parsed.exprs]

requireExpression(q) ==
  IF q.returned THEN q
  ELSE LET parsed == parseExpression(q)
       IN  IF parsed.index = 0 THEN Reject(parsed) ELSE parsed

-----------------------------------------------------------------------------
(* The WHERE clause of SELECT, DELETE and UPDATE.                          *)
parseWhere(q) ==
  IF q.returned \/ ~ Is(q, "WHERE") THEN q
  ELSE LET parsed == requireExpression(advance(q))
       IN  IF parsed.returned THEN parsed ELSE [parsed EXCEPT !.whereIndex = parsed.index]

parseAssignment(q) ==
  LET parsed == requireExpression(consume(consumeIdentifier(q), "EQUAL"))
  IN  IF parsed.returned THEN parsed
      ELSE [parsed EXCEPT !.assignments =
              Append(@, [column |-> current(q).value, index |-> parsed.index])]

ListEnd == {"SEMICOLON", "END_OF_FILE"}

(* Go on at the next place of the code, or return.                         *)
GoTo(next, q) == p' = q /\ pc' = IF q.returned THEN "done" ELSE next
Proceed(next, q) == GoTo(next, q) /\ UNCHANGED tokens
Done(q) == Proceed("done", q)

Init == tokens \in Inputs /\ p = NoResult /\ pc = "parse"

Begins(type) == pc = "parse" /\ Is(p, type)
Of(kind) == [advance(p) EXCEPT !.kind = kind]

UnexpectedToken ==
  /\ pc = "parse"
  /\ ~ IsOneOf(p, {"SELECT", "INSERT", "CREATE", "UPDATE", "DELETE", "DROP"})
  /\ Done(Reject(p))

(* SELECT *, or a list of expressions; commas are not asked for.           *)
ParseSelect ==
  /\ Begins("SELECT")
  /\ LET q == Of("SELECT")
     IN  IF ~ Is(q, "STAR") THEN Proceed("selectList", q)
         ELSE IF IsOneOf(advance(q), {"FROM"} \cup ListEnd)
              THEN Proceed("from", advance(q))
              ELSE Done(Reject(advance(q)))

(* Mutant of SelectColumn: a column that is none is taken into the list.   *)
SelectColumnUnseen ==
  /\ pc = "selectList" /\ ~ IsOneOf(p, {"FROM"} \cup ListEnd)
  /\ LET q == parseExpression(p)
     IN  Len(p.selectColumns) < MaxValues
         /\ Proceed("selectList", skipComma([q EXCEPT !.selectColumns = Append(@, q.index)]))

SelectColumn ==
  /\ pc = "selectList" /\ ~ IsOneOf(p, {"FROM"} \cup ListEnd)
  /\ LET q == parseExpression(p)
     IN  IF q.index = 0 THEN Done(Reject(q))
         ELSE Proceed("selectList",
                      skipComma([q EXCEPT !.selectColumns = Append(@, q.index)]))

EndOfSelectList ==
  /\ pc = "selectList" /\ IsOneOf(p, {"FROM"} \cup ListEnd)
  /\ Proceed("from", p)

(* FROM may be missing, which leaves whereIndex unset and no table name to *)
(* find a table by. What follows is not looked at.                         *)
ParseFrom ==
  /\ pc = "from"
  /\ Done(IF Is(p, "FROM") THEN parseWhere(consumeTableName(advance(p))) ELSE p)

ParseDelete ==
  /\ Begins("DELETE")
  /\ Done(consume(parseWhere(consumeTableName(consume(Of("DELETE"), "FROM"))),
                  "SEMICOLON"))

ParseUpdate ==
  /\ Begins("UPDATE")
  /\ Proceed("assignments", parseAssignment(consume(consumeTableName(Of("UPDATE")), "SET")))

MoreAssignments ==
  /\ pc = "assignments" /\ Is(p, "COMMA")
  /\ Proceed("assignments", parseAssignment(advance(p)))

EndOfAssignments ==
  /\ pc = "assignments" /\ ~ Is(p, "COMMA")
  /\ Done(consume(parseWhere(p), "SEMICOLON"))

ParseDrop ==
  /\ Begins("DROP")
  /\ Done(consume(consumeTableName(consume(Of("DROP_TABLE"), "TABLE")), "SEMICOLON"))

-----------------------------------------------------------------------------
(* INSERT. Any token will do as a column name.                             *)
TakeColumnName(q) ==
  advance([q EXCEPT !.insertColumnNames = Append(@, current(q).value)])

ParseInsert ==
  /\ Begins("INSERT")
  /\ LET q == consumeTableName(consume(Of("INSERT"), "INTO"))
     IN  IF ~ q.returned /\ Is(q, "LEFT_PAREN")
         THEN Proceed("columnNames", TakeColumnName(advance(q)))
         ELSE Proceed("values", q)

ColumnName ==
  /\ pc = "columnNames" /\ ~ IsOneOf(p, {"RIGHT_PAREN"} \cup ListEnd)
  /\ Proceed("columnNames", skipComma(TakeColumnName(skipComma(p))))

EndOfColumnNames ==
  /\ pc = "columnNames" /\ IsOneOf(p, {"RIGHT_PAREN"} \cup ListEnd)
  /\ Proceed("values", consume(p, "RIGHT_PAREN"))

(* A value that is none is taken into the list as well, as index 0.        *)
TakeValue(q) ==
  LET parsed == parseExpression(q)
  IN  [parsed EXCEPT !.insertValues = Append(@, parsed.index)]

(* Values without a parenthesis are no values, and are not looked at.      *)
ParseValues ==
  /\ pc = "values"
  /\ LET q == consume(p, "VALUES")
     IN  IF q.returned \/ ~ Is(q, "LEFT_PAREN") THEN Done(q)
         ELSE LET first == TakeValue(advance(q))
              IN  IF Is(first, "COMMA") THEN Proceed("valueList", advance(first))
                  ELSE Proceed("endOfValues", first)

InValueList == pc = "valueList" /\ ~ IsOneOf(p, {"RIGHT_PAREN"} \cup ListEnd)

(* The vector of values outgrows the memory: bad_alloc ends the process.   *)
OutOfMemory ==
  /\ InValueList /\ Len(p.insertValues) >= MaxValues
  /\ pc' = "outOfMemory" /\ UNCHANGED <<tokens, p>>

NextValue ==
  /\ InValueList /\ Len(p.insertValues) < MaxValues
  /\ Proceed("valueList", skipComma(TakeValue(skipComma(p))))

EndOfValueList ==
  /\ pc = "valueList" /\ IsOneOf(p, {"RIGHT_PAREN"} \cup ListEnd)
  /\ Proceed("endOfValues", p)

ParseEndOfValues ==
  /\ pc = "endOfValues"
  /\ Done(consume(consume(p, "RIGHT_PAREN"), "SEMICOLON"))

-----------------------------------------------------------------------------
(* CREATE. The words TABLE and INDEX are compared as they were typed.      *)
UnknownCreate ==
  /\ Begins("CREATE")
  /\ current(advance(p)).value \notin {<<"TABLE">>, <<"INDEX">>}
  /\ Done(Reject(advance(p)))

ParseCreateIndex ==
  /\ Begins("CREATE") /\ current(advance(p)).value = <<"INDEX">>
  /\ LET table == consumeTableName(consume(advance(Of("CREATE_INDEX")), "ON"))
     IN  Done(consume(consume(consumeIdentifier(consume(table, "LEFT_PAREN")),
                              "RIGHT_PAREN"), "SEMICOLON"))

ParseCreateTable ==
  /\ Begins("CREATE") /\ current(advance(p)).value = <<"TABLE">>
  /\ Proceed("columns",
             consume(consumeTableName(advance(Of("CREATE_TABLE"))), "LEFT_PAREN"))

DataTypeTokens == {"INTEGER", "FLOAT", "TEXT", "BOOLEAN"}

(* The length of a TEXT is the stoi of any token; nothing catches what it  *)
(* throws if that is no number, or too large a one.                        *)
IsTextWithLength(q) == Is(q, "TEXT") /\ peekIs(q, "LEFT_PAREN")
LengthThrows(q) ==
  IsTextWithLength(q) /\ current(advance(advance(q))).value \in NotNumbers

parseType(q) ==
  CASE q.returned -> q
    [] ~ q.returned /\ ~ IsOneOf(q, DataTypeTokens) -> Reject(q)
    [] ~ q.returned /\ IsTextWithLength(q) ->
         consume(advance(advance(advance(q))), "RIGHT_PAREN")
    [] OTHER -> advance(q)

BeginsColumn == pc = "columns" /\ ~ IsOneOf(p, {"RIGHT_PAREN"} \cup ListEnd)

BadTextLength ==
  /\ BeginsColumn /\ Is(p, "IDENTIFIER") /\ LengthThrows(advance(p))
  /\ pc' = "terminated" /\ UNCHANGED <<tokens, p>>

ColumnDefinition ==
  /\ BeginsColumn /\ ~ (Is(p, "IDENTIFIER") /\ LengthThrows(advance(p)))
  /\ LET q == parseType(consumeIdentifier(p))
     IN  Proceed("constraints",
           [q EXCEPT !.columnDefinitions =
              IF q.returned THEN @
              ELSE Append(@, [name |-> current(p).value, type |-> current(advance(p)).type,
                              notNull |-> FALSE, primaryKey |-> FALSE])])

(* PRIMARY KEY, then NOT NULL, in one pass through the loop. A PRIMARY or  *)
(* a NOT that is followed by anything else is left where it is.            *)
PrimaryKey(q) ==
  IF Is(q, "PRIMARY") /\ peekIs(q, "KEY")
  THEN [advance(advance(q)) EXCEPT
          !.columnDefinitions[Len(q.columnDefinitions)].primaryKey = TRUE]
  ELSE q
NotNull(q) ==
  IF Is(q, "NOT") /\ peekIs(q, "TKNULL")
  THEN [advance(advance(q)) EXCEPT
          !.columnDefinitions[Len(q.columnDefinitions)].notNull = TRUE]
  ELSE q

Constraint ==
  /\ pc = "constraints" /\ IsOneOf(p, {"PRIMARY", "NOT"})
  /\ Proceed("constraints", NotNull(PrimaryKey(p)))

EndOfConstraints ==
  /\ pc = "constraints" /\ ~ IsOneOf(p, {"PRIMARY", "NOT"})
  /\ Proceed("columns", skipComma(p))

(* The token that ended the list is skipped, whatever it is.               *)
EndOfColumns ==
  /\ pc = "columns" /\ IsOneOf(p, {"RIGHT_PAREN"} \cup ListEnd)
  /\ Done(consume(advance(p), "SEMICOLON"))

-----------------------------------------------------------------------------
Step ==
  \/ UnexpectedToken
  \/ ParseSelect \/ SelectColumn \/ EndOfSelectList \/ ParseFrom
  \/ ParseDelete \/ ParseUpdate \/ MoreAssignments \/ EndOfAssignments \/ ParseDrop
  \/ ParseInsert \/ ColumnName \/ EndOfColumnNames \/ ParseValues \/ NextValue
  \/ OutOfMemory \/ EndOfValueList \/ ParseEndOfValues
  \/ UnknownCreate \/ ParseCreateIndex \/ ParseCreateTable
  \/ BadTextLength \/ ColumnDefinition \/ Constraint \/ EndOfConstraints \/ EndOfColumns

(* The result is the caller's, or the process is gone.                     *)
Stop == pc \in {"done", "outOfMemory", "terminated"} /\ UNCHANGED vars

Next == Step \/ Stop

Spec == Init /\ [][Next]_vars

(* One thread that waits for nothing.                                      *)
FairSpec == Spec /\ WF_vars(Step)

-----------------------------------------------------------------------------
Children(e) ==
  CASE e.kind = "BINARY" -> <<e.left, e.right>>
    [] e.kind = "UNARY"  -> <<e.operand>>
    [] OTHER             -> << >>

(* The places that hold the index of an expression: the columns, values,   *)
(* assigned values and WHERE of the statement, and operands; and what each *)
(* holds, which is 0 if it is none.                                        *)
Roots(q) ==
  {<<"column", i, 1>> : i \in DOMAIN q.selectColumns}
  \cup {<<"value", i, 1>> : i \in DOMAIN q.insertValues}
  \cup {<<"assigned", i, 1>> : i \in DOMAIN q.assignments}
  \cup {<<"where", 1, 1>>}
Places(q) == Roots(q) \cup ({"operand"} \X (DOMAIN q.exprs) \X {1, 2})
Held(q, place) ==
  CASE place[1] = "column"   -> q.selectColumns[place[2]]
    [] place[1] = "value"    -> q.insertValues[place[2]]
    [] place[1] = "assigned" -> q.assignments[place[2]].index
    [] place[1] = "where"    -> q.whereIndex
    [] place[1] = "operand"  ->
         LET children == Children(q.exprs[place[2]])
         IN  IF place[3] \in DOMAIN children THEN children[place[3]] ELSE 0

TypeOK ==
  /\ p.position \in 1..(Len(tokens) + 1)
  /\ p.index \in 0..Len(p.exprs) /\ DOMAIN p = DOMAIN NoResult
  /\ \A place \in Places(p) : Held(p, place) \in 0..Len(p.exprs)
  /\ p.returned => p.error /\ pc = "done"
  /\ Len(p.insertValues) <= MaxValues

HasNoValueMissing == \A i \in DOMAIN p.insertValues : p.insertValues[i] # 0

(* Operands come before their operators, so that evalExpr, which follows   *)
(* the indices without looking, comes to an end; no expression is held by  *)
(* two places, so none is evaluated for two; and as long as no error is    *)
(* found each is held by one, so none is left over.                        *)
AstIsForest ==
  /\ \A i \in DOMAIN p.exprs : \A c \in DOMAIN Children(p.exprs[i]) :
       Children(p.exprs[i])[c] \in 1..(i - 1)
  /\ \A a, b \in Places(p) : Held(p, a) = Held(p, b) /\ Held(p, a) # 0 => a = b
  /\ ~ p.error /\ HasNoValueMissing =>
       \A i \in DOMAIN p.exprs : \E place \in Places(p) : Held(p, place) = i

Accepted(kinds) == pc = "done" /\ ~ p.error /\ p.kind \in kinds

(* A statement other than SELECT and INSERT that is accepted is accepted   *)
(* as a whole: with its semicolon, and with no token left behind it.       *)
AcceptedIsWhole ==
  Accepted({"DELETE", "UPDATE", "DROP_TABLE", "CREATE_TABLE", "CREATE_INDEX"}) =>
    p.position = Len(tokens) /\ tokens[p.position - 1].type = "SEMICOLON"

(* The grammar of expressions, from the comment in front of               *)
(* parseExpression: which tokens an expression may stand for at a level.   *)
BinaryOperators(l) == Operators[l] \cup (IF l = 4 THEN {"IS_NOT"} ELSE {})

(* The tokens of an operator, from k on.                                   *)
IsOperatorAt(ts, operator, k) ==
  IF operator = "IS_NOT" THEN ts[k].type = "IS" /\ ts[k + 1].type = "NOT"
  ELSE ts[k].type = operator
OperatorLength(operator) == IF operator = "IS_NOT" THEN 2 ELSE 1

(* A phrase: the tokens ts from one place to another, an expression, and   *)
(* the level at which it stands.                                           *)
Phrases(ts) ==
  [level : 1..8, index : Nat, from : 1..(Len(ts) + 1), to : 0..Len(ts)]
Phrase(level, index, from, to) ==
  [level |-> level, index |-> index, from |-> from, to |-> to]

InParentheses(ts, from, to) ==
  from < to /\ ts[from].type = "LEFT_PAREN" /\ ts[to].type = "RIGHT_PAREN"

(* The rules of the grammar, given the phrases that are derived.           *)
IsBinary(derived, ts, e, l, from, to) ==
  /\ e.kind = "BINARY" /\ e.operator \in BinaryOperators(l)
  /\ \E k \in (from + 1)..(to - 1) :
       /\ IsOperatorAt(ts, e.operator, k)
       /\ derived[Phrase(l, e.left, from, k - 1)]
       /\ derived[Phrase(l + 1, e.right, k + OperatorLength(e.operator), to)]
IsUnary(derived, ts, e, l, from, to) ==
  /\ e.kind = "UNARY" /\ <<l, e.operator, ts[from].type>> \in
                           {<<3, "NOT", "NOT">>, <<7, "NEGATE", "MINUS">>}
  /\ derived[Phrase(l + 1, e.operand, from + 1, to)]
IsPrimary(ts, e, from, to) ==
  \/ /\ e.kind = "COLUMN_REF" /\ ts[to] = [type |-> "IDENTIFIER", value |-> e.value]
     /\ \/ from = to
        \/ from = to - 2 /\ ts[from].type = "IDENTIFIER" /\ ts[to - 1].type = "DOT"
  \/ e.kind = "LITERAL" /\ from = to /\ ts[to].type \in Literals /\ e.value = ts[to].value

IsDerived(derived, ts, exprs, phrase) ==
  LET e    == exprs[phrase.index]
      from == phrase.from
      to   == phrase.to
  IN  /\ from <= to /\ phrase.index \in DOMAIN exprs
      /\ \/ /\ InParentheses(ts, from, to)
            /\ derived[Phrase(1, phrase.index, from + 1, to - 1)]
         \/ \E l \in phrase.level..8 :
              IsBinary(derived, ts, e, l, from, to) \/ IsUnary(derived, ts, e, l, from, to)
         \/ IsPrimary(ts, e, from, to)

Derives(ts, exprs, phrase) ==
  LET derived[ph \in Phrases(ts)] == IsDerived(derived, ts, exprs, ph)
  IN  derived[phrase]

(* The tokens after WHERE derive the expression that a DELETE or UPDATE    *)
(* will evaluate: AND binds tighter than OR, comparisons tighter than NOT, *)
(* chains group to the left, and parentheses override all of it.           *)
WhereIsDerived ==
  Accepted({"DELETE", "UPDATE"}) /\ p.whereIndex # 0 =>
    \E w \in DOMAIN tokens :
      /\ tokens[w].type = "WHERE"
      /\ Derives(tokens, p.exprs, Phrase(1, p.whereIndex, w + 1, Len(tokens) - 2))

(* The same grammar, without the expressions: the phrases of a text.       *)
Texts(ts) == [level : 1..8, from : 1..(Len(ts) + 1), to : 0..Len(ts)]
Text(level, from, to) == [level |-> level, from |-> from, to |-> to]

IsGrammatical(sentence, ts, text) ==
  LET from == text.from
      to   == text.to
  IN  /\ from <= to
      /\ \/ /\ InParentheses(ts, from, to)
            /\ sentence[Text(1, from + 1, to - 1)]
         \/ \E l \in text.level..8, k \in (from + 1)..(to - 1) :
              \E operator \in BinaryOperators(l) :
                /\ IsOperatorAt(ts, operator, k)
                /\ sentence[Text(l, from, k - 1)]
                /\ sentence[Text(l + 1, k + OperatorLength(operator), to)]
         \/ \E l \in text.level..8 :
              /\ <<l, ts[from].type>> \in {<<3, "NOT">>, <<7, "MINUS">>}
              /\ sentence[Text(l + 1, from + 1, to)]
         \/ from = to /\ ts[to].type \in Literals \cup {"IDENTIFIER"}
         \/ /\ from = to - 2 /\ ts[from].type = "IDENTIFIER"
            /\ ts[to - 1].type = "DOT" /\ ts[to].type = "IDENTIFIER"

IsSentence(ts, text) ==
  LET sentence[t \in Texts(ts)] == IsGrammatical(sentence, ts, t)
  IN  sentence[text]

(* The other way round: no condition the grammar allows is refused. With   *)
(* WhereIsDerived, recursive descent with its one token of lookahead (two  *)
(* at IS NOT and at a dot) accepts the grammar and nothing else.           *)
GrammaticalIsAccepted ==
  /\ pc = "done" /\ p.kind = "DELETE" /\ Len(tokens) > 5
  /\ \A i \in 1..4 : tokens[i].type = <<"DELETE", "FROM", "IDENTIFIER", "WHERE">>[i]
  /\ tokens[Len(tokens) - 1].type = "SEMICOLON"
  /\ IsSentence(tokens, Text(1, 5, Len(tokens) - 2))
  => ~ p.error

(* The loops in the order a statement passes through them.                *)
Loops ==
  <<"parse", "selectList", "from", "assignments", "columnNames", "values",
    "valueList", "endOfValues", "constraints", "columns", "done",
    "outOfMemory", "terminated">>
LoopOf(c) == CHOOSE i \in DOMAIN Loops : Loops[i] = c

(* Each step consumes a token or goes on to a later loop, whatever the    *)
(* tokens, so the loops of a statement end, but for the one over values,   *)
(* which may take the index of no expression again and again:             *)
(* MemorySuffices. (The one over constraints may stand still, which is no  *)
(* step of this property: ParseAnswers.)                                   *)
LoopsAdvance ==
  [][ \/ p.position < p'.position
      \/ p.position = p'.position /\ LoopOf(pc) < LoopOf(pc')
      \/ pc' = "valueList" /\ p'.insertValues = Append(p.insertValues, 0) ]_vars

-----------------------------------------------------------------------------
(* What documents and tests say, and the code does not.                    *)

(* README.md: the parser takes the tokens and produces an AST. It returns, *)
(* it fits its result into the memory, and no token ends the process.      *)
ParseAnswers == <>(pc = "done")
MemorySuffices == pc # "outOfMemory"
LengthIsRead   == pc # "terminated"

(* ast/statement.h: insertValues are expression indices.                   *)
ValuesAreExpressions == Accepted({"INSERT"}) => HasNoValueMissing

(* executor.cpp reports a "column count mismatch on insert". A column list *)
(* has as many names as there are values, or the statement is refused.     *)
ColumnsHaveValues ==
  Accepted({"INSERT"}) /\ p.insertColumnNames # << >> =>
    Len(p.insertColumnNames) <= Len(p.insertValues)

(* A test: "SELECT error message mentions unexpected token". A SELECT that *)
(* is accepted has no tokens left but its semicolon.                       *)
SelectIsWhole ==
  Accepted({"SELECT"}) =>
    p.position >= Len(tokens) \/ Is(p, "SEMICOLON")

(* A test: "keywords are case-insensitive". A CREATE is refused for other  *)
(* reasons than the case of TABLE.                                         *)
CreateInAnyCase ==
  pc = "done" /\ tokens[1].type = "CREATE" /\ tokens[2].type \in {"TABLE", "INDEX"} =>
    p.kind # "NONE"
=============================================================================
