------------------------------- MODULE Expr -------------------------------
(***************************************************************************)
(* Evaluation of expressions and WHERE clauses, and the rows that INSERT   *)
(* and UPDATE build from them (src/src/executor/executor_helpers.cpp).     *)
(*                                                                         *)
(* The parser leaves the expressions of a statement in one vector in which *)
(* an operator comes after its operands; exprs[i] is                       *)
(*   [kind |-> "LITERAL", value]       [kind |-> "COLUMN_REF", column]     *)
(*   [kind |-> "BINARY", op, left, right]   [kind |-> "UNARY", op, operand]*)
(*   [kind |-> "PREFIXED_REF", column] for users.age                       *)
(* An operation returns [err |-> "None", val |-> ...] or [err |-> e]; the  *)
(* error "SIGFPE" stands for the signal that ends the process.             *)
(***************************************************************************)
EXTENDS Row

CONSTANTS IntLimit,          \* 2^63: an INTEGER is in -IntLimit .. IntLimit-1
          FloatArith(_,_,_)  \* IEEE arithmetic: operator and two FLOAT contents

ASSUME IntLimitAssumption == IntLimit \in Nat \ {0}

(* What a Value can hold. Nothing is said here of the content of a FLOAT.  *)
IsValue(x) ==
  CASE x.type = "INTEGER" -> \E n \in -IntLimit..(IntLimit - 1) : x = Integer(n)
    [] x.type = "FLOAT"   -> x = [type |-> "FLOAT", v |-> x.v]
    [] x.type = "TEXT"    -> x = Text(x.v) /\ x.v \in Seq(Int)
    [] x.type = "BOOLEAN" -> \E b \in BOOLEAN : x = Boolean(b)
    [] OTHER              -> x = NULL

(* What the parser leaves in a vector of expressions (Parser has how).     *)
AreExpressions(exprs) ==
  \A i \in DOMAIN exprs :
    /\ exprs[i].kind = "LITERAL" => IsValue(exprs[i].value)
    /\ exprs[i].kind = "BINARY" => {exprs[i].left, exprs[i].right} \subseteq 1..(i - 1)
    /\ exprs[i].kind = "UNARY" => exprs[i].operand \in 1..(i - 1)

Ok(x)  == [err |-> "None", val |-> x]
Err(e) == [err |-> e]

(* An error of the left operand, else one of the right; neither AND nor OR *)
(* spares the right one.                                                   *)
OnValues(l, r, Op(_,_)) ==
  IF l.err # "None" THEN l ELSE IF r.err # "None" THEN r ELSE Op(l.val, r.val)

(* All results, or the first error among them.                             *)
IsFirstError(results, i) ==
  results[i].err # "None" /\ \A j \in 1..(i - 1) : results[j].err = "None"
Collect(results) ==
  IF \E i \in DOMAIN results : IsFirstError(results, i)
  THEN results[CHOOSE i \in DOMAIN results : IsFirstError(results, i)]
  ELSE Ok([i \in DOMAIN results |-> results[i].val])

IsFirst(names, name, i) ==
  names[i] = name /\ \A j \in 1..(i - 1) : names[j] # name
indexOf(names, name) ==
  IF \E i \in DOMAIN names : IsFirst(names, name, i)
  THEN CHOOSE i \in DOMAIN names : IsFirst(names, name, i)
  ELSE 0

(* row.at() throws both for an unknown column and past the end of the row. *)
columnValue(row, columns, name) ==
  IF indexOf(columns, name) \in DOMAIN row
  THEN Ok(row[indexOf(columns, name)])
  ELSE Err("ErrorGettingData")

-----------------------------------------------------------------------------
(* Lexicographic order, which on single numbers is their order.            *)
Less(s, t) ==
  \E k \in 0..Len(s) :
    /\ k < Len(t)
    /\ \A j \in 1..k : s[j] = t[j]
    /\ k = Len(s) \/ s[k + 1] < t[k + 1]

(* A NaN is "greater" than anything, in either position.                   *)
compareValues(l, r) ==
  IF l.type # r.type \/ l.type \notin {"INTEGER", "FLOAT", "TEXT"}
  THEN Err("TypeMismatch")
  ELSE Ok(IF ValueEq(l, r) THEN 0
          ELSE IF NaN \notin {l, r} /\ Less(l.v, r.v) THEN -1 ELSE 1)

(* Two's complement: what the build does on signed overflow, except that   *)
(* dividing the least integer by -1 raises SIGFPE.                         *)
Wrap(n) == ((n + IntLimit) % (2 * IntLimit)) - IntLimit

Abs(n) == IF n < 0 THEN -n ELSE n
TruncatedQuotient(n, d) ==
  IF (n < 0) = (d < 0) THEN Abs(n) \div Abs(d) ELSE -(Abs(n) \div Abs(d))

IntArith(op, l, r) ==
  CASE op = "ADD"      -> Ok(Integer(Wrap(l + r)))
    [] op = "SUBTRACT" -> Ok(Integer(Wrap(l - r)))
    [] op = "MULTIPLY" -> Ok(Integer(Wrap(l * r)))
    [] op = "DIVIDE" /\ r = 0 -> Err("DivisionByZero")
    [] op = "DIVIDE" /\ l = -IntLimit /\ r = -1 -> Err("SIGFPE")
    [] OTHER           -> Ok(Integer(TruncatedQuotient(l, r)))

applyArithmetic(op, l, r) ==
  CASE l.type = "INTEGER" /\ r.type = "INTEGER" -> IntArith(op, l.v[1], r.v[1])
    [] l.type = "FLOAT" /\ r.type = "FLOAT" ->
         Ok([type |-> "FLOAT", v |-> FloatArith(op, l.v, r.v)])
    [] l.type = "TEXT" /\ r.type = "TEXT" /\ op = "ADD" -> Ok(Text(l.v \o r.v))
    [] OTHER -> Err("TypeMismatch")

flipSignValue(value) ==
  CASE value.type = "INTEGER" -> Ok(Integer(Wrap(-value.v[1])))
    [] value.type = "FLOAT"   -> Ok([value EXCEPT !.v = [i \in DOMAIN @ |-> -@[i]]])
    [] OTHER                  -> Err("TypeMismatch")

flipBoolValue(value) ==
  IF value.type = "BOOLEAN" THEN Ok(Boolean(value = Boolean(FALSE)))
  ELSE Err("TypeMismatch")

-----------------------------------------------------------------------------
ArithmeticOps == {"ADD", "SUBTRACT", "MULTIPLY", "DIVIDE"}

(* The result of e from those of its operands; a comparison or a           *)
(* connective is no value, so it is an error here.                         *)
ResultOf(e, results, row, columns) ==
  CASE e.kind = "LITERAL"      -> Ok(e.value)
    [] e.kind = "COLUMN_REF"   -> columnValue(row, columns, e.column)
    [] e.kind = "PREFIXED_REF" -> Err("NotImplemented")
    [] e.kind = "BINARY" ->
         OnValues(results[e.left], results[e.right], LAMBDA l, r :
           IF e.op \in ArithmeticOps THEN applyArithmetic(e.op, l, r)
           ELSE Err("InvalidExpression"))
    [] e.kind = "UNARY" ->
         LET operand == results[e.operand]
         IN  CASE operand.err # "None" -> operand
               [] operand.err = "None" /\ e.op = "NEGATE" ->
                    flipSignValue(operand.val)
               [] OTHER -> flipBoolValue(operand.val)
    [] OTHER -> Err("InvalidExpression")

evalExpr(index, exprs, row, columns) ==
  LET eval[i \in DOMAIN exprs] == ResultOf(exprs[i], eval, row, columns)
  IN  eval[index]

(* NULL equals NULL, so IS and IS_NOT differ from EQUAL and NOT_EQUAL in   *)
(* name only.                                                              *)
Compared(op, l, r) ==
  LET order == compareValues(l, r)
      Holds(test) == IF order.err # "None" THEN order ELSE Ok(test)
  IN CASE op \in {"EQUAL", "IS"}         -> Ok(ValueEq(l, r))
       [] op \in {"NOT_EQUAL", "IS_NOT"} -> Ok(~ ValueEq(l, r))
       [] op = "LESS_THAN"               -> Holds(order.val < 0)
       [] op = "LESS_THAN_OR_EQUAL"      -> Holds(order.val <= 0)
       [] op = "GREATER_THAN"            -> Holds(order.val > 0)
       [] op = "GREATER_THAN_OR_EQUAL"   -> Holds(order.val >= 0)
       [] OTHER                          -> Err("NotImplemented")

(* Anything but a binary operator holds of every row.                      *)
evalWhere(index, exprs, row, columns) ==
  LET where[i \in DOMAIN exprs] ==
        LET e == exprs[i]
        IN CASE e.kind # "BINARY" -> Ok(TRUE)
             [] e.kind = "BINARY" /\ e.op = "AND" ->
                  OnValues(where[e.left], where[e.right], LAMBDA l, r : Ok(l /\ r))
             [] e.kind = "BINARY" /\ e.op = "OR" ->
                  OnValues(where[e.left], where[e.right], LAMBDA l, r : Ok(l \/ r))
             [] OTHER ->
                  OnValues(evalExpr(e.left, exprs, row, columns),
                           evalExpr(e.right, exprs, row, columns),
                           LAMBDA l, r : Compared(e.op, l, r))
  IN where[index]

-----------------------------------------------------------------------------
(* VALUES in table order, or in the order of the column list; only a       *)
(* column the list leaves out is checked for NOT NULL.                     *)
rowFromInsertValues(stmt, exprs, columns) ==
  LET Value(k) == evalExpr(stmt.insertValues[k], exprs, << >>, << >>)
      listed(c) == indexOf(stmt.insertColumnNames, columns[c].name)
  IN IF stmt.insertColumnNames = << >>
     THEN Collect([k \in DOMAIN stmt.insertValues |-> Value(k)])
     ELSE Collect([c \in DOMAIN columns |->
            CASE listed(c) # 0                      -> Value(listed(c))
              [] listed(c) = 0 /\ columns[c].notNull -> Err("NotNullViolation")
              [] OTHER                              -> Ok(NULL)])

(* Every right-hand side sees the old row; the last assignment to a column *)
(* wins.                                                                   *)
rowFromUpdate(row, assignments, exprs, names) ==
  LET target(a) == indexOf(names, assignments[a].column)
      values == Collect([a \in DOMAIN assignments |->
                  IF target(a) = 0 THEN Err("ErrorGettingData")
                  ELSE evalExpr(assignments[a].expr, exprs, row, names)])
      IsLast(a, c) == /\ target(a) = c
                      /\ \A b \in DOMAIN assignments : target(b) = c => b <= a
  IN IF values.err # "None" THEN values
     ELSE Ok([c \in DOMAIN row |->
            IF \E a \in DOMAIN assignments : IsLast(a, c)
            THEN values.val[CHOOSE a \in DOMAIN assignments : IsLast(a, c)]
            ELSE row[c]])
=============================================================================
