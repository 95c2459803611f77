---------------------------- MODULE MCExecutor ----------------------------
(***************************************************************************)
(* A table t (id INTEGER PRIMARY KEY, name TEXT(2) NOT NULL, note          *)
(* TEXT(40)) with two rows to a page and two pages, where a note can make  *)
(* a row larger than a page, and statements that meet every way out of the *)
(* executor's loops.                                                       *)
(***************************************************************************)
EXTENDS Executor

MCColumns ==
  << [name |-> "id", type |-> "INTEGER", textLength |-> 0,
      notNull |-> FALSE, primaryKey |-> TRUE],
     [name |-> "name", type |-> "TEXT", textLength |-> 2,
      notNull |-> TRUE, primaryKey |-> FALSE],
     [name |-> "note", type |-> "TEXT", textLength |-> 40,
      notNull |-> FALSE, primaryKey |-> FALSE] >>

(* The sum of two numbers is enough of a FLOAT here; 0/0 is not a number.  *)
MCFloatArith(op, l, r) ==
  IF op = "DIVIDE" \/ l = << >> \/ r = << >> THEN << >> ELSE <<l[1] + r[1]>>

Lit(value) == [kind |-> "LITERAL", value |-> value]
Col(name)  == [kind |-> "COLUMN_REF", column |-> name]
Bin(op, l, r) == [kind |-> "BINARY", op |-> op, left |-> l, right |-> r]
Neg(e) == [kind |-> "UNARY", op |-> "NEGATE", operand |-> e]

Blank == [kind |-> "NONE", exprs |-> << >>, where |-> 0, selectColumns |-> << >>,
          insertColumnNames |-> << >>, insertValues |-> << >>, assignments |-> << >>]

InsertValues(values) ==
  [Blank EXCEPT !.kind = "INSERT",
                !.exprs = [i \in DOMAIN values |-> Lit(values[i])],
                !.insertValues = [i \in DOMAIN values |-> i]]
Delete(exprs, where) ==
  [Blank EXCEPT !.kind = "DELETE", !.exprs = exprs, !.where = where]
Update(column, exprs, assigned, where) ==
  [Blank EXCEPT !.kind = "UPDATE", !.exprs = exprs, !.where = where,
                !.assignments = << [column |-> column, expr |-> assigned] >>]
Select(exprs, columns, where) ==
  [Blank EXCEPT !.kind = "SELECT", !.exprs = exprs, !.where = where,
                !.selectColumns = columns]

a == <<1>>

Inserts ==
  { InsertValues(<<Integer(1), Text(a), NULL>>),
    InsertValues(<<Integer(2), Text(<< >>), NULL>>),
    InsertValues(<<Integer(2), Text(a)>>),               \* too few values
    InsertValues(<<Boolean(TRUE), Text(a), NULL>>),      \* a wrong type
    InsertValues(<<Integer(3), Text(<<1,1,1>>), NULL>>), \* TEXT too long
    InsertValues(<<Integer(3), Text(a), Text([i \in 1..40 |-> 1])>>),
                                                         \* larger than a page
    \* the key is left out, and NULL
    [InsertValues(<<Text(a)>>) EXCEPT !.insertColumnNames = <<"name">>],
    \* a NOT NULL column is left out
    [InsertValues(<<Integer(2)>>) EXCEPT !.insertColumnNames = <<"id">>] }

Updates ==
  { \* id = id * id: two rows get the same key, and 2 * 2 wraps around
    Update("id", <<Col("id"), Bin("MULTIPLY", 1, 1)>>, 2, 0),
    \* id = 2 - id: 1 keeps its key, 0 and 2 want each other's
    Update("id", <<Lit(Integer(2)), Col("id"), Bin("SUBTRACT", 1, 2)>>, 3, 0),
    \* name = name + 'a' WHERE id > 0: grows; page full, text too long, and
    \* TypeMismatch for a NULL key
    Update("name", <<Col("name"), Lit(Text(a)), Bin("ADD", 1, 2), Col("id"),
                     Lit(Integer(0)), Bin("GREATER_THAN", 4, 5)>>, 3, 6) }

Deletes ==
  { Delete(<<Col("id"), Lit(Integer(1)), Bin("EQUAL", 1, 2)>>, 3),
    \* WHERE -4 / (id - 1) < 0: DivisionByZero for 1, SIGFPE for 0
    Delete(<<Lit(Integer(-4)), Col("id"), Lit(Integer(1)), Bin("SUBTRACT", 2, 3),
             Bin("DIVIDE", 1, 4), Lit(Integer(0)), Bin("LESS_THAN", 5, 6)>>, 7) }

Selects ==
  { Select(<<Col("id"), Lit(Integer(1)), Bin("NOT_EQUAL", 1, 2)>>, << >>, 3),
    \* SELECT name ... WHERE id = 1: id is no column of the result
    Select(<<Col("name"), Col("id"), Lit(Integer(1)), Bin("EQUAL", 2, 3)>>, <<1>>, 4) }

(* For StatementEnds and ImplementsTable: rows that grow, move keys and    *)
(* disappear, and a WHERE that fails on a row.                             *)
MCFewStatements ==
  { InsertValues(<<Integer(1), Text(a), NULL>>),
    InsertValues(<<Integer(2), Text(<< >>), NULL>>),
    Update("name", <<Col("name"), Lit(Text(a)), Bin("ADD", 1, 2)>>, 3, 0),
    Update("id", <<Lit(Integer(3)), Col("id"), Bin("SUBTRACT", 1, 2)>>, 3, 0),
    Select(<< >>, << >>, 0) } \cup Deletes

MCStatements == Inserts \cup Updates \cup Deletes \cup Selects

(* For the properties that documents state: INSERT with an explicit NULL,  *)
(* SELECT name WHERE id = 1, DELETE WHERE NOT id = 1.                      *)
MCDocStatements ==
  { InsertValues(<<Integer(1), Text(a), NULL>>),
    InsertValues(<<Integer(2), NULL, NULL>>),
    Select(<<Col("name"), Col("id"), Lit(Integer(1)), Bin("EQUAL", 2, 3)>>, <<1>>, 4),
    Select(<<Col("name")>>, <<1>>, 0),
    Delete(<<Col("id"), Lit(Integer(1)), Bin("EQUAL", 1, 2),
             [kind |-> "UNARY", op |-> "NOT", operand |-> 3]>>, 4) }
=============================================================================
