-------------------------------- MODULE Row --------------------------------
(***************************************************************************)
(* Values, rows and schemas (src/src/storage/row.h and row.cpp,            *)
(* src/src/ast/statement.h), as the executor sees them: which rows can be  *)
(* serialized under a schema, how serialization fails, and how many bytes  *)
(* the row takes in a page.                                                *)
(*                                                                         *)
(* A value is [type |-> ..., v |-> sequence of integers]: the characters   *)
(* of a TEXT, one number for an INTEGER or a FLOAT, 0 or 1 for a BOOLEAN,  *)
(* nothing for NULL and for the FLOAT that is not a number.                *)
(***************************************************************************)
EXTENDS Integers, Sequences

DataTypes == {"INTEGER", "FLOAT", "TEXT", "BOOLEAN"}

Integer(n) == [type |-> "INTEGER", v |-> <<n>>]
Float(n)   == [type |-> "FLOAT", v |-> <<n>>]
Text(s)    == [type |-> "TEXT", v |-> s]
Boolean(b) == [type |-> "BOOLEAN", v |-> <<IF b THEN 1 ELSE 0>>]
NULL       == [type |-> "NULL", v |-> << >>]
NaN        == [type |-> "FLOAT", v |-> << >>]

(* operator== of std::variant: same alternative and equal content; a NaN   *)
(* differs from itself, while NULL equals NULL.                            *)
ValueEq(a, b) == a = b /\ a # NaN

(* A column is [name, type, textLength, notNull, primaryKey].              *)
columnNames(columns) == [i \in DOMAIN columns |-> columns[i].name]

(* Index of the first primary key column, 0 if there is none (-1 in C++).  *)
IsKeyColumn(columns, i) ==
  columns[i].primaryKey /\ \A j \in 1..(i - 1) : ~ columns[j].primaryKey
primaryKeyIndex(columns) ==
  IF \E i \in DOMAIN columns : IsKeyColumn(columns, i)
  THEN CHOOSE i \in DOMAIN columns : IsKeyColumn(columns, i)
  ELSE 0

(* A stored value: NULL, or a value of the column's type that fits it.     *)
Fits(value, column) ==
  \/ value = NULL
  \/ /\ value.type = column.type
     /\ value.type = "TEXT" => Len(value.v) <= column.textLength

RowFits(row, columns) ==
  Len(row) = Len(columns) /\ \A i \in DOMAIN columns : Fits(row[i], columns[i])

-----------------------------------------------------------------------------
(* serializeRow sizes the row first: std::get<std::string> of a value of   *)
(* another type throws bad_variant_access, which nothing catches, and a    *)
(* TEXT longer than its column is an error. The first such column decides. *)
(* A value of a wrong type in another column throws in the second pass.    *)
NoSuchText(value, column) ==
  column.type = "TEXT" /\ value # NULL /\ ~ Fits(value, column)

FirstNoSuchText(row, columns, i) ==
  /\ NoSuchText(row[i], columns[i])
  /\ \A j \in 1..(i - 1) : ~ NoSuchText(row[j], columns[j])

(* Mutant of SerializeError: the length of a TEXT is not compared.         *)
SerializeErrorAnyLength(row, columns) ==
  CASE Len(row) # Len(columns) -> "SchemaMismatch"
    [] Len(row) = Len(columns) /\ \A i \in DOMAIN columns :
         row[i] = NULL \/ row[i].type = columns[i].type -> "None"
    [] OTHER -> "bad_variant_access"

SerializeError(row, columns) ==
  CASE Len(row) # Len(columns) -> "SchemaMismatch"
    [] Len(row) = Len(columns) /\ RowFits(row, columns) -> "None"
    [] Len(row) = Len(columns) /\ ~ RowFits(row, columns) ->
         IF \E i \in DOMAIN columns : /\ FirstNoSuchText(row, columns, i)
                                      /\ row[i].type = "TEXT"
         THEN "TextTooLong"
         ELSE "bad_variant_access"

(* One byte for the null flag; a TEXT has two bytes of length before its   *)
(* characters.                                                             *)
ValueSize(value) ==
  CASE value.type = "NULL"    -> 1
    [] value.type = "TEXT"    -> 1 + 2 + Len(value.v)
    [] value.type = "BOOLEAN" -> 1 + 1
    [] OTHER                  -> 1 + 8

RowSize(row) ==
  LET upTo[i \in 0..Len(row)] == IF i = 0 THEN 0 ELSE upTo[i - 1] + ValueSize(row[i])
  IN  upTo[Len(row)]

(* The size of the largest row that fits a schema.                         *)
MaxValueSize(column) ==
  CASE column.type = "TEXT"    -> 1 + 2 + column.textLength
    [] column.type = "BOOLEAN" -> 1 + 1
    [] OTHER                   -> 1 + 8

MaxRowSize(columns) ==
  LET upTo[i \in 0..Len(columns)] ==
        IF i = 0 THEN 0 ELSE upTo[i - 1] + MaxValueSize(columns[i])
  IN  upTo[Len(columns)]
=============================================================================
